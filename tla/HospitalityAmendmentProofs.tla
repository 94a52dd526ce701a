--------------------- MODULE HospitalityAmendmentProofs ---------------------
(***************************************************************************)
(* Theorems about the commercial amendments of a booking, for any number   *)
(* of payments, amendments and prices: an amendment moves its difference   *)
(* at most once, closes balanced, and the booking does not change under    *)
(* it.                                                                     *)
(***************************************************************************)
EXTENDS HospitalityAmendments, SumProofs

----------------------------------------------------------------------------
\* Rows and records.

PaymentRows ==
    [amendment : Amendments \cup {NoAmendment}, kind : {"CAPTURE", "REFUND"},
     purpose : {"adjust", "recover"}, amount : Nat \ {0}, source : Nat,
     status : {"AMBIGUOUS", "SUCCEEDED", "FAILED"}, bound : BOOLEAN]

AmendmentRecords ==
    [status : AmendmentStatus, before : Nat, delta : Deltas \cup {0},
     version : 0..MaxBookingVersion, due : BOOLEAN, hold : {"NONE", "ACTIVE", "RELEASED", "EXPIRED"}]

ProviderObjects == [first : ProviderStates, now : ProviderStates]

\* What the types say of the rows.
RowsTyped ==
    /\ amendmentRows \in Seq(PaymentRows)
    /\ RowIds = 1..Len(amendmentRows)
    /\ IsFiniteSet(RowIds)
    /\ \A i \in RowIds : amendmentRows[i] \in PaymentRows

LEMMA TypedRows == AmendmentsTypeOK => RowsTyped
  <1> SUFFICES ASSUME AmendmentsTypeOK PROVE RowsTyped
    OBVIOUS
  <1>1. amendmentRows \in Seq(PaymentRows)
    BY DEF AmendmentsTypeOK, PaymentRows
  <1>2. RowIds = 1..Len(amendmentRows) /\ Len(amendmentRows) \in Nat
    BY <1>1 DEF RowIds
  <1>3. \A i \in RowIds : amendmentRows[i] \in PaymentRows
    BY <1>1, <1>2
  <1>4. IsFiniteSet(RowIds)
    BY <1>2, FS_Interval
  <1>5. QED  BY <1>1, <1>2, <1>3, <1>4 DEF RowsTyped

LEMMA TypedRowsNext == (AmendmentsTypeOK => RowsTyped)'
  BY TypedRows, PTL

LEMMA EndedIs ==
    ASSUME NEW r \in AmendmentRecords, NEW status \in AmendmentStatus
    PROVE  /\ Ended(r, status) \in AmendmentRecords /\ LetGo(r) \in AmendmentRecords
           /\ [LetGo(r) EXCEPT !.due = TRUE] \in AmendmentRecords
           /\ Ended(r, status).status = status /\ Ended(r, status).hold # "ACTIVE"
           /\ Ended(r, status).before = r.before /\ Ended(r, status).delta = r.delta
           /\ LetGo(r).before = r.before /\ LetGo(r).delta = r.delta
           /\ [LetGo(r) EXCEPT !.due = TRUE].before = r.before
           /\ [LetGo(r) EXCEPT !.due = TRUE].delta = r.delta
           /\ LetGo(r).status = r.status /\ [LetGo(r) EXCEPT !.due = TRUE].status = r.status
  BY DEF Ended, LetGo, AmendmentRecords

----------------------------------------------------------------------------
\* Sums of rows.

LEMMA RowSumEmpty == RowSum({}) = 0
  BY SumEmpty DEF RowSum

LEMMA RowSumNat ==
    AmendmentsTypeOK => \A S \in SUBSET RowIds :
        RowSum(S) \in Nat /\ \A T \in SUBSET S : RowSum(T) <= RowSum(S)
  <1> SUFFICES ASSUME AmendmentsTypeOK, NEW S \in SUBSET RowIds
               PROVE  RowSum(S) \in Nat /\ \A T \in SUBSET S : RowSum(T) <= RowSum(S)
    OBVIOUS
  <1> DEFINE f == [i \in RowIds |-> amendmentRows[i].amount]
  <1>1. IsFiniteSet(S)
    BY TypedRows, FS_Subset DEF RowsTyped
  <1>2. \A i \in S : f[i] \in Nat
    BY TypedRows DEF RowsTyped, PaymentRows
  <1>3. \A R : RowSum(R) = SumFunctionOnSet(f, R)
    BY DEF RowSum
  <1> HIDE DEF f
  <1>4. RowSum(S) \in Nat
    BY <1>1, <1>2, <1>3, SumNat
  <1>5. ASSUME NEW T \in SUBSET S PROVE RowSum(T) <= RowSum(S)
    BY <1>1, <1>2, <1>3, SumPart
  <1>6. QED  BY <1>4, <1>5

LEMMA RowSumNatNext ==
    (AmendmentsTypeOK => \A S \in SUBSET RowIds :
        RowSum(S) \in Nat /\ \A T \in SUBSET S : RowSum(T) <= RowSum(S))'
  BY RowSumNat, PTL

\* The rows of a step that keeps the amounts add up to the same.
LEMMA RowSumKept ==
    ASSUME AmendmentsTypeOK, NEW S \in SUBSET RowIds, RowIds \subseteq RowIds',
           \A i \in S : amendmentRows'[i].amount = amendmentRows[i].amount
    PROVE  RowSum(S)' = RowSum(S)
  <1> DEFINE f == [i \in RowIds |-> amendmentRows[i].amount]
             g == [i \in RowIds' |-> amendmentRows'[i].amount]
  <1>1. IsFiniteSet(S)
    BY TypedRows, FS_Subset DEF RowsTyped
  <1>2. \A i \in S : g[i] = f[i]
    OBVIOUS
  <1>3. SumFunctionOnSet(g, S) = SumFunctionOnSet(f, S)
    <2> HIDE DEF f, g
    <2>1. QED  BY <1>1, <1>2, SumAgrees
  <1>4. QED  BY <1>3 DEF RowSum

\* A new row adds its amount.
LEMMA RowSumAppend ==
    ASSUME AmendmentsTypeOK, NEW S \in SUBSET RowIds, NEW x, x \notin RowIds,
           RowIds' = RowIds \cup {x}, NEW n \in Nat, amendmentRows'[x].amount = n,
           \A i \in RowIds : amendmentRows'[i].amount = amendmentRows[i].amount
    PROVE  RowSum(S \cup {x})' = RowSum(S) + n
  <1> DEFINE g == [i \in RowIds' |-> amendmentRows'[i].amount]
  <1>1. IsFiniteSet(S)
    BY TypedRows, FS_Subset DEF RowsTyped
  <1>2. \A i \in S : g[i] \in Int
    BY TypedRows DEF RowsTyped, PaymentRows
  <1>3. x \notin S /\ g[x] = n
    OBVIOUS
  <1>4. \A R : RowSum(R)' = SumFunctionOnSet(g, R)
    BY DEF RowSum
  <1> HIDE DEF g
  <1>5. SumFunctionOnSet(g, S \cup {x}) = SumFunctionOnSet(g, S) + g[x]
    BY <1>1, <1>2, <1>3, SumAdd
  <1>6. RowSum(S)' = RowSum(S)
    BY RowSumKept
  <1>7. QED  BY <1>3, <1>4, <1>5, <1>6

----------------------------------------------------------------------------
\* What the steps write.

\* The rows but for the status and the binding of row i.
RowSet(i, status, bound) ==
    /\ amendmentRows' \in Seq(PaymentRows) /\ Len(amendmentRows') = Len(amendmentRows)
    /\ amendmentRows'[i].status = status /\ amendmentRows'[i].bound = bound
    /\ amendmentRows'[i].amendment = amendmentRows[i].amendment
    /\ amendmentRows'[i].kind = amendmentRows[i].kind
    /\ amendmentRows'[i].purpose = amendmentRows[i].purpose
    /\ amendmentRows'[i].amount = amendmentRows[i].amount
    /\ amendmentRows'[i].source = amendmentRows[i].source
    /\ \A j \in RowIds \ {i} : amendmentRows'[j] = amendmentRows[j]

LEMMA UpdateIs ==
    ASSUME RowsTyped, NEW i \in RowIds, NEW status \in {"AMBIGUOUS", "SUCCEEDED", "FAILED"},
           NEW bound \in BOOLEAN, Update(i, status, bound)
    PROVE  RowSet(i, status, bound) /\ RowIds' = RowIds
  <1> DEFINE row == [amendmentRows[i] EXCEPT !.status = status, !.bound = bound]
  <1>1. amendmentRows[i] \in PaymentRows
    BY DEF RowsTyped
  <1>2. /\ row \in PaymentRows /\ row.status = status /\ row.bound = bound
        /\ row.amendment = amendmentRows[i].amendment /\ row.kind = amendmentRows[i].kind
        /\ row.purpose = amendmentRows[i].purpose /\ row.amount = amendmentRows[i].amount
        /\ row.source = amendmentRows[i].source
    BY <1>1 DEF PaymentRows
  <1>3. amendmentRows' = [amendmentRows EXCEPT ![i] = row]
    BY <1>1 DEF Update, RowsTyped
  <1> HIDE DEF row
  <1>4. /\ amendmentRows' \in Seq(PaymentRows) /\ Len(amendmentRows') = Len(amendmentRows)
        /\ amendmentRows'[i] = row /\ \A j \in RowIds \ {i} : amendmentRows'[j] = amendmentRows[j]
    BY <1>2, <1>3 DEF RowsTyped
  <1>5. RowIds' = RowIds
    BY <1>3 DEF RowIds
  <1>6. QED  BY <1>2, <1>4, <1>5 DEF RowSet

\* The rows after a claim, the new one is x.
Claimed(x, a, purpose, source, amount) ==
    /\ x \notin RowIds /\ RowIds' = RowIds \cup {x}
    /\ amendmentRows'[x] = [amendment |-> a, kind |-> Kind(source), purpose |-> purpose,
                            amount |-> amount, source |-> source, status |-> "AMBIGUOUS",
                            bound |-> FALSE]
    /\ amendmentProvider'[x] = [first |-> "none", now |-> "none"]
    /\ \A i \in RowIds : /\ amendmentRows'[i] = amendmentRows[i]
                         /\ amendmentProvider'[i] = amendmentProvider[i]
    /\ amendmentCalls' = amendmentCalls \cup {[row |-> x, answer |-> "none"]}
    /\ AmendmentsTypeOK'

LEMMA ClaimIs ==
    ASSUME AmendmentsTypeOK, NEW a \in Amendments, NEW purpose \in {"adjust", "recover"},
           NEW source \in RowIds \cup {0}, NEW amount \in Nat \ {0}, MayClaim,
           Claim(a, purpose, source, amount)
    PROVE  Claimed(Len(amendmentRows) + 1, a, purpose, source, amount)
  <1> DEFINE row == [amendment |-> a, kind |-> Kind(source), purpose |-> purpose, amount |-> amount,
                     source |-> source, status |-> "AMBIGUOUS", bound |-> FALSE]
             object == [first |-> "none", now |-> "none"]
             n == Len(amendmentRows)
             call == [row |-> n + 1, answer |-> "none"]
  <1>0. RowsTyped /\ n \in Nat
    BY TypedRows DEF RowsTyped
  <1>1. source \in Nat
    BY <1>0 DEF RowsTyped
  <1>2. row \in PaymentRows
    BY <1>1 DEF PaymentRows, Kind
  <1>3. object \in ProviderObjects
    BY DEF ProviderObjects, ProviderStates
  <1>4. amendmentProvider \in Seq(ProviderObjects) /\ Len(amendmentProvider) = n
    <2>1. amendmentProvider \in [RowIds -> ProviderObjects] /\ RowIds = 1..n
      BY <1>0 DEF AmendmentsTypeOK, RowsTyped, ProviderObjects
    <2>2. amendmentProvider \in [1..n -> ProviderObjects]
      BY <2>1
    <2>3. QED  BY <1>0, <2>2
  <1>5. amendmentRows' = Append(amendmentRows, row) /\ amendmentProvider' = Append(amendmentProvider, object)
    BY DEF Claim
  <1> HIDE DEF row, object
  <1>6. /\ amendmentRows' \in Seq(PaymentRows) /\ Len(amendmentRows') = n + 1
        /\ amendmentRows'[n + 1] = row
        /\ \A i \in 1..n : amendmentRows'[i] = amendmentRows[i]
    BY <1>0, <1>2, <1>5 DEF RowsTyped
  <1>7. /\ amendmentProvider' \in Seq(ProviderObjects) /\ Len(amendmentProvider') = n + 1
        /\ amendmentProvider'[n + 1] = object
        /\ \A i \in 1..n : amendmentProvider'[i] = amendmentProvider[i]
    BY <1>3, <1>4, <1>5
  <1>8. RowIds' = 1..(n + 1) /\ RowIds = 1..n
    BY <1>0, <1>6 DEF RowIds, RowsTyped
  <1>9. RowIds' = RowIds \cup {n + 1} /\ n + 1 \notin RowIds
    BY <1>0, <1>8
  <1>10. amendmentProvider' \in [RowIds' -> ProviderObjects]
    BY <1>7, <1>8
  <1>11. amendmentCalls' = amendmentCalls \cup {call}
    BY <1>6 DEF Claim
  <1>12. AmendmentsTypeOK'
    <2>1. Len(amendmentRows') <= Len(BookedCaptures) + MaxAmendmentRows
      BY <1>0, <1>6, AmendmentsAssumption DEF MayClaim, AmendmentsAssumption
    <2>2. call \in [row : RowIds', answer : ProviderStates]
      BY <1>9 DEF ProviderStates
    <2>3. amendmentCalls' \subseteq [row : RowIds', answer : ProviderStates]
      BY <1>9, <1>11, <2>2 DEF AmendmentsTypeOK
    <2>4. amendmentSnapshots' \subseteq [row : RowIds', now : ProviderStates]
      BY <1>9 DEF AmendmentsTypeOK, Claim
    <2>5. UNCHANGED <<amendedBooking, amendments>>
      BY DEF Claim
    <2>6. amendmentRows' \in Seq(PaymentRows) /\ amendmentProvider' \in [RowIds' -> ProviderObjects]
      BY <1>6, <1>10
    <2>7. QED
      BY <2>1, <2>3, <2>4, <2>5, <2>6 DEF AmendmentsTypeOK, PaymentRows, ProviderObjects
  <1>13. QED
    BY <1>6, <1>7, <1>8, <1>9, <1>11, <1>12 DEF row, object, Claimed

----------------------------------------------------------------------------
\* What is claimed.

\* The rows of an amendment that moved money or still may.
TakenOf(a, kind) ==
    {i \in Linked(a, {}) : amendmentRows[i].kind = kind /\ amendmentRows[i].status # "FAILED"}

LEMMA EffectInt ==
    ASSUME AmendmentsTypeOK
    PROVE  /\ \A S \in SUBSET RowIds : \A kind : RowSum(Settled(S, kind)) \in Nat
           /\ \A S \in SUBSET RowIds : Effect(S) \in Int
           /\ \A a, X : Linked(a, X) \in SUBSET RowIds
           /\ \A X : NetSettled(X) \in Int
           /\ \A s \in RowIds : \A X : Refundable(s, X) \in Int
  <1>1. ASSUME NEW S \in SUBSET RowIds, NEW kind PROVE RowSum(Settled(S, kind)) \in Nat
    <2>1. Settled(S, kind) \in SUBSET RowIds
      BY DEF Settled
    <2>2. QED  BY <2>1, RowSumNat
  <1>2. ASSUME NEW S \in SUBSET RowIds PROVE Effect(S) \in Int
    BY <1>1 DEF Effect
  <1>3. \A a, X : Linked(a, X) \in SUBSET RowIds
    BY DEF Linked
  <1>4. ASSUME NEW X PROVE NetSettled(X) \in Int
    <2>1. RowIds \ X \in SUBSET RowIds
      OBVIOUS
    <2>2. QED  BY <1>2, <2>1 DEF NetSettled
  <1>5. ASSUME NEW s \in RowIds, NEW X PROVE Refundable(s, X) \in Int
    <2>1. {i \in Settled(RowIds \ X, "REFUND") : amendmentRows[i].source = s} \in SUBSET RowIds
      BY DEF Settled
    <2>2. RowSum({i \in Settled(RowIds \ X, "REFUND") : amendmentRows[i].source = s}) \in Nat
      BY <2>1, RowSumNat
    <2>3. amendmentRows[s].amount \in Nat
      BY TypedRows DEF RowsTyped, PaymentRows
    <2>4. QED  BY <2>2, <2>3 DEF Refundable
  <1>6. QED  BY <1>1, <1>2, <1>3, <1>4, <1>5

\* With nothing unresolved, what was taken is settled.
LEMMA TakenIsSettled ==
    ASSUME AmendmentsTypeOK, NEW a, Unresolved(Linked(a, {})) = {}
    PROVE  \A kind : Settled(Linked(a, {}), kind) = TakenOf(a, kind)
  <1>1. \A i \in Linked(a, {}) : amendmentRows[i].status \in {"SUCCEEDED", "FAILED"}
    BY TypedRows DEF RowsTyped, PaymentRows, Unresolved, Linked
  <1>2. QED  BY <1>1 DEF Settled, TakenOf

LEMMA DeltaInt ==
    AmendmentsTypeOK => \A a \in Amendments :
        /\ amendments[a].delta \in Int /\ amendments[a].before \in Nat
        /\ amendments[a].delta \in Deltas \cup {0}
        /\ amendments[a] \in AmendmentRecords
  <1> SUFFICES ASSUME AmendmentsTypeOK, NEW a \in Amendments
               PROVE  /\ amendments[a].delta \in Int /\ amendments[a].before \in Nat
                      /\ amendments[a].delta \in Deltas \cup {0}
                      /\ amendments[a] \in AmendmentRecords
    OBVIOUS
  <1>1. amendments \in [Amendments -> AmendmentRecords]
    BY DEF AmendmentsTypeOK, AmendmentRecords
  <1>2. amendments[a] \in AmendmentRecords
    BY <1>1
  <1>3. \A d \in Deltas \cup {0} : d \in Int
    BY AmendmentsAssumption DEF AmendmentsAssumption
  <1>4. amendments[a].delta \in Deltas \cup {0} /\ amendments[a].before \in Nat
    BY <1>2 DEF AmendmentRecords
  <1>5. amendments[a].delta \in Int
    BY <1>3, <1>4
  <1>6. QED  BY <1>2, <1>4, <1>5

LEMMA DeltaIntNext ==
    (AmendmentsTypeOK => \A a \in Amendments :
        /\ amendments[a].delta \in Int /\ amendments[a].before \in Nat
        /\ amendments[a].delta \in Deltas \cup {0}
        /\ amendments[a] \in AmendmentRecords)'
  BY DeltaInt, PTL

LEMMA ExecutionFits ==
    ASSUME AmendmentsTypeOK, NEW a \in Amendments, NEW source \in RowIds \cup {0},
           Executes(a, source, {})
    PROVE  /\ ExecutionAmount(a, source, {}) \in Nat \ {0}
           /\ amendments[a].status = "PREPARED"
           /\ IF source = 0
                THEN /\ IsCharge(a)
                     /\ RowSum(TakenOf(a, "CAPTURE")) + ExecutionAmount(a, source, {}) <= amendments[a].delta
                ELSE /\ ~IsCharge(a)
                     /\ RowSum(TakenOf(a, "REFUND")) + ExecutionAmount(a, source, {}) <= -amendments[a].delta
  <1> DEFINE delta == amendments[a].delta
             L == Linked(a, {})
             captures == RowSum(Settled(L, "CAPTURE"))
             refunds == RowSum(Settled(L, "REFUND"))
             n == ExecutionAmount(a, source, {})
  <1>1. /\ delta \in Int /\ amendments[a].status = "PREPARED" /\ (IsCharge(a) <=> source = 0)
        /\ Unresolved(L) = {} /\ Effect(L) # delta /\ Between(Effect(L), 0, delta)
        /\ \A i \in L : amendmentRows[i].kind = (IF IsCharge(a) THEN "CAPTURE" ELSE "REFUND")
        /\ source # 0 => IsRefundSource(source, RowIds, {})
    BY DeltaInt DEF Executes, RequiresExecution, SettlementAgrees, BookingUnchanged, BookingMatches
  <1>2. captures \in Nat /\ refunds \in Nat /\ Effect(L) = captures - refunds
    BY EffectInt DEF Effect
  <1>3. Settled(L, "CAPTURE") = TakenOf(a, "CAPTURE") /\ Settled(L, "REFUND") = TakenOf(a, "REFUND")
    BY <1>1, TakenIsSettled
  <1>4. CASE source = 0
    <2>1. Settled(L, "REFUND") = {}
      BY <1>1, <1>4 DEF Settled
    <2>2. refunds = 0
      BY <2>1, RowSumEmpty
    <2>3. delta > 0
      BY <1>1, <1>4 DEF IsCharge
    <2>4. n = delta - Effect(L)
      BY <1>4 DEF ExecutionAmount
    <2> HIDE DEF delta, L, captures, refunds, n
    <2>5. n \in Nat \ {0} /\ captures + n <= delta
      BY <1>1, <1>2, <2>2, <2>3, <2>4 DEF Between
    <2>6. QED  BY <1>1, <1>3, <1>4, <2>5 DEF delta, L, captures, n
  <1>5. CASE source # 0
    <2>1. Settled(L, "CAPTURE") = {}
      BY <1>1, <1>5 DEF Settled
    <2>2. captures = 0
      BY <2>1, RowSumEmpty
    <2>3. ~(delta > 0)
      BY <1>1, <1>5 DEF IsCharge
    <2>4. Refundable(source, {}) \in Int /\ Refundable(source, {}) > 0
      BY <1>1, <1>5, EffectInt DEF IsRefundSource
    <2>5. n = Lesser(-(delta - Effect(L)), Refundable(source, {}))
      BY <1>5 DEF ExecutionAmount
    <2> HIDE DEF delta, L, captures, refunds, n
    <2>6. n \in Nat \ {0} /\ refunds + n <= -delta
      BY <1>1, <1>2, <2>2, <2>3, <2>4, <2>5 DEF Between, Lesser
    <2>7. QED  BY <1>1, <1>3, <1>5, <2>6 DEF delta, L, refunds, n
  <1>6. QED  BY <1>4, <1>5

LEMMA CompensationFits ==
    ASSUME AmendmentsTypeOK, NEW a \in Amendments, NEW source \in RowIds \cup {0},
           Compensates(a, source, {})
    PROVE  /\ CompensationAmount(a, source, {}) \in Nat \ {0}
           /\ amendments[a].status = "PREPARED"
           /\ IF source = 0
                THEN RowSum(TakenOf(a, "CAPTURE")) + CompensationAmount(a, source, {})
                       = RowSum(TakenOf(a, "REFUND"))
                ELSE /\ IsCharge(a)
                     /\ RowSum(TakenOf(a, "REFUND")) + CompensationAmount(a, source, {})
                          <= RowSum(Settled(Linked(a, {}), "CAPTURE"))
  <1> DEFINE delta == amendments[a].delta
             before == amendments[a].before
             L == Linked(a, {})
             captures == RowSum(Settled(L, "CAPTURE"))
             refunds == RowSum(Settled(L, "REFUND"))
             n == CompensationAmount(a, source, {})
             net == NetSettled({})
  <1>1. /\ delta \in Int /\ before \in Nat /\ amendments[a].status = "PREPARED"
        /\ Unresolved(L) = {} /\ net - before # 0 /\ net = before + Effect(L)
        /\ Between(net, before, before + delta)
        /\ IF net - before < 0 THEN source = 0 ELSE IsRefundSource(source, L, {})
    BY DeltaInt DEF Compensates, RecoveryAgrees, BookingUnchanged, BookingMatches, Excess, After
  <1>2. captures \in Nat /\ refunds \in Nat /\ Effect(L) = captures - refunds /\ net \in Int
    BY EffectInt DEF Effect
  <1>3. Settled(L, "CAPTURE") = TakenOf(a, "CAPTURE") /\ Settled(L, "REFUND") = TakenOf(a, "REFUND")
    BY <1>1, TakenIsSettled
  <1>4. CASE source = 0
    <2>1. 0 \notin RowIds
      BY TypedRows DEF RowsTyped
    <2>2. ~IsRefundSource(source, L, {})
      BY <1>4, <2>1 DEF IsRefundSource, Settled, Linked
    <2>3. n = -(net - before)
      BY <1>4 DEF CompensationAmount, Excess
    <2> HIDE DEF delta, L, captures, refunds, n, net, before
    <2>4. n \in Nat \ {0} /\ captures + n = refunds
      BY <1>1, <1>2, <2>2, <2>3
    <2>5. QED  BY <1>1, <1>3, <1>4, <2>4 DEF L, captures, refunds, n
  <1>5. CASE source # 0
    <2>1. Refundable(source, {}) \in Int /\ Refundable(source, {}) > 0
      BY <1>1, <1>5, EffectInt DEF IsRefundSource
    <2>2. n = Lesser(net - before, Refundable(source, {}))
      BY <1>5 DEF CompensationAmount, Excess
    <2> HIDE DEF delta, L, captures, refunds, n, net, before
    <2>3. n \in Nat \ {0} /\ refunds + n <= captures /\ delta > 0
      BY <1>1, <1>2, <1>5, <2>1, <2>2 DEF Between, Lesser
    <2>4. QED  BY <1>1, <1>3, <1>5, <2>3 DEF L, captures, refunds, n, delta, IsCharge
  <1>6. QED  BY <1>4, <1>5

----------------------------------------------------------------------------
\* The inductive invariant.

\* Of the amendments: one is prepared at most, and one never prepared has no row.
RecordsFit ==
    /\ \A a, b \in Amendments :
           amendments[a].status = "PREPARED" /\ amendments[b].status = "PREPARED" => a = b
    /\ \A a \in Amendments :
           /\ amendments[a].status = "PREPARED" => amendments[a].before + amendments[a].delta >= 0
           /\ amendments[a].status = "NONE" => amendments[a].delta = 0 /\ Linked(a, {}) = {}

\* Of a row and its object at the provider: what is recorded of it has happened.
RowAgrees(i) ==
    LET r == amendmentRows[i]
        p == amendmentProvider[i]
    IN  /\ r.kind = "CAPTURE" =>
             /\ p.first \in {"none", "refused", "open"}
             /\ p.now \in {"none", "refused", "open", "paid", "expired"}
             /\ r.status = "SUCCEEDED" => p.now = "paid"
        /\ r.kind = "REFUND" =>
             /\ p.first \in {"none", "refused", "pending", "succeeded"}
             /\ p.now \in {"none", "refused", "pending", "succeeded", "failed"}
             /\ r.status = "SUCCEEDED" => p.now \in {"succeeded", "failed"}
        /\ p.first = "none" <=> p.now = "none"
        /\ p.first = "refused" <=> p.now = "refused"
        /\ p.first = "succeeded" => p.now \in {"succeeded", "failed"}
        /\ r.bound => p.first \notin {"none", "refused"}
        /\ r.status = "SUCCEEDED" => r.bound
        /\ p.now = "paid" => r.bound
        /\ r.status = "FAILED" => p.now \in {"refused", "expired", "failed"}
        /\ r.status = "FAILED" /\ ~r.bound => p.now = "refused"
        /\ r.amendment = NoAmendment => r.kind = "CAPTURE" /\ r.status = "SUCCEEDED"
        /\ r.status = "AMBIGUOUS" => amendments[r.amendment].status = "PREPARED"

\* Of a call: its answer is the provider's first, or that a Session has expired.
CallAgrees(c) ==
    /\ c.answer # "none" => amendmentProvider[c.row].first # "none"
    /\ c.answer \in {"refused", "open", "pending", "succeeded"} =>
           amendmentProvider[c.row].first = c.answer

\* Of a state retrieved: it is the provider's or was so, and the row has not run ahead of it.
SnapshotAgrees(s) ==
    LET r == amendmentRows[s.row]
        p == amendmentProvider[s.row]
    IN  /\ r.bound
        /\ s.now \in IF r.kind = "CAPTURE" THEN {"open", "paid", "expired"}
                                           ELSE {"pending", "succeeded", "failed"}
        /\ s.now \in {"paid", "expired", "failed"} => p.now = s.now
        /\ s.now = "succeeded" => p.now \in {"succeeded", "failed"}
        /\ s.now \in {"open", "pending"} => r.status = "AMBIGUOUS" /\ p.first = s.now
        /\ r.status = "FAILED" => s.now \in {"expired", "failed"}

\* Of the sums: what is taken for an amendment fits its difference.
SumsFit(a) ==
    IF IsCharge(a)
      THEN /\ RowSum(TakenOf(a, "CAPTURE")) <= amendments[a].delta
           /\ RowSum(TakenOf(a, "REFUND")) <= RowSum(Settled(Linked(a, {}), "CAPTURE"))
      ELSE /\ RowSum(TakenOf(a, "CAPTURE")) <= -amendments[a].delta
           /\ RowSum(TakenOf(a, "REFUND")) <= -amendments[a].delta

AmendmentsInv ==
    /\ AmendmentsTypeOK
    /\ RecordsFit
    /\ \A i \in RowIds : RowAgrees(i)
    /\ \A c \in amendmentCalls : CallAgrees(c)
    /\ \A s, t \in amendmentSnapshots : s = t
    /\ \A s \in amendmentSnapshots : SnapshotAgrees(s)
    /\ \A a \in Amendments : SumsFit(a)

----------------------------------------------------------------------------
\* The parts a step leaves alone.

\* Rows and records unchanged.
LEMMA SumsKept ==
    ASSUME RecordsFit, \A a \in Amendments : SumsFit(a), UNCHANGED <<amendments, amendmentRows>>
    PROVE  RecordsFit' /\ \A a \in Amendments : SumsFit(a)'
  BY DEF RecordsFit, SumsFit, RowSum, RowIds, TakenOf, Linked, Settled, IsCharge

LEMMA InvFacts ==
    ASSUME AmendmentsInv, NEW i \in RowIds
    PROVE  /\ amendmentRows[i] \in PaymentRows /\ amendmentProvider[i] \in ProviderObjects
           /\ RowAgrees(i)
           /\ \A c \in amendmentCalls : c \in [row : RowIds, answer : ProviderStates] /\ CallAgrees(c)
           /\ \A s \in amendmentSnapshots :
                 s \in [row : RowIds, now : ProviderStates] /\ SnapshotAgrees(s)
  <1>1. AmendmentsTypeOK /\ RowsTyped
    BY TypedRows DEF AmendmentsInv
  <1>2. amendmentProvider \in [RowIds -> ProviderObjects]
    BY <1>1 DEF AmendmentsTypeOK, ProviderObjects
  <1>3. amendmentProvider[i] \in ProviderObjects
    BY <1>2
  <1>4. amendmentRows[i] \in PaymentRows
    BY <1>1 DEF RowsTyped
  <1>5. RowAgrees(i)
    BY DEF AmendmentsInv
  <1>6. \A c \in amendmentCalls : c \in [row : RowIds, answer : ProviderStates] /\ CallAgrees(c)
    BY <1>1 DEF AmendmentsInv, AmendmentsTypeOK
  <1>7. \A s \in amendmentSnapshots :
           s \in [row : RowIds, now : ProviderStates] /\ SnapshotAgrees(s)
    BY <1>1 DEF AmendmentsInv, AmendmentsTypeOK
  <1>8. QED  BY <1>3, <1>4, <1>5, <1>6, <1>7

\* A step of the amendments and the booking alone.
LEMMA RecordsStep ==
    ASSUME AmendmentsInv, AmendmentsTypeOK', RecordsFit',
           UNCHANGED <<amendmentRows, amendmentProvider, amendmentCalls, amendmentSnapshots>>,
           \A a \in Amendments :
              /\ amendments[a].status # "NONE" => amendments'[a].delta = amendments[a].delta
              /\ amendments[a].status = "PREPARED" /\ amendments'[a].status # "PREPARED" =>
                    Unresolved(Linked(a, {})) = {}
    PROVE  AmendmentsInv'
  <1>1. /\ AmendmentsTypeOK /\ RowsTyped /\ RecordsFit
        /\ \A a \in Amendments : SumsFit(a)
    BY TypedRows DEF AmendmentsInv
  <1>2. /\ RowIds' = RowIds /\ \A S : RowSum(S)' = RowSum(S)
        /\ \A a : Linked(a, {})' = Linked(a, {})
        /\ \A a, kind : TakenOf(a, kind)' = TakenOf(a, kind)
        /\ \A S, kind : Settled(S, kind)' = Settled(S, kind)
    BY DEF RowIds, RowSum, Linked, TakenOf, Settled
  <1>3. ASSUME NEW i \in RowIds PROVE RowAgrees(i)'
    <2>1. RowAgrees(i) /\ amendmentRows[i] \in PaymentRows
      BY InvFacts
    <2>2. CASE amendmentRows[i].status = "AMBIGUOUS"
      <3> DEFINE a == amendmentRows[i].amendment
      <3>1. a \in Amendments /\ amendments[a].status = "PREPARED"
        BY <2>1, <2>2 DEF RowAgrees, PaymentRows
      <3>2. i \in Unresolved(Linked(a, {}))
        BY <2>2 DEF Unresolved, Linked
      <3>3. amendments'[a].status = "PREPARED"
        BY <3>1, <3>2
      <3>4. QED  BY <2>1, <3>3 DEF RowAgrees
    <2>3. CASE amendmentRows[i].status # "AMBIGUOUS"
      BY <2>1, <2>3 DEF RowAgrees
    <2>4. QED  BY <2>2, <2>3
  <1>4. /\ \A c \in amendmentCalls' : CallAgrees(c)'
        /\ \A s, t \in amendmentSnapshots' : s = t
        /\ \A s \in amendmentSnapshots' : SnapshotAgrees(s)'
    BY DEF AmendmentsInv, CallAgrees, SnapshotAgrees
  <1>5. ASSUME NEW a \in Amendments PROVE SumsFit(a)'
    <2>1. CASE amendments[a].status # "NONE"
      BY <1>1, <1>2, <2>1 DEF SumsFit, IsCharge
    <2>2. CASE amendments[a].status = "NONE"
      <3>1. Linked(a, {}) = {}
        BY <1>1, <2>2 DEF RecordsFit
      <3>2. (\A kind : TakenOf(a, kind) = {}) /\ Settled(Linked(a, {}), "CAPTURE") = {}
        BY <3>1 DEF TakenOf, Settled
      <3>3. /\ RowSum(TakenOf(a, "CAPTURE")) = 0 /\ RowSum(TakenOf(a, "REFUND")) = 0
            /\ RowSum(Settled(Linked(a, {}), "CAPTURE")) = 0
        BY <3>2, RowSumEmpty
      <3>4. amendments'[a].delta \in Int
        BY DeltaIntNext
      <3>5. QED  BY <1>2, <3>3, <3>4 DEF SumsFit, IsCharge
    <2>3. QED  BY <2>1, <2>2
  <1>6. QED  BY <1>2, <1>3, <1>4, <1>5 DEF AmendmentsInv

\* One amendment is written, an end of it with its payments resolved.
LEMMA RecordSetStep ==
    ASSUME AmendmentsInv, NEW a \in Amendments, NEW r \in AmendmentRecords,
           UNCHANGED <<amendmentRows, amendmentProvider, amendmentCalls, amendmentSnapshots>>,
           amendedBooking' \in [total : Nat, version : 0..MaxBookingVersion],
           amendments' = [amendments EXCEPT ![a] = r],
           r.before = amendments[a].before, r.delta = amendments[a].delta,
           \/ r.status = amendments[a].status
           \/ /\ amendments[a].status = "PREPARED" /\ r.status # "NONE"
              /\ Unresolved(Linked(a, {})) = {}
    PROVE  AmendmentsInv'
  <1>1. /\ AmendmentsTypeOK /\ RowsTyped /\ RecordsFit
        /\ amendments \in [Amendments -> AmendmentRecords]
    BY TypedRows DEF AmendmentsInv, AmendmentsTypeOK, AmendmentRecords
  <1>2. /\ amendments' \in [Amendments -> AmendmentRecords]
        /\ amendments'[a] = r /\ \A b \in Amendments \ {a} : amendments'[b] = amendments[b]
    BY <1>1
  <1>3. AmendmentsTypeOK'
    <2>1. UNCHANGED RowIds
      BY DEF RowIds
    <2>2. QED  BY <1>1, <1>2, <2>1 DEF AmendmentsTypeOK, AmendmentRecords
  <1>4. \A b \in Amendments :
           /\ amendments'[b].status = "PREPARED" => amendments[b].status = "PREPARED"
           /\ amendments'[b].status = "NONE" => amendments[b].status = "NONE"
           /\ amendments'[b].before = amendments[b].before
           /\ amendments'[b].delta = amendments[b].delta
    BY <1>2
  <1>5. \A b : Linked(b, {})' = Linked(b, {})
    BY DEF Linked, RowIds
  <1>6. RecordsFit'
    BY <1>1, <1>4, <1>5 DEF RecordsFit
  <1>7. \A b \in Amendments :
           amendments[b].status = "PREPARED" /\ amendments'[b].status # "PREPARED" =>
              Unresolved(Linked(b, {})) = {}
    BY <1>2
  <1>8. QED  BY <1>3, <1>4, <1>6, <1>7, RecordsStep

LEMMA NoActivity ==
    ASSUME NEW a, ~PaymentActivity(a)
    PROVE  Unresolved(Linked(a, {})) = {} /\ \A kind : TakenOf(a, kind) = {}
  BY DEF PaymentActivity, Unresolved, TakenOf

LEMMA PrepareStep ==
    ASSUME AmendmentsInv, NEW a \in Amendments, NEW d \in Deltas, NEW h \in {"NONE", "ACTIVE"},
           PrepareAmendment(a, d, h)
    PROVE  AmendmentsInv'
  <1> DEFINE new == [status |-> "PREPARED", before |-> amendedBooking.total, delta |-> d,
                     version |-> amendedBooking.version, due |-> FALSE, hold |-> h]
             next(b) == IF b = a THEN new
                        ELSE IF amendments[b].status = "PREPARED" THEN Ended(amendments[b], "EXPIRED")
                        ELSE amendments[b]
  <1>1. /\ AmendmentsTypeOK /\ RowsTyped /\ RecordsFit
        /\ amendments \in [Amendments -> AmendmentRecords]
        /\ amendedBooking \in [total : Nat, version : 0..MaxBookingVersion]
    BY TypedRows DEF AmendmentsInv, AmendmentsTypeOK, AmendmentRecords
  <1>2. new \in AmendmentRecords
    BY <1>1 DEF AmendmentRecords, AmendmentStatus
  <1>3. amendments' = [b \in Amendments |-> next(b)]
    BY DEF PrepareAmendment
  <1>4. \A b \in Amendments \ {a} :
           /\ next(b) \in AmendmentRecords /\ next(b).status # "PREPARED"
           /\ next(b).status = "NONE" <=> amendments[b].status = "NONE"
           /\ next(b).delta = amendments[b].delta
    <2>1. SUFFICES ASSUME NEW b \in Amendments \ {a}
                   PROVE  /\ next(b) \in AmendmentRecords /\ next(b).status # "PREPARED"
                          /\ next(b).status = "NONE" <=> amendments[b].status = "NONE"
                          /\ next(b).delta = amendments[b].delta
      OBVIOUS
    <2>2. amendments[b] \in AmendmentRecords /\ "EXPIRED" \in AmendmentStatus
      BY <1>1 DEF AmendmentStatus
    <2>3. /\ Ended(amendments[b], "EXPIRED") \in AmendmentRecords
          /\ Ended(amendments[b], "EXPIRED").status = "EXPIRED"
          /\ Ended(amendments[b], "EXPIRED").delta = amendments[b].delta
      BY <2>2, EndedIs
    <2>4. QED  BY <2>2, <2>3
  <1>5. /\ new.status = "PREPARED" /\ new.before = amendedBooking.total /\ new.delta = d
        /\ amendedBooking.total + d >= 0 /\ amendments[a].status = "NONE"
    BY DEF PrepareAmendment
  <1> HIDE DEF new, next
  <1>6. next(a) = new
    BY DEF next
  <1>7. amendments' \in [Amendments -> AmendmentRecords]
    BY <1>2, <1>3, <1>4, <1>6
  <1>8. AmendmentsTypeOK'
    <2>1. UNCHANGED RowIds
      BY DEF RowIds, PrepareAmendment
    <2>2. QED  BY <1>1, <1>7, <2>1 DEF AmendmentsTypeOK, AmendmentRecords, PrepareAmendment
  <1>9. \A b : Linked(b, {})' = Linked(b, {})
    BY DEF Linked, RowIds, PrepareAmendment
  <1>10. RecordsFit'
    BY <1>1, <1>3, <1>4, <1>5, <1>6, <1>9 DEF RecordsFit
  <1>11. ASSUME NEW b \in Amendments
         PROVE  /\ amendments[b].status # "NONE" => amendments'[b].delta = amendments[b].delta
                /\ amendments[b].status = "PREPARED" => Unresolved(Linked(b, {})) = {}
    <2>1. amendments[b].status = "PREPARED" => ~PaymentActivity(b)
      BY DEF PrepareAmendment
    <2>2. QED  BY <1>3, <1>4, <1>5, <1>6, <2>1, NoActivity
  <1>12. QED
    BY <1>8, <1>10, <1>11, RecordsStep DEF PrepareAmendment

LEMMA AmendmentStep ==
    ASSUME AmendmentsInv, NEW a \in Amendments,
           \/ CancelAmendment(a)
           \/ ExpireAmendment(a)
           \/ EndAmendmentHold(a)
           \/ ApplyAmendment(a)
           \/ RouteToRecovery(a)
           \/ FinalizeRecovery(a)
    PROVE  AmendmentsInv'
  <1> DEFINE r == amendments[a]
  <1>1. /\ AmendmentsTypeOK /\ RecordsFit /\ r \in AmendmentRecords
        /\ amendments \in [Amendments -> AmendmentRecords]
        /\ r.delta \in Int /\ r.before \in Nat
        /\ amendedBooking \in [total : Nat, version : 0..MaxBookingVersion]
    BY DeltaInt DEF AmendmentsInv, AmendmentsTypeOK, AmendmentRecords
  <1>2. \A status \in {"APPLIED", "CANCELLED", "EXPIRED"} :
           /\ Ended(r, status) \in AmendmentRecords /\ Ended(r, status).status = status
           /\ Ended(r, status).before = r.before /\ Ended(r, status).delta = r.delta
    <2> SUFFICES ASSUME NEW status \in {"APPLIED", "CANCELLED", "EXPIRED"}
                 PROVE  /\ Ended(r, status) \in AmendmentRecords /\ Ended(r, status).status = status
                        /\ Ended(r, status).before = r.before /\ Ended(r, status).delta = r.delta
      OBVIOUS
    <2>1. status \in AmendmentStatus
      BY DEF AmendmentStatus
    <2> HIDE DEF r
    <2>2. QED  BY <1>1, <2>1, EndedIs
  <1>3. ASSUME NEW status \in {"APPLIED", "CANCELLED", "EXPIRED"},
               amendments' = [amendments EXCEPT ![a] = Ended(r, status)],
               amendments[a].status = "PREPARED", Unresolved(Linked(a, {})) = {},
               UNCHANGED <<amendmentRows, amendmentProvider, amendmentCalls, amendmentSnapshots>>,
               amendedBooking' \in [total : Nat, version : 0..MaxBookingVersion]
        PROVE  AmendmentsInv'
    BY <1>2, <1>3, RecordSetStep
  <1>4. CASE CancelAmendment(a)
    <2>1. amendments' = [amendments EXCEPT ![a] = Ended(r, IF r.due THEN "EXPIRED" ELSE "CANCELLED")]
      BY <1>1, <1>4 DEF CancelAmendment
    <2>2. Unresolved(Linked(a, {})) = {}
      BY <1>4, NoActivity DEF CancelAmendment
    <2>3. PICK status \in {"CANCELLED", "EXPIRED"} : amendments' = [amendments EXCEPT ![a] = Ended(r, status)]
      BY <2>1
    <2>4. QED  BY <1>1, <1>3, <1>4, <2>2, <2>3 DEF CancelAmendment
  <1>5. CASE ExpireAmendment(a)
    <2> DEFINE x == [r EXCEPT !.due = TRUE]
    <2>1. x \in AmendmentRecords /\ x.status = r.status /\ x.before = r.before /\ x.delta = r.delta
      BY <1>1 DEF AmendmentRecords
    <2>2. amendments' = [amendments EXCEPT ![a] = x]
      BY <1>1, <1>5 DEF ExpireAmendment
    <2> HIDE DEF x
    <2>3. QED  BY <1>1, <1>5, <2>1, <2>2, RecordSetStep DEF ExpireAmendment
  <1>6. CASE EndAmendmentHold(a)
    <2>1. /\ LetGo(r) \in AmendmentRecords /\ LetGo(r).status = r.status
          /\ LetGo(r).before = r.before /\ LetGo(r).delta = r.delta
      BY <1>1, EndedIs DEF AmendmentStatus
    <2>2. amendments' = [amendments EXCEPT ![a] = LetGo(r)]
      BY <1>1, <1>6 DEF EndAmendmentHold
    <2>3. QED  BY <1>1, <1>6, <2>1, <2>2, RecordSetStep DEF EndAmendmentHold
  <1>7. CASE RouteToRecovery(a)
    <2> DEFINE x == [LetGo(r) EXCEPT !.due = TRUE]
    <2>1. x \in AmendmentRecords /\ x.status = r.status /\ x.before = r.before /\ x.delta = r.delta
      BY <1>1, EndedIs DEF AmendmentStatus
    <2>2. amendments' = [amendments EXCEPT ![a] = x]
      BY <1>1, <1>7 DEF RouteToRecovery
    <2> HIDE DEF x
    <2>3. QED  BY <1>1, <1>7, <2>1, <2>2, RecordSetStep DEF RouteToRecovery
  <1>8. CASE ApplyAmendment(a)
    <2>1. After(a) \in Nat
      BY <1>1, <1>8 DEF ApplyAmendment, BookingUnchanged, BookingMatches, RecordsFit, After
    <2>2. amendedBooking.version + 1 \in 0..MaxBookingVersion
      BY <1>1, <1>8, AmendmentsAssumption DEF ApplyAmendment, AmendmentsAssumption
    <2>3. amendedBooking' \in [total : Nat, version : 0..MaxBookingVersion]
      BY <1>8, <2>1, <2>2 DEF ApplyAmendment
    <2>4. /\ amendments' = [amendments EXCEPT ![a] = Ended(r, "APPLIED")]
          /\ amendments[a].status = "PREPARED" /\ Unresolved(Linked(a, {})) = {}
      BY <1>1, <1>8 DEF ApplyAmendment, BookingUnchanged, BookingMatches, ReadyToApply
    <2>5. QED  BY <1>3, <1>8, <2>3, <2>4 DEF ApplyAmendment
  <1>9. CASE FinalizeRecovery(a)
    <2>1. /\ amendments' = [amendments EXCEPT ![a] = Ended(r, "EXPIRED")]
          /\ amendments[a].status = "PREPARED" /\ Unresolved(Linked(a, {})) = {}
      BY <1>1, <1>9
         DEF FinalizeRecovery, ReadyToExpire, RecoveryAgrees, BookingUnchanged, BookingMatches
    <2>2. QED  BY <1>1, <1>3, <1>9, <2>1 DEF FinalizeRecovery
  <1>10. QED  BY <1>4, <1>5, <1>6, <1>7, <1>8, <1>9

LEMMA ChangeBookingStep ==
    ASSUME AmendmentsInv, ChangeAmendedBooking
    PROVE  AmendmentsInv'
  <1>1. /\ AmendmentsTypeOK /\ RecordsFit
        /\ amendedBooking \in [total : Nat, version : 0..MaxBookingVersion]
    BY DEF AmendmentsInv, AmendmentsTypeOK
  <1>2. amendedBooking.version + 1 \in 0..MaxBookingVersion
    BY <1>1, AmendmentsAssumption DEF ChangeAmendedBooking, AmendmentsAssumption
  <1>3. amendedBooking' \in [total : Nat, version : 0..MaxBookingVersion]
    BY <1>1, <1>2 DEF ChangeAmendedBooking
  <1>4. AmendmentsTypeOK'
    BY <1>1, <1>3 DEF AmendmentsTypeOK, RowIds, ChangeAmendedBooking
  <1>5. RecordsFit'
    BY <1>1 DEF RecordsFit, Linked, RowIds, ChangeAmendedBooking
  <1>6. QED  BY <1>4, <1>5, RecordsStep DEF ChangeAmendedBooking

----------------------------------------------------------------------------
\* Steps of the rows.

\* The sums after a step, of the sets C, R and P that its rows make.
LEMMA SumsFitFrom ==
    ASSUME NEW a \in Amendments, UNCHANGED amendments, NEW C, NEW R, NEW P,
           C = TakenOf(a, "CAPTURE")', R = TakenOf(a, "REFUND")',
           P = Settled(Linked(a, {}), "CAPTURE")',
           IF IsCharge(a)
             THEN RowSum(C)' <= amendments[a].delta /\ RowSum(R)' <= RowSum(P)'
             ELSE RowSum(C)' <= -amendments[a].delta /\ RowSum(R)' <= -amendments[a].delta
    PROVE  SumsFit(a)'
  BY DEF SumsFit, RowSum, IsCharge

LEMMA ClaimStep ==
    ASSUME AmendmentsInv, NEW a \in Amendments, NEW purpose \in {"adjust", "recover"},
           NEW source \in RowIds \cup {0}, NEW amount \in Nat \ {0}, MayClaim,
           Claim(a, purpose, source, amount), amendments[a].status = "PREPARED",
           IF source = 0
             THEN RowSum(TakenOf(a, "CAPTURE")) + amount
                    <= IF IsCharge(a) THEN amendments[a].delta ELSE -amendments[a].delta
             ELSE RowSum(TakenOf(a, "REFUND")) + amount
                    <= IF IsCharge(a) THEN RowSum(Settled(Linked(a, {}), "CAPTURE"))
                                      ELSE -amendments[a].delta
    PROVE  AmendmentsInv'
  <1>1. /\ AmendmentsTypeOK /\ RowsTyped /\ RecordsFit
        /\ \A b \in Amendments : SumsFit(b)
        /\ UNCHANGED <<amendments, amendmentSnapshots>>
    BY TypedRows DEF AmendmentsInv, Claim
  <1>2. PICK x : x = Len(amendmentRows) + 1
    OBVIOUS
  <1> DEFINE row == amendmentRows'[x]
  <1>2a. Claimed(x, a, purpose, source, amount)
    BY <1>1, <1>2, ClaimIs
  <1>2b. /\ x \notin RowIds /\ RowIds' = RowIds \cup {x}
         /\ row.amendment = a /\ row.kind = Kind(source) /\ row.amount = amount
         /\ row.status = "AMBIGUOUS" /\ row.bound = FALSE
         /\ amendmentProvider'[x].first = "none" /\ amendmentProvider'[x].now = "none"
         /\ \A i \in RowIds : /\ amendmentRows'[i] = amendmentRows[i]
                              /\ amendmentProvider'[i] = amendmentProvider[i]
         /\ amendmentCalls' = amendmentCalls \cup {[row |-> x, answer |-> "none"]}
         /\ AmendmentsTypeOK'
    BY <1>2a DEF Claimed
  <1>3. a # NoAmendment
    BY AmendmentsAssumption DEF AmendmentsAssumption
  <1>4. ASSUME NEW i \in RowIds' PROVE RowAgrees(i)'
    <2>1. CASE i \in RowIds
      <3>1. RowAgrees(i) /\ amendmentRows'[i] = amendmentRows[i] /\ amendmentProvider'[i] = amendmentProvider[i]
        BY <1>2b, <2>1, InvFacts
      <3>2. QED  BY <1>1, <3>1 DEF RowAgrees
    <2>2. CASE i = x
      <3>1. Kind(source) \in {"CAPTURE", "REFUND"}
        BY DEF Kind
      <3>2. QED  BY <1>1, <1>2b, <1>3, <2>2, <3>1 DEF RowAgrees
    <2>3. QED  BY <1>2b, <2>1, <2>2
  <1>5. ASSUME NEW c \in amendmentCalls' PROVE CallAgrees(c)'
    <2>1. CASE c \in amendmentCalls
      <3>1. CallAgrees(c) /\ c.row \in RowIds
        BY <1>1, <2>1 DEF AmendmentsInv, AmendmentsTypeOK
      <3>2. QED  BY <1>2b, <3>1 DEF CallAgrees
    <2>2. CASE c = [row |-> x, answer |-> "none"]
      BY <2>2 DEF CallAgrees
    <2>3. QED  BY <1>2b, <2>1, <2>2
  <1>6. /\ \A s, t \in amendmentSnapshots' : s = t
        /\ \A s \in amendmentSnapshots' : SnapshotAgrees(s)'
    <2>1. \A s \in amendmentSnapshots : SnapshotAgrees(s) /\ s.row \in RowIds
      BY <1>1 DEF AmendmentsInv, AmendmentsTypeOK
    <2>2. QED  BY <1>1, <1>2b, <2>1 DEF SnapshotAgrees, AmendmentsInv
  <1>7. /\ \A b : b # a => Linked(b, {})' = Linked(b, {})
        /\ Linked(a, {})' = Linked(a, {}) \cup {x}
    BY <1>2b DEF Linked
  <1>8. RecordsFit'
    BY <1>1, <1>7 DEF RecordsFit
  <1>9. ASSUME NEW b \in Amendments PROVE SumsFit(b)'
    <2>1. PICK C, R, P : /\ C = TakenOf(b, "CAPTURE") /\ R = TakenOf(b, "REFUND")
                         /\ P = Settled(Linked(b, {}), "CAPTURE")
      OBVIOUS
    <2>2. C \in SUBSET RowIds /\ R \in SUBSET RowIds /\ P \in SUBSET RowIds
      BY <2>1 DEF TakenOf, Settled, Linked
    <2>3. RowSum(C)' = RowSum(C) /\ RowSum(R)' = RowSum(R) /\ RowSum(P)' = RowSum(P)
      BY <1>1, <1>2b, <2>2, RowSumKept
    <2>4. P = Settled(Linked(b, {}), "CAPTURE")'
      BY <1>2b, <1>7, <2>1 DEF Settled, Linked
    <2>5. SumsFit(b)
      BY <1>1
    <2>6. CASE b # a
      <3>1. C = TakenOf(b, "CAPTURE")' /\ R = TakenOf(b, "REFUND")'
        BY <1>2b, <1>7, <2>1, <2>6 DEF TakenOf, Linked
      <3>2. QED  BY <1>1, <2>1, <2>3, <2>4, <2>5, <3>1, SumsFitFrom DEF SumsFit
    <2>7. CASE b = a /\ source = 0
      <3>0. row.kind = "CAPTURE"
        BY <1>2b, <2>7 DEF Kind
      <3> HIDE DEF row
      <3>1. C \cup {x} = TakenOf(b, "CAPTURE")' /\ R = TakenOf(b, "REFUND")'
        <4>1. C \cup {x} = TakenOf(b, "CAPTURE")'
          BY <1>2b, <1>7, <2>1, <2>7, <3>0 DEF TakenOf, Linked, row
        <4>2. R = TakenOf(b, "REFUND")'
          BY <1>2b, <1>7, <2>1, <2>7, <3>0 DEF TakenOf, Linked, row
        <4>3. QED  BY <4>1, <4>2
      <3>2. RowSum(C \cup {x})' = RowSum(C) + amount
        BY <1>1, <1>2b, <2>2, RowSumAppend DEF row
      <3>3. IF IsCharge(b)
              THEN RowSum(C \cup {x})' <= amendments[b].delta /\ RowSum(R)' <= RowSum(P)'
              ELSE RowSum(C \cup {x})' <= -amendments[b].delta /\ RowSum(R)' <= -amendments[b].delta
        BY <2>1, <2>3, <2>5, <2>7, <3>2 DEF SumsFit
      <3>4. QED  BY <1>1, <2>4, <3>1, <3>3, SumsFitFrom
    <2>8. CASE b = a /\ source # 0
      <3>1. C = TakenOf(b, "CAPTURE")' /\ R \cup {x} = TakenOf(b, "REFUND")'
        BY <1>2b, <1>7, <2>1, <2>8 DEF TakenOf, Linked, Kind
      <3>2. RowSum(R \cup {x})' = RowSum(R) + amount
        BY <1>1, <1>2b, <2>2, RowSumAppend
      <3>3. IF IsCharge(b)
              THEN RowSum(C)' <= amendments[b].delta /\ RowSum(R \cup {x})' <= RowSum(P)'
              ELSE RowSum(C)' <= -amendments[b].delta /\ RowSum(R \cup {x})' <= -amendments[b].delta
        BY <2>1, <2>3, <2>5, <2>8, <3>2 DEF SumsFit
      <3>4. QED  BY <1>1, <2>4, <3>1, <3>3, SumsFitFrom
    <2>9. QED  BY <2>6, <2>7, <2>8
  <1>10. QED  BY <1>2b, <1>4, <1>5, <1>6, <1>8, <1>9 DEF AmendmentsInv

LEMMA ClaimsStep ==
    ASSUME AmendmentsInv, NEW a \in Amendments,
           \/ ClaimCharge(a)
           \/ ClaimRecoverySession(a)
           \/ \E s \in RowIds : ClaimAdjustmentRefund(a, s) \/ ClaimRecoveryRefund(a, s)
    PROVE  AmendmentsInv'
  <1>1. AmendmentsTypeOK /\ RowsTyped /\ SumsFit(a) /\ 0 \notin RowIds
    BY TypedRows DEF AmendmentsInv, RowsTyped
  <1>2. ASSUME NEW source \in RowIds \cup {0}, ClaimAdjustment(a, source)
        PROVE  AmendmentsInv'
    BY <1>1, <1>2, ExecutionFits, ClaimStep DEF ClaimAdjustment
  <1>3. CASE ClaimCharge(a)
    BY <1>2, <1>3 DEF ClaimCharge
  <1>4. CASE ClaimRecoverySession(a)
    <2>1. MayClaim /\ ~IsCharge(a) /\ Compensates(a, 0, {}) /\ Claim(a, "recover", 0, CompensationAmount(a, 0, {}))
      BY <1>4 DEF ClaimRecoverySession
    <2>2. /\ CompensationAmount(a, 0, {}) \in Nat \ {0} /\ amendments[a].status = "PREPARED"
          /\ RowSum(TakenOf(a, "CAPTURE")) + CompensationAmount(a, 0, {}) = RowSum(TakenOf(a, "REFUND"))
      BY <1>1, <2>1, CompensationFits
    <2>3. RowSum(TakenOf(a, "CAPTURE")) + CompensationAmount(a, 0, {}) <= -amendments[a].delta
      BY <1>1, <2>1, <2>2 DEF SumsFit
    <2>4. QED  BY <2>1, <2>2, <2>3, ClaimStep
  <1>5. ASSUME NEW s \in RowIds, ClaimAdjustmentRefund(a, s) \/ ClaimRecoveryRefund(a, s)
        PROVE  AmendmentsInv'
    <2>1. CASE ClaimAdjustmentRefund(a, s)
      BY <1>2, <2>1 DEF ClaimAdjustmentRefund
    <2>2. CASE ClaimRecoveryRefund(a, s)
      BY <1>1, <2>2, CompensationFits, ClaimStep DEF ClaimRecoveryRefund
    <2>3. QED  BY <1>5, <2>1, <2>2
  <1>6. QED  BY <1>3, <1>4, <1>5

\* The status and the binding of one row are written: it fails for good, a settled capture stays
\* settled.
LEMMA RowStep ==
    ASSUME AmendmentsInv, NEW i \in RowIds, NEW status \in {"AMBIGUOUS", "SUCCEEDED", "FAILED"},
           NEW bound \in BOOLEAN, Update(i, status, bound),
           UNCHANGED <<amendedBooking, amendments, amendmentProvider>>,
           amendmentCalls' \subseteq amendmentCalls,
           amendmentSnapshots' \subseteq amendmentSnapshots,
           amendmentRows[i].status = "FAILED" => status = "FAILED",
           amendmentRows[i].kind = "CAPTURE" /\ amendmentRows[i].status = "SUCCEEDED" =>
              status = "SUCCEEDED",
           RowSet(i, status, bound) => RowAgrees(i)',
           RowSet(i, status, bound) =>
              \A s \in amendmentSnapshots' : s.row = i => SnapshotAgrees(s)'
    PROVE  AmendmentsInv'
  <1>1. /\ AmendmentsTypeOK /\ RowsTyped /\ RecordsFit
        /\ \A b \in Amendments : SumsFit(b)
    BY TypedRows DEF AmendmentsInv
  <1>2. RowSet(i, status, bound) /\ RowIds' = RowIds
    BY <1>1, UpdateIs
  <1>3. AmendmentsTypeOK'
    <2>1. amendmentRows' \in Seq(PaymentRows) /\ Len(amendmentRows') = Len(amendmentRows)
      BY <1>2 DEF RowSet
    <2>2. QED  BY <1>1, <1>2, <2>1 DEF AmendmentsTypeOK, PaymentRows
  <1>4. /\ amendmentRows'[i].status = status /\ amendmentRows'[i].kind = amendmentRows[i].kind
        /\ amendmentRows'[i].amendment = amendmentRows[i].amendment
        /\ amendmentRows'[i].amount = amendmentRows[i].amount
        /\ \A j \in RowIds \ {i} : amendmentRows'[j] = amendmentRows[j]
    BY <1>2 DEF RowSet
  <1>5. ASSUME NEW j \in RowIds' PROVE RowAgrees(j)'
    <2>1. CASE j = i
      BY <1>2, <2>1
    <2>2. CASE j # i
      <3>1. RowAgrees(j) /\ amendmentRows'[j] = amendmentRows[j]
        BY <1>2, <1>4, <2>2, InvFacts
      <3>2. QED  BY <3>1 DEF RowAgrees
    <2>3. QED  BY <2>1, <2>2
  <1>6. ASSUME NEW c \in amendmentCalls' PROVE CallAgrees(c)'
    <2>1. CallAgrees(c)
      BY DEF AmendmentsInv
    <2>2. QED  BY <2>1 DEF CallAgrees
  <1>7. ASSUME NEW s \in amendmentSnapshots' PROVE SnapshotAgrees(s)'
    <2>1. s.row \in RowIds /\ SnapshotAgrees(s)
      BY <1>1 DEF AmendmentsInv, AmendmentsTypeOK
    <2>2. CASE s.row = i
      BY <1>2, <2>2
    <2>3. CASE s.row # i
      <3>1. amendmentRows'[s.row] = amendmentRows[s.row]
        BY <1>4, <2>1, <2>3
      <3>2. QED  BY <2>1, <3>1 DEF SnapshotAgrees
    <2>4. QED  BY <2>2, <2>3
  <1>8. \A s, t \in amendmentSnapshots' : s = t
    BY DEF AmendmentsInv
  <1>9. \A b : Linked(b, {})' = Linked(b, {})
    BY <1>2, <1>4 DEF Linked
  <1>10. RecordsFit'
    BY <1>1, <1>9 DEF RecordsFit
  <1>11. ASSUME NEW b \in Amendments PROVE SumsFit(b)'
    <2>1. PICK C, R, P : /\ C = TakenOf(b, "CAPTURE") /\ R = TakenOf(b, "REFUND")
                         /\ P = Settled(Linked(b, {}), "CAPTURE")
      OBVIOUS
    <2>2. PICK C1, R1, P1 : /\ C1 = TakenOf(b, "CAPTURE")' /\ R1 = TakenOf(b, "REFUND")'
                            /\ P1 = Settled(Linked(b, {}), "CAPTURE")'
      OBVIOUS
    <2>3. C \in SUBSET RowIds /\ R \in SUBSET RowIds /\ P \in SUBSET RowIds
      BY <2>1 DEF TakenOf, Settled, Linked
    <2>4. C1 \in SUBSET C /\ R1 \in SUBSET R
      <3>1. \A j \in RowIds : /\ amendmentRows'[j].kind = amendmentRows[j].kind
                              /\ amendmentRows[j].status = "FAILED" => amendmentRows'[j].status = "FAILED"
        BY <1>4
      <3>2. Linked(b, {}) \subseteq RowIds
        BY DEF Linked
      <3>3. \A kind : TakenOf(b, kind)' =
               {j \in Linked(b, {}) : amendmentRows'[j].kind = kind /\ amendmentRows'[j].status # "FAILED"}
        BY <1>9 DEF TakenOf
      <3>4. QED  BY <2>1, <2>2, <3>1, <3>2, <3>3 DEF TakenOf
    <2>5. P \in SUBSET P1 /\ P1 \in SUBSET RowIds'
      BY <1>2, <1>4, <1>9, <2>1, <2>2 DEF Settled, Linked
    <2>6. \A S \in SUBSET RowIds : RowSum(S)' = RowSum(S)
      BY <1>1, <1>2, <1>4, RowSumKept
    <2>7. /\ RowSum(C1)' = RowSum(C1) /\ RowSum(R1)' = RowSum(R1) /\ RowSum(P)' = RowSum(P)
          /\ RowSum(C1) \in Nat /\ RowSum(R1) \in Nat /\ RowSum(P) \in Nat
          /\ RowSum(C) \in Nat /\ RowSum(R) \in Nat
          /\ RowSum(C1) <= RowSum(C) /\ RowSum(R1) <= RowSum(R)
      BY <1>1, <2>3, <2>4, <2>6, RowSumNat
    <2>8. RowSum(P)' <= RowSum(P1)' /\ RowSum(P1)' \in Nat
      BY <1>3, <2>5, RowSumNatNext
    <2>9. amendments[b].delta \in Int
      BY <1>1, DeltaInt
    <2>10. IF IsCharge(b)
             THEN RowSum(C) <= amendments[b].delta /\ RowSum(R) <= RowSum(P)
             ELSE RowSum(C) <= -amendments[b].delta /\ RowSum(R) <= -amendments[b].delta
      BY <1>1, <2>1 DEF SumsFit
    <2>11. IF IsCharge(b)
             THEN RowSum(C1)' <= amendments[b].delta /\ RowSum(R1)' <= RowSum(P1)'
             ELSE RowSum(C1)' <= -amendments[b].delta /\ RowSum(R1)' <= -amendments[b].delta
      BY <2>7, <2>8, <2>9, <2>10
    <2>12. QED  BY <2>2, <2>11, SumsFitFrom
  <1>12. QED  BY <1>3, <1>5, <1>6, <1>7, <1>8, <1>10, <1>11 DEF AmendmentsInv

\* Only calls, states retrieved and the provider's objects move.
LEMMA ProviderStep ==
    ASSUME AmendmentsInv, UNCHANGED <<amendedBooking, amendments, amendmentRows>>,
           amendmentProvider' \in [RowIds -> ProviderObjects],
           amendmentCalls' \subseteq [row : RowIds, answer : ProviderStates],
           amendmentSnapshots' \subseteq [row : RowIds, now : ProviderStates],
           \A i \in RowIds : amendmentProvider'[i] # amendmentProvider[i] => RowAgrees(i)',
           \A c \in amendmentCalls' : CallAgrees(c)',
           \A s, t \in amendmentSnapshots' : s = t,
           \A s \in amendmentSnapshots' : SnapshotAgrees(s)'
    PROVE  AmendmentsInv'
  <1>1. AmendmentsTypeOK /\ RecordsFit /\ \A b \in Amendments : SumsFit(b)
    BY DEF AmendmentsInv
  <1>2. RecordsFit' /\ \A b \in Amendments : SumsFit(b)'
    BY <1>1, SumsKept
  <1>3. UNCHANGED RowIds
    BY DEF RowIds
  <1>4. AmendmentsTypeOK'
    BY <1>1, <1>3 DEF AmendmentsTypeOK, ProviderObjects
  <1>5. ASSUME NEW i \in RowIds PROVE RowAgrees(i)'
    <2>1. CASE amendmentProvider'[i] = amendmentProvider[i]
      BY <2>1, InvFacts DEF RowAgrees
    <2>2. CASE amendmentProvider'[i] # amendmentProvider[i]
      BY <2>2
    <2>3. QED  BY <2>1, <2>2
  <1>6. QED  BY <1>2, <1>3, <1>4, <1>5 DEF AmendmentsInv

LEMMA CallSteps ==
    ASSUME AmendmentsInv,
           \/ \E i \in RowIds : RepeatAdjustment(i) \/ RepeatRecovery(i) \/ RetrieveState(i)
           \/ \E i \in RowIds, state \in ProviderChanges : ProviderState(i, state)
           \/ \E c \in amendmentCalls :
                \/ \E state \in ProviderStates : ProviderAnswers(c, state)
                \/ LoseAnswer(c)
           \/ \E s \in amendmentSnapshots : DropState(s)
    PROVE  AmendmentsInv'
  <1>1. /\ AmendmentsTypeOK /\ amendmentProvider \in [RowIds -> ProviderObjects]
        /\ amendmentCalls \subseteq [row : RowIds, answer : ProviderStates]
        /\ amendmentSnapshots \subseteq [row : RowIds, now : ProviderStates]
        /\ \A c \in amendmentCalls : CallAgrees(c)
        /\ \A s, t \in amendmentSnapshots : s = t
        /\ \A s \in amendmentSnapshots : SnapshotAgrees(s)
    BY DEF AmendmentsInv, AmendmentsTypeOK, ProviderObjects
  <1>2. ASSUME NEW i \in RowIds, RepeatAdjustment(i) \/ RepeatRecovery(i) PROVE AmendmentsInv'
    <2>1. Repeat(i)
      BY <1>2 DEF RepeatAdjustment, RepeatRecovery
    <2> DEFINE call == [row |-> i, answer |-> "none"]
    <2>2. call \in [row : RowIds, answer : ProviderStates] /\ CallAgrees(call)
      BY DEF CallAgrees, ProviderStates
    <2> HIDE DEF call
    <2>3. amendmentCalls' = amendmentCalls \cup {call}
      BY <2>1 DEF Repeat, call
    <2>4. UNCHANGED <<amendedBooking, amendments, amendmentRows, amendmentProvider, amendmentSnapshots>>
      BY <2>1 DEF Repeat
    <2>5. \A c \in amendmentCalls' : CallAgrees(c)'
      BY <1>1, <2>2, <2>3, <2>4 DEF CallAgrees
    <2>6. \A s \in amendmentSnapshots' : SnapshotAgrees(s)'
      BY <1>1, <2>4 DEF SnapshotAgrees
    <2>7. QED  BY <1>1, <2>2, <2>3, <2>4, <2>5, <2>6, ProviderStep
  <1>3. ASSUME NEW i \in RowIds, RetrieveState(i) PROVE AmendmentsInv'
    <2>0. PICK s : s = [row |-> i, now |-> amendmentProvider[i].now]
      OBVIOUS
    <2>1. /\ RowAgrees(i) /\ amendmentRows[i] \in PaymentRows /\ amendmentProvider[i] \in ProviderObjects
      BY InvFacts
    <2>2. s \in [row : RowIds, now : ProviderStates] /\ s.row = i /\ s.now = amendmentProvider[i].now
      BY <2>0, <2>1 DEF ProviderObjects
    <2>3. /\ amendmentSnapshots' = {s} /\ amendmentRows[i].bound
          /\ UNCHANGED <<amendedBooking, amendments, amendmentRows, amendmentProvider, amendmentCalls>>
      BY <1>3, <2>0 DEF RetrieveState
    <2>4. SnapshotAgrees(s)
      BY <2>1, <2>2, <2>3 DEF SnapshotAgrees, RowAgrees, PaymentRows, ProviderObjects, ProviderStates
    <2>5. SnapshotAgrees(s)'
      BY <2>3, <2>4 DEF SnapshotAgrees
    <2>6. \A c \in amendmentCalls' : CallAgrees(c)'
      BY <1>1, <2>3 DEF CallAgrees
    <2>7. QED  BY <1>1, <2>2, <2>3, <2>5, <2>6, ProviderStep
  <1>4. ASSUME NEW i \in RowIds, NEW next \in ProviderChanges, ProviderState(i, next)
        PROVE  AmendmentsInv'
    <2> DEFINE p == amendmentProvider[i]
               q == [p EXCEPT !.now = next]
    <2>1. /\ RowAgrees(i) /\ amendmentRows[i] \in PaymentRows /\ p \in ProviderObjects
      BY InvFacts
    <2>2. q \in ProviderObjects /\ q.first = p.first /\ q.now = next
      BY <2>1 DEF ProviderObjects, ProviderChanges, ProviderStates
    <2>3. /\ amendmentProvider' = [amendmentProvider EXCEPT ![i] = q]
          /\ <<p.now, next>> \in
               {<<"open", "expired">>, <<"pending", "succeeded">>, <<"pending", "failed">>,
                <<"succeeded", "failed">>} \cup (IF amendmentRows[i].bound THEN {<<"open", "paid">>} ELSE {})
          /\ UNCHANGED <<amendedBooking, amendments, amendmentRows, amendmentCalls, amendmentSnapshots>>
      BY <1>1, <1>4 DEF ProviderState
    <2>4. \/ p.now = "open" /\ next = "expired"
          \/ p.now = "pending" /\ next = "succeeded"
          \/ p.now = "pending" /\ next = "failed"
          \/ p.now = "succeeded" /\ next = "failed"
          \/ p.now = "open" /\ next = "paid" /\ amendmentRows[i].bound
      BY <2>3
    <2> HIDE DEF q
    <2>5. /\ amendmentProvider' \in [RowIds -> ProviderObjects] /\ amendmentProvider'[i] = q
          /\ \A j \in RowIds \ {i} : amendmentProvider'[j] = amendmentProvider[j]
      BY <1>1, <2>2, <2>3
    <2>6. RowAgrees(i)'
      BY <2>1, <2>2, <2>3, <2>4, <2>5 DEF RowAgrees, PaymentRows
    <2>7. ASSUME NEW c \in amendmentCalls' PROVE CallAgrees(c)'
      <3>1. CallAgrees(c) /\ c.row \in RowIds
        BY <1>1, <2>3
      <3>2. amendmentProvider'[c.row].first = amendmentProvider[c.row].first
        BY <2>2, <2>5, <3>1
      <3>3. QED  BY <3>1, <3>2 DEF CallAgrees
    <2>8. ASSUME NEW s \in amendmentSnapshots' PROVE SnapshotAgrees(s)'
      <3>1. SnapshotAgrees(s) /\ s.row \in RowIds
        BY <1>1, <2>3
      <3>2. CASE s.row = i
        BY <2>1, <2>2, <2>3, <2>4, <2>5, <3>1, <3>2 DEF SnapshotAgrees
      <3>3. CASE s.row # i
        BY <2>3, <2>5, <3>1, <3>3 DEF SnapshotAgrees
      <3>4. QED  BY <3>2, <3>3
    <2>9. QED  BY <1>1, <2>3, <2>5, <2>6, <2>7, <2>8, ProviderStep
  <1>5. ASSUME NEW c \in amendmentCalls, NEW first \in ProviderStates, ProviderAnswers(c, first)
        PROVE  AmendmentsInv'
    <2> DEFINE i == c.row
               p == amendmentProvider[i]
               d == [c EXCEPT !.answer = first]
    <2>1. c \in [row : RowIds, answer : ProviderStates] /\ i \in RowIds
      BY <1>1
    <2>2. /\ RowAgrees(i) /\ amendmentRows[i] \in PaymentRows /\ p \in ProviderObjects
      BY <2>1, InvFacts
    <2>3. d \in [row : RowIds, answer : ProviderStates] /\ d.row = i /\ d.answer = first
      BY <2>1
    <2>4. /\ amendmentCalls' = (amendmentCalls \ {c}) \cup {d}
          /\ UNCHANGED <<amendedBooking, amendments, amendmentRows, amendmentSnapshots>>
          /\ IF p.first = "none"
               THEN /\ first \in IF amendmentRows[i].kind = "CAPTURE"
                                 THEN {"open", "refused"} ELSE {"pending", "succeeded", "refused"}
                    /\ amendmentProvider' = [amendmentProvider EXCEPT ![i] = [first |-> first, now |-> first]]
               ELSE /\ first = IF p.now = "expired" THEN "expired" ELSE p.first
                    /\ UNCHANGED amendmentProvider
      BY <1>5 DEF ProviderAnswers
    <2>5. CASE p.first = "none"
      <3> DEFINE q == [first |-> first, now |-> first]
      <3>1. q \in ProviderObjects /\ q.first = first /\ q.now = first
        BY DEF ProviderObjects
      <3>2. amendmentProvider' = [amendmentProvider EXCEPT ![i] = q] /\ first # "none"
        BY <2>4, <2>5
      <3> HIDE DEF q
      <3>3. /\ amendmentProvider' \in [RowIds -> ProviderObjects] /\ amendmentProvider'[i] = q
            /\ \A j \in RowIds \ {i} : amendmentProvider'[j] = amendmentProvider[j]
        BY <1>1, <2>1, <3>1, <3>2
      <3>4. RowAgrees(i)'
        BY <2>2, <2>4, <2>5, <3>1, <3>3 DEF RowAgrees, PaymentRows
      <3>5. ASSUME NEW x \in amendmentCalls' PROVE CallAgrees(x)'
        <4>1. CASE x = d
          BY <2>3, <3>1, <3>3, <4>1 DEF CallAgrees
        <4>2. CASE x # d
          <5>1. CallAgrees(x) /\ x.row \in RowIds
            BY <1>1, <2>4, <4>2
          <5>2. CASE x.row = i
            BY <2>5, <3>1, <3>2, <3>3, <5>1, <5>2 DEF CallAgrees
          <5>3. CASE x.row # i
            BY <3>3, <5>1, <5>3 DEF CallAgrees
          <5>4. QED  BY <5>2, <5>3
        <4>3. QED  BY <4>1, <4>2
      <3>6. ASSUME NEW s \in amendmentSnapshots' PROVE SnapshotAgrees(s)'
        <4>1. SnapshotAgrees(s) /\ s.row \in RowIds
          BY <1>1, <2>4
        <4>2. s.row # i
          BY <2>2, <2>5, <4>1 DEF SnapshotAgrees, RowAgrees
        <4>3. QED  BY <2>4, <3>3, <4>1, <4>2 DEF SnapshotAgrees
      <3>7. amendmentCalls' \subseteq [row : RowIds, answer : ProviderStates]
        BY <1>1, <2>3, <2>4
      <3>8. QED  BY <1>1, <2>4, <3>3, <3>4, <3>5, <3>6, <3>7, ProviderStep
    <2>6. CASE p.first # "none"
      <3>1. CallAgrees(d)
        BY <2>2, <2>3, <2>4, <2>6 DEF CallAgrees
      <3>2. \A x \in amendmentCalls' : CallAgrees(x)'
        BY <1>1, <2>4, <2>6, <3>1 DEF CallAgrees
      <3>3. \A s \in amendmentSnapshots' : SnapshotAgrees(s)'
        BY <1>1, <2>4, <2>6 DEF SnapshotAgrees
      <3>4. amendmentCalls' \subseteq [row : RowIds, answer : ProviderStates]
        BY <1>1, <2>3, <2>4
      <3>5. QED  BY <1>1, <2>4, <2>6, <3>2, <3>3, <3>4, ProviderStep
    <2>7. QED  BY <2>5, <2>6
  <1>6. ASSUME NEW c \in amendmentCalls, LoseAnswer(c) PROVE AmendmentsInv'
    <2>1. /\ \A x \in amendmentCalls' : CallAgrees(x)'
          /\ \A s \in amendmentSnapshots' : SnapshotAgrees(s)'
      BY <1>1, <1>6 DEF LoseAnswer, CallAgrees, SnapshotAgrees
    <2>2. QED  BY <1>1, <1>6, <2>1, ProviderStep DEF LoseAnswer
  <1>7. ASSUME NEW s \in amendmentSnapshots, DropState(s) PROVE AmendmentsInv'
    <2>1. /\ \A x \in amendmentCalls' : CallAgrees(x)'
          /\ \A t \in amendmentSnapshots' : SnapshotAgrees(t)'
      BY <1>1, <1>7 DEF DropState, CallAgrees, SnapshotAgrees
    <2>2. QED  BY <1>1, <1>7, <2>1, ProviderStep DEF DropState
  <1>8. QED  BY <1>2, <1>3, <1>4, <1>5, <1>6, <1>7

LEMMA AnswerSteps ==
    ASSUME AmendmentsInv, NEW c \in amendmentCalls,
           \/ FailClaim(c)
           \/ BindSession(c)
           \/ PersistAdjustmentRefund(c)
           \/ PersistRecoveryRefund(c)
    PROVE  AmendmentsInv'
  <1> DEFINE i == c.row
             r == amendmentRows[i]
             p == amendmentProvider[i]
  <1>1. /\ c \in [row : RowIds, answer : ProviderStates] /\ i \in RowIds /\ CallAgrees(c)
        /\ \A s \in amendmentSnapshots : SnapshotAgrees(s)
    BY DEF AmendmentsInv, AmendmentsTypeOK
  <1>2. RowAgrees(i) /\ r \in PaymentRows /\ p \in ProviderObjects
    BY <1>1, InvFacts
  <1>3. /\ UNCHANGED <<amendedBooking, amendments, amendmentProvider, amendmentSnapshots>>
        /\ amendmentCalls' = amendmentCalls \ {c}
    BY DEF FailClaim, BindSession, PersistAdjustmentRefund, PersistRecoveryRefund, EndCall
  <1>4. CASE UNCHANGED amendmentRows
    <2>1. /\ \A x \in amendmentCalls' : CallAgrees(x)'
          /\ \A s \in amendmentSnapshots' : SnapshotAgrees(s)'
      BY <1>3, <1>4 DEF CallAgrees, SnapshotAgrees, AmendmentsInv
    <2>2. /\ amendmentProvider' \in [RowIds -> ProviderObjects]
          /\ amendmentCalls' \subseteq [row : RowIds, answer : ProviderStates]
          /\ amendmentSnapshots' \subseteq [row : RowIds, now : ProviderStates]
          /\ \A s, t \in amendmentSnapshots' : s = t
      BY <1>3 DEF AmendmentsInv, AmendmentsTypeOK, ProviderObjects
    <2>3. QED  BY <1>3, <1>4, <2>1, <2>2, ProviderStep
  <1>5. ASSUME NEW status \in {"AMBIGUOUS", "SUCCEEDED", "FAILED"}, NEW bound \in BOOLEAN,
               Update(i, status, bound), r.status = "AMBIGUOUS",
               RowSet(i, status, bound) => RowAgrees(i)',
               RowSet(i, status, bound) =>
                  \A s \in amendmentSnapshots : s.row = i => SnapshotAgrees(s)'
        PROVE  AmendmentsInv'
    BY <1>1, <1>3, <1>5, RowStep
  <1>6. CASE FailClaim(c) /\ IsClaim(r)
    <2>1. /\ Update(i, "FAILED", FALSE) /\ r.status = "AMBIGUOUS" /\ ~r.bound /\ p.first = "refused"
          /\ p.now = "refused"
      BY <1>1, <1>2, <1>6 DEF FailClaim, IsClaim, CallAgrees, RowAgrees
    <2>2. RowSet(i, "FAILED", FALSE) => RowAgrees(i)'
      BY <1>2, <1>3, <2>1 DEF RowSet, RowAgrees
    <2>3. \A s \in amendmentSnapshots : s.row # i
      BY <1>1, <2>1 DEF SnapshotAgrees
    <2>4. QED  BY <1>5, <2>1, <2>2, <2>3
  <1>7. CASE BindSession(c) /\ IsClaim(r) /\ c.answer = "open"
    <2>1. /\ Update(i, "AMBIGUOUS", TRUE) /\ r.status = "AMBIGUOUS" /\ ~r.bound /\ p.first = "open"
      BY <1>1, <1>2, <1>7 DEF BindSession, IsClaim, CallAgrees
    <2>2. RowSet(i, "AMBIGUOUS", TRUE) => RowAgrees(i)'
      BY <1>2, <1>3, <2>1 DEF RowSet, RowAgrees
    <2>3. \A s \in amendmentSnapshots : s.row # i
      BY <1>1, <2>1 DEF SnapshotAgrees
    <2>4. QED  BY <1>5, <2>1, <2>2, <2>3
  <1>8. CASE /\ PersistAdjustmentRefund(c) \/ PersistRecoveryRefund(c)
             /\ ~UNCHANGED amendmentRows
    <2> DEFINE status == RowStatusOf(c.answer)
    <2>1. /\ Update(i, status, TRUE) /\ r.kind = "REFUND" /\ c.answer \in {"pending", "succeeded"}
          /\ r.status = "AMBIGUOUS" \/ ~r.bound
      BY <1>8 DEF PersistAdjustmentRefund, PersistRecoveryRefund
    <2>2. p.first = c.answer
      BY <1>1, <2>1 DEF CallAgrees
    <2>3. /\ status = IF c.answer = "succeeded" THEN "SUCCEEDED" ELSE "AMBIGUOUS"
          /\ status \in {"AMBIGUOUS", "SUCCEEDED", "FAILED"}
      BY <2>1 DEF RowStatusOf
    <2>4. r.status = "AMBIGUOUS"
      BY <1>2, <2>1, <2>2 DEF RowAgrees, PaymentRows
    <2> HIDE DEF status
    <2>5. RowSet(i, status, TRUE) => RowAgrees(i)'
      BY <1>2, <1>3, <2>1, <2>2, <2>3, <2>4 DEF RowSet, RowAgrees
    <2>6. ASSUME RowSet(i, status, TRUE), NEW s \in amendmentSnapshots, s.row = i
          PROVE  SnapshotAgrees(s)'
      BY <1>1, <1>3, <2>1, <2>2, <2>3, <2>4, <2>6 DEF RowSet, SnapshotAgrees
    <2>7. PICK st : st = status
      OBVIOUS
    <2>8. QED  BY <1>5, <2>1, <2>3, <2>4, <2>5, <2>6, <2>7
  <1>9. QED  BY <1>4, <1>6, <1>7, <1>8 DEF FailClaim, BindSession

LEMMA WriteSteps ==
    ASSUME AmendmentsInv, NEW s \in amendmentSnapshots,
           WriteSession(s) \/ WriteAdjustmentRefund(s) \/ WriteRecoverySession(s)
              \/ WriteRecoveryRefund(s)
    PROVE  AmendmentsInv'
  <1> DEFINE i == s.row
             r == amendmentRows[i]
             p == amendmentProvider[i]
  <1>1. /\ s \in [row : RowIds, now : ProviderStates] /\ i \in RowIds /\ SnapshotAgrees(s)
        /\ \A t \in amendmentSnapshots : t = s
    BY DEF AmendmentsInv, AmendmentsTypeOK
  <1>2. RowAgrees(i) /\ r \in PaymentRows /\ p \in ProviderObjects
    BY <1>1, InvFacts
  <1>3. /\ Update(i, RowStatusOf(s.now), TRUE) /\ amendmentSnapshots' = amendmentSnapshots \ {s}
        /\ UNCHANGED <<amendedBooking, amendments, amendmentProvider, amendmentCalls>>
        /\ r.status = "AMBIGUOUS" \/ r.kind = "REFUND"
    BY DEF Write, WriteSession, WriteAdjustmentRefund, WriteRecoverySession, WriteRecoveryRefund,
           FollowedForLife
  <1>4. amendmentSnapshots' = {}
    BY <1>1, <1>3
  <1>5. PICK status : status = RowStatusOf(s.now)
    OBVIOUS
  <1>6. /\ status \in {"AMBIGUOUS", "SUCCEEDED", "FAILED"}
        /\ status = "SUCCEEDED" <=> s.now \in {"paid", "succeeded"}
        /\ status = "FAILED" <=> s.now \in {"expired", "failed", "refused"}
    BY <1>5 DEF RowStatusOf
  <1>7. r.status = "FAILED" => status = "FAILED"
    BY <1>1, <1>6 DEF SnapshotAgrees
  <1>8. RowSet(i, status, TRUE) => RowAgrees(i)'
    BY <1>1, <1>2, <1>3, <1>6 DEF RowSet, RowAgrees, SnapshotAgrees, PaymentRows
  <1>9. r.kind = "CAPTURE" /\ r.status = "SUCCEEDED" => status = "SUCCEEDED"
    BY <1>3
  <1>10. QED  BY <1>1, <1>3, <1>4, <1>5, <1>6, <1>7, <1>8, <1>9, RowStep

----------------------------------------------------------------------------
\* The invariant and the theorems.

LEMMA AmendmentsStart == AmendmentsInit => AmendmentsInv
  <1> SUFFICES ASSUME AmendmentsInit PROVE AmendmentsInv
    OBVIOUS
  <1>1. BookedCaptures \in Seq(Nat \ {0}) /\ MaxAmendmentRows \in Nat /\ MaxBookingVersion \in Nat
    BY AmendmentsAssumption DEF AmendmentsAssumption
  <1> DEFINE n == Len(BookedCaptures)
  <1>2. n \in Nat /\ DOMAIN BookedCaptures = 1..n /\ \A i \in 1..n : BookedCaptures[i] \in Nat \ {0}
    BY <1>1
  <1>3. \A i \in 1..n : BookedRow(BookedCaptures[i]) \in PaymentRows
    BY <1>2 DEF BookedRow, PaymentRows
  <1>4. amendmentRows = [i \in 1..n |-> BookedRow(BookedCaptures[i])]
    BY <1>2 DEF AmendmentsInit
  <1>5. amendmentRows \in [1..n -> PaymentRows] /\ RowIds = 1..n
    BY <1>3, <1>4 DEF RowIds
  <1>6. amendmentRows \in Seq(PaymentRows) /\ Len(amendmentRows) = n
    BY <1>2, <1>5
  <1>7. RowSum(RowIds) \in Nat
    <2> DEFINE f == [i \in RowIds |-> amendmentRows[i].amount]
    <2>1. IsFiniteSet(RowIds)
      BY <1>2, <1>5, FS_Interval
    <2>2. \A i \in RowIds : f[i] \in Nat
      BY <1>5 DEF PaymentRows
    <2> HIDE DEF f
    <2>3. SumFunctionOnSet(f, RowIds) \in Nat
      BY <2>1, <2>2, SumNat
    <2>4. QED  BY <2>3 DEF RowSum, f
  <1>8. amendmentProvider \in [RowIds -> ProviderObjects]
    BY DEF AmendmentsInit, ProviderObjects, ProviderStates
  <1>9. amendments \in [Amendments -> AmendmentRecords]
    BY <1>1 DEF AmendmentsInit, AmendmentRecords, AmendmentStatus
  <1>10. amendedBooking \in [total : Nat, version : 0..MaxBookingVersion]
    BY <1>1, <1>7 DEF AmendmentsInit
  <1>11. n <= n + MaxAmendmentRows
    BY <1>1, <1>2
  <1>12. AmendmentsTypeOK
    BY <1>6, <1>8, <1>9, <1>10, <1>11
       DEF AmendmentsTypeOK, AmendmentsInit, PaymentRows, ProviderObjects, AmendmentRecords
  <1>13. \A i \in RowIds : amendmentRows[i].amendment = NoAmendment /\ amendmentRows[i].kind = "CAPTURE"
                            /\ amendmentRows[i].status = "SUCCEEDED" /\ amendmentRows[i].bound
                            /\ amendmentProvider[i].first = "open" /\ amendmentProvider[i].now = "paid"
    BY <1>4, <1>5 DEF BookedRow, AmendmentsInit
  <1>14. \A a \in Amendments : Linked(a, {}) = {}
    BY <1>13, AmendmentsAssumption DEF Linked, AmendmentsAssumption
  <1>15. \A a \in Amendments : amendments[a].status = "NONE" /\ amendments[a].delta = 0
    BY DEF AmendmentsInit
  <1>16. RecordsFit
    BY <1>14, <1>15 DEF RecordsFit
  <1>17. \A i \in RowIds : RowAgrees(i)
    BY <1>13 DEF RowAgrees
  <1>18. ASSUME NEW a \in Amendments PROVE SumsFit(a)
    <2>1. (\A kind : TakenOf(a, kind) = {}) /\ Settled(Linked(a, {}), "CAPTURE") = {}
      BY <1>14 DEF TakenOf, Settled
    <2>2. QED  BY <1>15, <2>1, RowSumEmpty DEF SumsFit, IsCharge
  <1>19. QED  BY <1>12, <1>16, <1>17, <1>18 DEF AmendmentsInv, AmendmentsInit

LEMMA AmendmentsKeep ==
    ASSUME AmendmentsInv, [AmendmentsNext]_amendmentVars
    PROVE  AmendmentsInv'
  <1>1. CASE UNCHANGED amendmentVars
    <2>1. /\ AmendmentsTypeOK' /\ RecordsFit' /\ \A a \in Amendments : SumsFit(a)'
      BY <1>1, SumsKept DEF AmendmentsInv, amendmentVars, AmendmentsTypeOK, RowIds
    <2>2. /\ \A i \in RowIds' : RowAgrees(i)'
          /\ \A c \in amendmentCalls' : CallAgrees(c)'
          /\ \A s \in amendmentSnapshots' : SnapshotAgrees(s)'
          /\ \A s, t \in amendmentSnapshots' : s = t
      BY <1>1 DEF AmendmentsInv, amendmentVars, RowIds, RowAgrees, CallAgrees, SnapshotAgrees
    <2>3. QED  BY <2>1, <2>2 DEF AmendmentsInv
  <1>2. CASE AmendmentsNext
    BY <1>2, PrepareStep, AmendmentStep, ChangeBookingStep, ClaimsStep, CallSteps, AnswerSteps,
       WriteSteps
       DEF AmendmentsNext
  <1>3. QED  BY <1>1, <1>2

LEMMA AmendmentsHold == AmendmentsSpec => []AmendmentsInv
  BY AmendmentsStart, AmendmentsKeep, PTL DEF AmendmentsSpec

\* The rows of the amendments service keep their columns: a total is never negative, a payment is
\* positive, and a call or a retrieved state names a row there is
\* (hospitality-booking-commercial-amendment-service.ts).
THEOREM AmendmentsTypeCorrect == AmendmentsSpec => []AmendmentsTypeOK
  BY AmendmentsHold, PTL DEF AmendmentsInv

\* A Session the customer paid is recorded, or its row is unresolved and its amendment still
\* prepared, so that it can be: nothing closes an amendment over a payment it has not seen
\* (hospitality-booking-commercial-amendment-stripe-checkout-webhook-service.ts,
\* hospitality-booking-commercial-amendment-service.ts).
THEOREM PaidAreRecorded == AmendmentsSpec => []PaidSessionsAreRecorded
  <1>1. ASSUME AmendmentsInv PROVE PaidSessionsAreRecorded
    <2> SUFFICES ASSUME NEW i \in RowIds, amendmentProvider[i].now = "paid"
                 PROVE  \/ amendmentRows[i].status = "SUCCEEDED"
                        \/ /\ amendmentRows[i].status = "AMBIGUOUS"
                           /\ amendments[amendmentRows[i].amendment].status = "PREPARED"
      BY DEF PaidSessionsAreRecorded
    <2>1. RowAgrees(i) /\ amendmentRows[i] \in PaymentRows
      BY <1>1, InvFacts
    <2>2. QED  BY <2>1 DEF RowAgrees, PaymentRows
  <1>2. QED  BY <1>1, AmendmentsHold, PTL

\* Whatever is repeated, lost, expired or answered late, the provider takes the difference of an
\* amendment at most once, gives back no more than was paid, and refunds it at most once
\* (booking-commercial-amendment-execution-domain.ts, booking-commercial-amendment-recovery-domain.ts).
THEOREM DifferenceMovesOnce == AmendmentsSpec => []AmendmentMovesItsDifference
  <1>1. ASSUME AmendmentsInv PROVE AmendmentMovesItsDifference
    <2> SUFFICES ASSUME NEW a \in Amendments
                 PROVE  LET paid == ProviderSum(a, {"paid"})
                            returned == ProviderSum(a, {"pending", "succeeded"})
                        IN  IF IsCharge(a)
                              THEN paid <= amendments[a].delta /\ returned <= paid
                              ELSE paid <= -amendments[a].delta /\ returned <= -amendments[a].delta
      BY DEF AmendmentMovesItsDifference
    <2>1. /\ AmendmentsTypeOK /\ RowsTyped /\ SumsFit(a) /\ amendments[a].delta \in Int
          /\ \A i \in RowIds : RowAgrees(i) /\ amendmentRows[i] \in PaymentRows
      BY <1>1, TypedRows, InvFacts, DeltaInt DEF AmendmentsInv
    <2> DEFINE L == Linked(a, {})
               paid == {i \in L : amendmentProvider[i].now \in {"paid"}}
               returned == {i \in L : amendmentProvider[i].now \in {"pending", "succeeded"}}
               settled == Settled(L, "CAPTURE")
    <2>2. /\ paid \in SUBSET TakenOf(a, "CAPTURE") /\ returned \in SUBSET TakenOf(a, "REFUND")
          /\ settled \in SUBSET paid
      <3>1. \A i \in L : /\ i \in RowIds /\ amendmentRows[i].kind \in {"CAPTURE", "REFUND"} /\ RowAgrees(i)
        BY <2>1 DEF Linked, PaymentRows
      <3>2. ASSUME NEW i \in paid PROVE i \in TakenOf(a, "CAPTURE")
        BY <3>1 DEF RowAgrees, TakenOf
      <3>3. ASSUME NEW i \in returned PROVE i \in TakenOf(a, "REFUND")
        BY <3>1 DEF RowAgrees, TakenOf
      <3>4. ASSUME NEW i \in settled PROVE i \in paid
        BY <3>1 DEF RowAgrees, Settled
      <3>5. QED  BY <3>2, <3>3, <3>4
    <2>3. /\ TakenOf(a, "CAPTURE") \in SUBSET RowIds /\ TakenOf(a, "REFUND") \in SUBSET RowIds
          /\ paid \in SUBSET RowIds
      BY DEF TakenOf, Linked
    <2>4. ProviderSum(a, {"paid"}) = RowSum(paid) /\ ProviderSum(a, {"pending", "succeeded"}) = RowSum(returned)
      BY DEF ProviderSum
    <2> HIDE DEF paid, returned, settled, L
    <2>5. /\ RowSum(paid) <= RowSum(TakenOf(a, "CAPTURE")) /\ RowSum(returned) <= RowSum(TakenOf(a, "REFUND"))
          /\ RowSum(settled) <= RowSum(paid)
          /\ RowSum(TakenOf(a, "CAPTURE")) \in Nat /\ RowSum(TakenOf(a, "REFUND")) \in Nat
      BY <2>1, <2>2, <2>3, RowSumNat
    <2>6. RowSum(paid) \in Nat /\ RowSum(returned) \in Nat /\ RowSum(settled) \in Nat
      BY <2>1, <2>2, <2>3, RowSumNat
    <2>7. settled = Settled(Linked(a, {}), "CAPTURE")
      BY DEF settled, L
    <2>8. QED  BY <2>1, <2>4, <2>5, <2>6, <2>7 DEF SumsFit
  <1>2. QED  BY <1>1, AmendmentsHold, PTL

\* The steps of payments leave the booking and the amendments as they are.
LEMMA PaymentsLeaveBooking ==
    ASSUME AmendmentsNext
    PROVE  \/ UNCHANGED <<amendedBooking, amendments>>
           \/ ChangeAmendedBooking
           \/ \E a \in Amendments :
                \/ \E d \in Deltas, h \in {"NONE", "ACTIVE"} : PrepareAmendment(a, d, h)
                \/ CancelAmendment(a)
                \/ ExpireAmendment(a)
                \/ EndAmendmentHold(a)
                \/ ApplyAmendment(a)
                \/ RouteToRecovery(a)
                \/ FinalizeRecovery(a)
  <1>1. ASSUME NEW a \in Amendments,
               \/ ClaimCharge(a)
               \/ ClaimRecoverySession(a)
               \/ \E s \in RowIds : ClaimAdjustmentRefund(a, s) \/ ClaimRecoveryRefund(a, s)
        PROVE  UNCHANGED <<amendedBooking, amendments>>
    BY <1>1 DEF ClaimCharge, ClaimRecoverySession, ClaimAdjustmentRefund, ClaimRecoveryRefund,
                ClaimAdjustment, Claim
  <1>2. ASSUME \E i \in RowIds : \/ RepeatAdjustment(i) \/ RepeatRecovery(i) \/ RetrieveState(i)
                                 \/ \E state \in ProviderChanges : ProviderState(i, state)
        PROVE  UNCHANGED <<amendedBooking, amendments>>
    BY <1>2 DEF RepeatAdjustment, RepeatRecovery, Repeat, RetrieveState, ProviderState
  <1>3. ASSUME \E c \in amendmentCalls :
                 \/ \E state \in ProviderStates : ProviderAnswers(c, state)
                 \/ FailClaim(c)
                 \/ BindSession(c)
                 \/ PersistAdjustmentRefund(c)
                 \/ PersistRecoveryRefund(c)
                 \/ LoseAnswer(c)
        PROVE  UNCHANGED <<amendedBooking, amendments>>
    BY <1>3 DEF ProviderAnswers, FailClaim, BindSession, PersistAdjustmentRefund,
                PersistRecoveryRefund, LoseAnswer, EndCall
  <1>4. ASSUME \E s \in amendmentSnapshots :
                 \/ WriteSession(s)
                 \/ WriteAdjustmentRefund(s)
                 \/ WriteRecoverySession(s)
                 \/ WriteRecoveryRefund(s)
                 \/ DropState(s)
        PROVE  UNCHANGED <<amendedBooking, amendments>>
    BY <1>4 DEF WriteSession, WriteAdjustmentRefund, WriteRecoverySession, WriteRecoveryRefund,
                Write, DropState
  <1>5. QED  BY <1>1, <1>2, <1>3, <1>4 DEF AmendmentsNext

LEMMA NoActivityNoEffect ==
    ASSUME NEW a, ~PaymentActivity(a)
    PROVE  Effect(Linked(a, {})) = 0
  <1>1. \A kind : Settled(Linked(a, {}), kind) = {}
    BY DEF PaymentActivity, Settled
  <1>2. RowSum(Settled(Linked(a, {}), "CAPTURE")) = 0 /\ RowSum(Settled(Linked(a, {}), "REFUND")) = 0
    BY <1>1, RowSumEmpty
  <1>3. QED  BY <1>2 DEF Effect

\* How amendment a was closed.
ClosedBalanced(a) ==
    /\ Unresolved(Linked(a, {})) = {}
    /\ Effect(Linked(a, {})) = IF amendments'[a].status = "APPLIED" THEN amendments[a].delta ELSE 0
    /\ amendments'[a].hold # "ACTIVE"

\* An amendment ends with its payments resolved, its units let go, and exactly its difference
\* moved if it was applied, nothing otherwise
\* (the prepare, apply and recovery services, hospitality-booking-commercial-amendment-*.ts).
THEOREM AmendmentsEndBalanced == AmendmentsSpec => AmendmentsCloseBalanced
  <1>1. ASSUME AmendmentsInv, AmendmentsNext, NEW a \in Amendments,
               amendments[a].status = "PREPARED", amendments'[a].status # "PREPARED"
        PROVE  ClosedBalanced(a)
    <2> DEFINE r == amendments[a]
    <2>1. /\ AmendmentsTypeOK /\ amendments \in [Amendments -> AmendmentRecords]
          /\ r \in AmendmentRecords /\ r.delta \in Int /\ r.before \in Nat
      BY <1>1, DeltaInt DEF AmendmentsInv, AmendmentsTypeOK, AmendmentRecords
    <2>2. \A status \in AmendmentStatus : Ended(r, status).status = status /\ Ended(r, status).hold # "ACTIVE"
      BY <2>1, EndedIs
    <2>3. \A b \in Amendments \ {a} : \A x : amendments' = [amendments EXCEPT ![b] = x] => FALSE
      BY <1>1, <2>1
    <2>4. "APPLIED" \in AmendmentStatus /\ "CANCELLED" \in AmendmentStatus /\ "EXPIRED" \in AmendmentStatus
      BY DEF AmendmentStatus
    <2>5. ASSUME NEW b \in Amendments, NEW d \in Deltas, NEW h \in {"NONE", "ACTIVE"}, PrepareAmendment(b, d, h)
          PROVE  ClosedBalanced(a)
      <3>1. a # b /\ ~PaymentActivity(a) /\ amendments'[a] = Ended(r, "EXPIRED")
        BY <1>1, <2>5 DEF PrepareAmendment
      <3>2. QED  BY <2>2, <2>4, <3>1, NoActivity, NoActivityNoEffect DEF ClosedBalanced
    <2>6. ASSUME NEW b \in Amendments, CancelAmendment(b) PROVE ClosedBalanced(a)
      <3>1. a = b
        BY <2>3, <2>6 DEF CancelAmendment
      <3>2. /\ ~PaymentActivity(a)
            /\ amendments'[a] = Ended(r, IF r.due THEN "EXPIRED" ELSE "CANCELLED")
        BY <2>1, <2>6, <3>1 DEF CancelAmendment
      <3>3. QED  BY <2>2, <2>4, <3>2, NoActivity, NoActivityNoEffect DEF ClosedBalanced
    <2>7. ASSUME NEW b \in Amendments, ApplyAmendment(b) PROVE ClosedBalanced(a)
      <3>1. a = b
        BY <2>3, <2>7 DEF ApplyAmendment
      <3>2. /\ amendments'[a] = Ended(r, "APPLIED") /\ Unresolved(Linked(a, {})) = {}
            /\ Effect(Linked(a, {})) = r.delta
        BY <2>1, <2>7, <3>1 DEF ApplyAmendment, ReadyToApply
      <3>3. QED  BY <2>2, <2>4, <3>2 DEF ClosedBalanced
    <2>8. ASSUME NEW b \in Amendments, FinalizeRecovery(b) PROVE ClosedBalanced(a)
      <3>1. a = b
        BY <2>3, <2>8 DEF FinalizeRecovery
      <3>2. /\ amendments'[a] = Ended(r, "EXPIRED") /\ Unresolved(Linked(a, {})) = {}
            /\ NetSettled({}) = r.before /\ NetSettled({}) = r.before + Effect(Linked(a, {}))
        BY <2>1, <2>8, <3>1 DEF FinalizeRecovery, ReadyToExpire, RecoveryAgrees
      <3>3. Effect(Linked(a, {})) = 0
        BY <2>1, <3>2, EffectInt
      <3>4. QED  BY <2>2, <2>4, <3>2, <3>3 DEF ClosedBalanced
    <2>9. ASSUME NEW b \in Amendments, ExpireAmendment(b) \/ EndAmendmentHold(b) \/ RouteToRecovery(b)
          PROVE  FALSE
      <3>1. a = b
        BY <2>3, <2>9 DEF ExpireAmendment, EndAmendmentHold, RouteToRecovery
      <3>2. /\ LetGo(r).status = r.status /\ [LetGo(r) EXCEPT !.due = TRUE].status = r.status
            /\ [r EXCEPT !.due = TRUE].status = r.status
        BY <2>1, <2>4, EndedIs DEF AmendmentRecords
      <3>3. amendments'[a] \in {[r EXCEPT !.due = TRUE], LetGo(r), [LetGo(r) EXCEPT !.due = TRUE]}
        BY <2>1, <2>9, <3>1 DEF ExpireAmendment, EndAmendmentHold, RouteToRecovery
      <3>4. QED  BY <1>1, <3>2, <3>3
    <2>10. CASE UNCHANGED <<amendedBooking, amendments>> \/ ChangeAmendedBooking
      BY <1>1, <2>10 DEF ChangeAmendedBooking
    <2>11. QED  BY <1>1, <2>5, <2>6, <2>7, <2>8, <2>9, <2>10, PaymentsLeaveBooking
  <1>2. ASSUME AmendmentsInv, [AmendmentsNext]_amendmentVars
        PROVE  [\A a \in Amendments :
                  (amendments[a].status = "PREPARED" /\ amendments'[a].status # "PREPARED") =>
                    /\ Unresolved(Linked(a, {})) = {}
                    /\ Effect(Linked(a, {})) = IF amendments'[a].status = "APPLIED"
                                                 THEN amendments[a].delta ELSE 0
                    /\ amendments'[a].hold # "ACTIVE"]_amendmentVars
    BY <1>1, <1>2 DEF ClosedBalanced
  <1>3. QED  BY <1>2, AmendmentsHold, PTL DEF AmendmentsCloseBalanced, AmendmentsSpec

\* Nothing changes the booking under an amendment with payments under way or settled, due or not,
\* but its own application
\* (hospitality-booking-commercial-amendment-guard.ts, which the other services ask).
THEOREM ActiveAmendmentProtects == AmendmentsSpec => AmendmentProtectsBooking
  <1>1. ASSUME AmendmentsInv, AmendmentsNext, NEW a \in Amendments, amendedBooking' # amendedBooking,
               amendments[a].status = "PREPARED", PaymentActivity(a)
        PROVE  amendments'[a].status = "APPLIED"
    <2>1. /\ AmendmentsTypeOK /\ RecordsFit /\ amendments \in [Amendments -> AmendmentRecords]
      BY <1>1 DEF AmendmentsInv, AmendmentsTypeOK, AmendmentRecords
    <2>2. ~ChangeAmendedBooking
      BY <1>1 DEF ChangeAmendedBooking, Active
    <2>3. PICK b \in Amendments : ApplyAmendment(b)
      BY <1>1, <2>2, PaymentsLeaveBooking
         DEF PrepareAmendment, CancelAmendment, ExpireAmendment, EndAmendmentHold, RouteToRecovery,
             FinalizeRecovery
    <2>4. a = b
      BY <1>1, <2>1, <2>3 DEF RecordsFit, ApplyAmendment, BookingUnchanged, BookingMatches
    <2>5. amendments'[a] = Ended(amendments[a], "APPLIED")
      BY <2>1, <2>3, <2>4 DEF ApplyAmendment
    <2>6. amendments[a] \in AmendmentRecords /\ "APPLIED" \in AmendmentStatus
      BY <2>1 DEF AmendmentStatus
    <2>7. Ended(amendments[a], "APPLIED").status = "APPLIED"
      BY <2>6, EndedIs
    <2>8. QED  BY <2>5, <2>7
  <1>2. ASSUME AmendmentsInv, [AmendmentsNext]_amendmentVars
        PROVE  [amendedBooking' # amendedBooking =>
                  \A a \in Amendments :
                    (amendments[a].status = "PREPARED"
                       /\ \E i \in Linked(a, {}) : amendmentRows[i].status # "FAILED") =>
                      amendments'[a].status = "APPLIED"]_amendmentVars
    BY <1>1, <1>2 DEF PaymentActivity
  <1>3. QED  BY <1>2, AmendmentsHold, PTL DEF AmendmentProtectsBooking, AmendmentsSpec

=============================================================================
