--------------------------- MODULE ServicesProofs ---------------------------
(***************************************************************************)
(* Theorems about SupplierReservations, for any number of workers and of   *)
(* attempts: the operation buys once, and its stored outcome is what the   *)
(* supplier did. And about MCServices, which runs the reservations with    *)
(* the amendments and the rentals: a behaviour of it is one of each.       *)
(***************************************************************************)
EXTENDS MCServices, HospitalityAmendmentProofs, RentalProofs

----------------------------------------------------------------------------
\* The inductive invariant.

Attempts == 1..MaxSupplierAttempts
Pending(n) == supplierSales[n] \in {"OPEN", "ACTIVE"}
Made(n) == supplierSales[n] \in {"ACTIVE", "CANCELLED"}

\* A worker that holds an attempt of its own, and one whose attempt makes a sale.
Holds(w) ==
    /\ supplierWork[w].phase # "IDLE"
    /\ ~(supplierWork[w].phase = "CLAIMED" /\ supplierWork[w].kind = "REVIEWED")
Buys(w) == Holds(w) /\ Posts(supplierWork[w].kind)

\* Attempts not started have sold nothing.
LaterUnsold == \A n \in Attempts : n > supplierOp.count => supplierSales[n] = "NONE"

\* Before an attempt is let go nothing is sold, and during a create only its own request.
QuietUnsold ==
    supplierOp.status \in {"PREPARED", "FAILED", "REVIEW_REQUIRED"} => \A n \in Attempts : ~Pending(n)
CreateAlone ==
    supplierOp.status = "SUBMITTING" /\ supplierAttempt.kind = "CREATE" =>
        \A n \in Attempts : Pending(n) => n = supplierOp.count /\ supplierAttempt.marked

\* A stored locator or confirmation names the one sale that was made.
TheSale(x) == x # 0 => Made(x) /\ \A n \in Attempts : Pending(n) => n = x
RowNamesSale == TheSale(supplierOp.reference) /\ TheSale(supplierOp.confirmation)
ConfirmedNamesBoth ==
    supplierOp.status = "CONFIRMED" =>
        supplierOp.reference # 0 /\ supplierOp.confirmation = supplierOp.reference

\* The stored row passes its checks, an unsent create finds no earlier confirmation in it, and
\* only a reconciliation makes it RECONCILING.
OperationRowFits ==
    /\ RowAllowed(supplierOp)
    /\ supplierOp.status = "SUBMITTING" /\ supplierAttempt.kind = "CREATE" /\ ~supplierAttempt.marked =>
           supplierOp.confirmation = 0
    /\ supplierOp.status = "RECONCILING" => supplierAttempt.kind = "RECONCILE"

\* What a worker was answered is true of the sale its request is about.
AnswerHolds(w) ==
    LET work == supplierWork[w] IN
    /\ work.phase = "CLAIMED" => work.answer = "NONE"
    /\ work.phase = "STAGED" => Posts(work.kind) /\ Made(work.sale)
    /\ work.phase = "ANSWERED" =>
         /\ work.answer \in {"NO_CONFIRMATION", "NO_LOCATOR", "NO_RECOVERY"} => Posts(work.kind)
         /\ (work.answer \in {"CONFIRMED", "NO_CONFIRMATION", "NO_LOCATOR", "NO_RECOVERY"}
               /\ Posts(work.kind)) => Made(work.sale)
         /\ work.answer \in {"RETRYABLE", "REFUSED", "REVIEW"} =>
                Posts(work.kind) /\ supplierSales[work.sale] = "REFUSED"
         /\ work.answer = "NOT_FOUND" => supplierSales[work.sale] = "CANCELLED"

WorkerHolds(w) ==
    LET work == supplierWork[w] IN
    /\ Holds(w) => work.sale \in Attempts /\ work.attempt \in Attempts /\ work.attempt <= supplierOp.count
    /\ Buys(w) => work.sale = work.attempt
    /\ work.phase = "CLAIMED" /\ work.kind = "CREATE" => supplierSales[work.sale] = "NONE"
    /\ AnswerHolds(w)
WorkersHold == \A w \in SupplierWorkers : WorkerHolds(w)

\* An attempt that makes a sale has one worker.
BuyersDiffer ==
    \A v, w \in SupplierWorkers :
        Buys(v) /\ Buys(w) /\ supplierWork[v].attempt = supplierWork[w].attempt => v = w

OperationInv ==
    /\ LaterUnsold /\ QuietUnsold /\ CreateAlone /\ RowNamesSale /\ ConfirmedNamesBoth /\ OperationRowFits
    /\ SoldOnce
SupplierInv == SupplierTypeOK /\ OperationInv /\ WorkersHold /\ BuyersDiffer

----------------------------------------------------------------------------
\* Steps of the same shape.

AttemptKinds == {"CREATE", "RECONCILE", "RECOVERY_WRITE"}

\* The supplier's answers do not go back on a sale, and no worker loses a sale it has not sent.
SalesMove(w) ==
    \A n \in Attempts :
        \/ supplierSales'[n] = supplierSales[n]
        \/ /\ supplierSales[n] = "NONE" /\ supplierSales'[n] = "OPEN"
           /\ supplierWork[w].phase = "CLAIMED" /\ supplierWork[w].kind = "CREATE" =>
                  supplierWork[w].sale # n
        \/ supplierSales[n] = "OPEN" /\ supplierSales'[n] \in {"ACTIVE", "REFUSED"}
        \/ supplierSales[n] = "ACTIVE" /\ supplierSales'[n] = "CANCELLED"

\* A worker that does not move keeps what it knows.
LEMMA WorkerFrame ==
    ASSUME SupplierTypeOK, SupplierTypeOK', NEW w \in SupplierWorkers, WorkerHolds(w),
           supplierOp.count <= supplierOp'.count, supplierWork'[w] = supplierWork[w], SalesMove(w)
    PROVE  WorkerHolds(w)'
<1>1. Holds(w)' = Holds(w) /\ Buys(w)' = Buys(w)
  BY DEF Holds, Buys
<1>2. Holds(w) => /\ supplierWork[w].sale \in Attempts
                  /\ supplierWork[w].attempt \in Attempts
                  /\ supplierWork[w].attempt <= supplierOp'.count
  BY SupplierAssumption DEF WorkerHolds, SupplierTypeOK, OperationRows, Sequences0, Attempts
<1>3. ASSUME NEW n \in Attempts
      PROVE  /\ Made(n) => Made(n)'
             /\ supplierSales[n] = "REFUSED" => supplierSales'[n] = "REFUSED"
             /\ supplierSales[n] = "CANCELLED" => supplierSales'[n] = "CANCELLED"
  BY <1>3 DEF SalesMove, Made
<1>4. AnswerHolds(w)'
  BY <1>2, <1>3 DEF WorkerHolds, AnswerHolds, Holds, Made
<1>5. supplierWork[w].phase = "CLAIMED" /\ supplierWork[w].kind = "CREATE" =>
          supplierSales'[supplierWork[w].sale] = "NONE"
  BY <1>2 DEF WorkerHolds, SalesMove, Holds
<1>. QED BY <1>1, <1>2, <1>4, <1>5 DEF WorkerHolds, Buys, Holds

\* A worker that is done knows nothing and buys nothing.
LEMMA IdleHolds ==
    ASSUME NEW w \in SupplierWorkers, supplierWork'[w] = IdleWork
    PROVE  WorkerHolds(w)' /\ ~Buys(w)'
BY DEF IdleWork, WorkerHolds, AnswerHolds, Holds, Buys

\* Steps that leave the operation, its attempt and the sales alone keep what is said of them.
LEMMA OperationFrame ==
    ASSUME OperationInv, UNCHANGED <<supplierOp, supplierAttempt, supplierSales>>
    PROVE  OperationInv'
BY DEF OperationInv, LaterUnsold, QuietUnsold, CreateAlone, RowNamesSale, TheSale, Made, Pending,
       ConfirmedNamesBoth, OperationRowFits, SoldOnce

\* The settlement of an attempt: the worker is done, no sale changes, and the stored row says
\* nothing that is not so.
LEMMA SettleStep ==
    ASSUME SupplierInv, NEW w \in SupplierWorkers, NEW row \in OperationRows,
           NEW status \in {"SUCCEEDED", "FAILED", "AMBIGUOUS", "NOT_FOUND", "REVIEW_REQUIRED"},
           Settle(w, row, status),
           row.count = supplierOp.count, row.status \notin {"SUBMITTING", "RECONCILING"},
           row.status \in {"PREPARED", "FAILED", "REVIEW_REQUIRED"} => \A n \in Attempts : ~Pending(n),
           TheSale(row.reference), TheSale(row.confirmation),
           row.status = "CONFIRMED" => row.confirmation = row.reference
    PROVE  SupplierInv'
<1>1. /\ supplierOp' = row /\ RowAllowed(row)
      /\ supplierAttempt' = [supplierAttempt EXCEPT !.status = status]
      /\ supplierWork' = [supplierWork EXCEPT ![w] = IdleWork]
      /\ supplierSales' = supplierSales
  BY DEF Settle, SaveOperation, SaveAttempt, SetWork
<1>2. SupplierTypeOK'
  <2>1. supplierAttempt' \in AttemptRows
    BY <1>1 DEF SupplierInv, SupplierTypeOK, AttemptRows
  <2>2. IdleWork \in WorkRows
    BY SupplierAssumption DEF IdleWork, WorkRows, Sequences0, Answers
  <2>3. supplierWork' \in [SupplierWorkers -> WorkRows]
    BY <1>1, <2>2 DEF SupplierInv, SupplierTypeOK
  <2>. QED BY <1>1, <2>1, <2>3 DEF SupplierInv, SupplierTypeOK
<1>3. OperationInv'
  <2>1. LaterUnsold' /\ QuietUnsold' /\ CreateAlone' /\ SoldOnce'
    BY <1>1 DEF SupplierInv, OperationInv, LaterUnsold, QuietUnsold, CreateAlone, SoldOnce, Pending
  <2>2. RowNamesSale'
    BY <1>1 DEF RowNamesSale, TheSale, Made, Pending
  <2>3. ConfirmedNamesBoth'
    BY <1>1 DEF ConfirmedNamesBoth, RowAllowed
  <2>4. OperationRowFits'
    BY <1>1 DEF OperationRowFits, RowAllowed
  <2>. QED BY <2>1, <2>2, <2>3, <2>4 DEF OperationInv
<1>4. ASSUME NEW v \in SupplierWorkers, v # w
      PROVE  supplierWork'[v] = supplierWork[v] /\ WorkerHolds(v)'
  <2>1. supplierWork'[v] = supplierWork[v]
    BY <1>1, <1>4 DEF SupplierInv, SupplierTypeOK
  <2>2. SalesMove(v)
    BY <1>1 DEF SalesMove
  <2>3. supplierOp.count <= supplierOp'.count
    BY <1>1, SupplierAssumption DEF SupplierInv, SupplierTypeOK, OperationRows, Sequences0
  <2>. QED BY <1>2, <2>1, <2>2, <2>3, WorkerFrame DEF SupplierInv, WorkersHold
<1>5. supplierWork'[w] = IdleWork
  BY <1>1 DEF SupplierInv, SupplierTypeOK
<1>6. WorkersHold'
  BY <1>4, <1>5, IdleHolds DEF WorkersHold
<1>7. BuyersDiffer'
  BY <1>4, <1>5, IdleHolds DEF SupplierInv, BuyersDiffer, Buys, Holds
<1>. QED BY <1>2, <1>3, <1>6, <1>7 DEF SupplierInv

\* The start of an attempt: it gets the next sequence, which nobody has used. A create starts
\* with nothing sold; the other kinds sell nothing.
LEMMA StartStep ==
    ASSUME SupplierInv, NEW w \in SupplierWorkers, NEW kind \in AttemptKinds,
           NEW status, status = InFlight(kind), NEW sale \in Sequences0,
           StartAttempt(w, kind, status, sale),
           IF kind = "CREATE" THEN sale = 0 ELSE sale # 0,
           kind = "CREATE" => supplierOp.confirmation = 0 /\ \A n \in Attempts : ~Pending(n)
    PROVE  SupplierInv'
<1>. DEFINE next == supplierOp.count + 1
            work == [phase |-> "CLAIMED", kind |-> kind, attempt |-> next,
                     sale |-> IF sale = 0 THEN next ELSE sale, answer |-> "NONE"]
            row(retryable) == [supplierOp EXCEPT !.status = status, !.count = next, !.retryable = retryable]
<1>a. status \in {"SUBMITTING", "RECONCILING"}
  BY DEF InFlight
<1>0. /\ \E retryable \in BOOLEAN : supplierOp' = row(retryable)
      /\ RowAllowed(supplierOp')
      /\ next <= MaxSupplierAttempts
      /\ supplierAttempt' = [kind |-> kind, status |-> "STARTED", marked |-> FALSE]
      /\ supplierWork' = [supplierWork EXCEPT ![w] = work]
      /\ supplierSales' = supplierSales
  <2>1. supplierOp.retryable \in BOOLEAN
    BY DEF SupplierInv, SupplierTypeOK, OperationRows
  <2>2. (IF kind = "RECONCILE" THEN supplierOp.retryable ELSE FALSE) \in BOOLEAN
    BY <2>1
  <2>. QED BY <2>2 DEF StartAttempt, SaveOperation, SetWork, RowAllowed
<1>1. /\ next \in Attempts /\ supplierOp.count \in Nat
      /\ supplierOp'.status = status /\ supplierOp'.count = next
      /\ supplierOp'.reference = supplierOp.reference
      /\ supplierOp'.confirmation = supplierOp.confirmation
      /\ supplierOp' \in OperationRows
  <2>1. supplierOp \in OperationRows
    BY DEF SupplierInv, SupplierTypeOK
  <2>2. next \in Attempts /\ next \in Sequences0 /\ supplierOp.count \in Nat
    BY <1>0, <2>1, SupplierAssumption DEF OperationRows, Sequences0, Attempts
  <2>3. PICK retryable \in BOOLEAN : supplierOp' = row(retryable)
    BY <1>0
  <2>. HIDE DEF next
  <2>. QED BY <1>a, <2>1, <2>2, <2>3 DEF OperationRows, OperationStatus
<1>2. work \in WorkRows
  BY <1>0, <1>1, SupplierAssumption DEF AttemptKinds, WorkRows, Sequences0, Attempts, Answers
<1>. HIDE DEF work
<1>3. SupplierTypeOK'
  <2>1. supplierAttempt' \in AttemptRows
    BY <1>0, <1>1 DEF AttemptKinds, AttemptRows
  <2>. QED BY <1>0, <1>1, <1>2, <2>1 DEF SupplierInv, SupplierTypeOK
<1>4. OperationInv'
  <2>1. LaterUnsold' /\ QuietUnsold' /\ SoldOnce' /\ ConfirmedNamesBoth'
    BY <1>a, <1>0, <1>1 DEF SupplierInv, OperationInv, LaterUnsold, QuietUnsold, SoldOnce, ConfirmedNamesBoth, Attempts
  <2>2. CreateAlone'
    BY <1>0, <1>1 DEF CreateAlone, Pending
  <2>3. RowNamesSale'
    BY <1>0, <1>1 DEF SupplierInv, OperationInv, RowNamesSale, TheSale, Made, Pending
  <2>4. OperationRowFits'
    BY <1>0, <1>1 DEF OperationRowFits, InFlight
  <2>. QED BY <2>1, <2>2, <2>3, <2>4 DEF OperationInv
<1>5. ASSUME NEW v \in SupplierWorkers, v # w
      PROVE  supplierWork'[v] = supplierWork[v] /\ WorkerHolds(v)'
  <2>1. supplierWork'[v] = supplierWork[v]
    BY <1>0, <1>1, <1>5 DEF SupplierInv, SupplierTypeOK
  <2>2. SalesMove(v)
    BY <1>0, <1>1 DEF SalesMove
  <2>. QED BY <1>0, <1>1, <1>3, <2>1, <2>2, WorkerFrame DEF SupplierInv, WorkersHold
<1>6. supplierWork'[w] = work
  BY <1>0, <1>1 DEF SupplierInv, SupplierTypeOK
<1>7. WorkerHolds(w)'
  <2>1. sale # 0 => sale \in Attempts
    BY SupplierAssumption DEF Sequences0, Attempts
  <2>2. supplierSales[next] = "NONE"
    BY <1>0, <1>1 DEF SupplierInv, OperationInv, LaterUnsold
  <2>3. kind \in AttemptKinds /\ kind # "REVIEWED"
    BY DEF AttemptKinds
  <2>4. Posts(kind) => sale = 0
    BY <2>3 DEF Posts
  <2>. QED BY <1>0, <1>1, <1>6, <2>1, <2>2, <2>3, <2>4 DEF work, WorkerHolds, AnswerHolds, Holds, Buys
<1>8. ASSUME NEW v \in SupplierWorkers, v # w, Buys(v)'
      PROVE  supplierWork'[v].attempt # supplierWork'[w].attempt
  <2>1. Buys(v) /\ supplierWork[v].attempt <= supplierOp.count /\ supplierWork[v].attempt \in Attempts
    BY <1>5, <1>8 DEF SupplierInv, WorkersHold, WorkerHolds, Buys, Holds
  <2>. QED BY <1>0, <1>1, <1>5, <1>6, <1>8, <2>1 DEF work, Attempts
<1>9. BuyersDiffer'
  BY <1>5, <1>8 DEF SupplierInv, BuyersDiffer, Buys, Holds
<1>. QED BY <1>3, <1>4, <1>5, <1>7, <1>9 DEF SupplierInv, WorkersHold

----------------------------------------------------------------------------
\* The actions, one lemma for each group.

LEMMA ClaimSteps ==
    ASSUME SupplierInv, NEW w \in SupplierWorkers,
           ClaimSubmission(w) \/ ClaimReconciliation(w) \/ ClaimRecoveryWrite(w)
    PROVE  SupplierInv'
<1>1. CASE ClaimSubmission(w)
  <2>1. supplierOp.confirmation = 0 /\ \A n \in Attempts : ~Pending(n)
    BY <1>1 DEF ClaimSubmission, CanSubmit, SupplierInv, OperationInv, QuietUnsold, OperationRowFits, RowAllowed
  <2>. QED BY <1>1, <2>1, SupplierAssumption, StartStep
         DEF ClaimSubmission, AttemptKinds, Sequences0, InFlight
<1>2. CASE ClaimReconciliation(w)
  <2>1. supplierOp.reference \in Sequences0
    BY DEF SupplierInv, SupplierTypeOK, OperationRows
  <2>. QED BY <1>2, <2>1, StartStep DEF ClaimReconciliation, AttemptKinds, InFlight
<1>3. CASE ClaimRecoveryWrite(w)
  <2>1. supplierOp.recovery \in Sequences0
    BY DEF SupplierInv, SupplierTypeOK, OperationRows
  <2>. QED BY <1>3, <2>1, StartStep DEF ClaimRecoveryWrite, AttemptKinds, InFlight
<1>. QED BY <1>1, <1>2, <1>3

\* What the worker of the current attempt knows: the only sale is its own.
LEMMA CurrentBuyer ==
    ASSUME SupplierInv, NEW w \in SupplierWorkers, Current(w), Buys(w)
    PROVE  /\ supplierWork[w].sale = supplierOp.count /\ supplierOp.count \in Attempts
           /\ \A n \in Attempts : Pending(n) => n = supplierWork[w].sale /\ supplierAttempt.marked
<1>1. supplierOp.status = "SUBMITTING" /\ supplierAttempt.kind = "CREATE"
  BY DEF Current, Buys, Posts, InFlight, AttemptKindOf
<1>2. /\ supplierWork[w].sale = supplierWork[w].attempt /\ supplierWork[w].sale \in Attempts
  BY DEF SupplierInv, WorkersHold, WorkerHolds, Buys
<1>3. supplierWork[w].attempt = supplierOp.count
  BY DEF Current
<1>. QED BY <1>1, <1>2, <1>3 DEF SupplierInv, OperationInv, CreateAlone

LEMMA SettlementSteps ==
    ASSUME SupplierInv, NEW w \in SupplierWorkers,
           FailSubmission(w) \/ SettleSubmission(w) \/ SettleReview(w)
    PROVE  SupplierInv'
<1>. DEFINE work == supplierWork[w]
<1>0. /\ work \in WorkRows /\ supplierOp \in OperationRows /\ WorkerHolds(w) /\ 0 \in Sequences0
      /\ TheSale(0)
  BY SupplierAssumption DEF SupplierInv, SupplierTypeOK, WorkersHold, Sequences0, TheSale
<1>1. ASSUME NEW retryable \in BOOLEAN, Current(w),
             \A n \in Attempts : ~Pending(n),
             Settle(w, [supplierOp EXCEPT !.status = "FAILED", !.reference = 0, !.confirmation = 0,
                                          !.retryable = retryable], "FAILED")
      PROVE  SupplierInv'
  <2>. DEFINE row == [supplierOp EXCEPT !.status = "FAILED", !.reference = 0, !.confirmation = 0,
                                        !.retryable = retryable]
  <2>1. /\ row \in OperationRows /\ row.count = supplierOp.count /\ row.status = "FAILED"
        /\ row.reference = 0 /\ row.confirmation = 0
    BY <1>0 DEF OperationRows, OperationStatus
  <2>. QED BY <1>0, <1>1, <2>1, SettleStep
<1>2. CASE FailSubmission(w)
  <2>1. CASE work.phase = "CLAIMED" /\ work.kind = "CREATE" /\ Current(w)
    <3>1. Buys(w) /\ supplierSales[work.sale] = "NONE"
      BY <1>0, <2>1 DEF WorkerHolds, Buys, Holds, Posts
    <3>2. \A n \in Attempts : ~Pending(n)
      BY <2>1, <3>1, CurrentBuyer DEF Pending
    <3>. QED BY <1>1, <1>2, <2>1, <3>2 DEF FailSubmission
  <2>2. CASE work.phase = "ANSWERED" /\ work.answer \in {"RETRYABLE", "REFUSED"} /\ Current(w)
    <3>1. Buys(w) /\ supplierSales[work.sale] = "REFUSED"
      BY <1>0, <2>2 DEF WorkerHolds, AnswerHolds, Buys, Holds
    <3>2. \A n \in Attempts : ~Pending(n)
      BY <2>2, <3>1, CurrentBuyer DEF Pending
    <3>. QED BY <1>1, <1>2, <2>2, <3>2 DEF FailSubmission
  <2>. QED BY <1>2, <2>1, <2>2 DEF FailSubmission, Settle
<1>3. CASE SettleReview(w)
  <2>. DEFINE row == [supplierOp EXCEPT !.status = "REVIEW_REQUIRED", !.reference = 0,
                                        !.confirmation = 0, !.recovery = 0, !.retryable = FALSE]
  <2>1. work.phase = "ANSWERED" /\ work.answer = "REVIEW" /\ Current(w)
    BY <1>3 DEF SettleReview, Settle
  <2>2. Buys(w) /\ supplierSales[work.sale] = "REFUSED"
    BY <1>0, <2>1 DEF WorkerHolds, AnswerHolds, Buys, Holds
  <2>3. \A n \in Attempts : ~Pending(n)
    BY <2>1, <2>2, CurrentBuyer DEF Pending
  <2>4. row \in OperationRows /\ row.count = supplierOp.count
    BY <1>0 DEF OperationRows, OperationStatus
  <2>. QED BY <1>0, <1>3, <2>3, <2>4, SettleStep DEF SettleReview, OperationRows
<1>4. CASE SettleSubmission(w)
  <2>1. Posts(work.kind) /\ Current(w) /\ work.phase \in {"ANSWERED", "STAGED"}
    BY <1>4 DEF SettleSubmission, Settle
  <2>2. Buys(w) /\ work.sale \in Attempts /\ work.sale \in Sequences0
    BY <1>0, <2>1 DEF WorkerHolds, Buys, Holds, WorkRows
  <2>3. ASSUME Made(work.sale)
        PROVE  TheSale(work.sale)
    BY <2>1, <2>2, <2>3, CurrentBuyer DEF TheSale
  <2>4. CASE work.phase = "ANSWERED" /\ work.answer = "CONFIRMED"
    <3>. DEFINE row == [supplierOp EXCEPT !.status = "CONFIRMED", !.reference = work.sale,
                                          !.confirmation = work.sale, !.retryable = FALSE]
    <3>1. TheSale(work.sale)
      BY <1>0, <2>1, <2>3, <2>4 DEF WorkerHolds, AnswerHolds
    <3>2. row \in OperationRows
      BY <1>0, <2>2 DEF OperationRows, OperationStatus
    <3>. QED BY <1>0, <1>4, <2>4, <3>1, <3>2, SettleStep DEF SettleSubmission, OperationRows
  <2>5. ASSUME NEW reference \in {0, work.sale}, NEW confirmation \in {0, work.sale},
               reference = 0 \/ TheSale(work.sale), confirmation = 0 \/ TheSale(work.sale),
               Settle(w, AmbiguousRow(reference, confirmation), "AMBIGUOUS")
        PROVE  SupplierInv'
    <3>1. /\ AmbiguousRow(reference, confirmation) \in OperationRows
          /\ AmbiguousRow(reference, confirmation).status = "AMBIGUOUS"
          /\ AmbiguousRow(reference, confirmation).count = supplierOp.count
          /\ AmbiguousRow(reference, confirmation).reference = reference
          /\ AmbiguousRow(reference, confirmation).confirmation = confirmation
      BY <1>0, <2>2 DEF AmbiguousRow, OperationRows, OperationStatus
    <3>2. TheSale(reference) /\ TheSale(confirmation)
      BY <1>0, <2>5
    <3>. QED BY <2>5, <3>1, <3>2, SettleStep
  <2>6. CASE work.phase = "ANSWERED" /\ work.answer = "NO_CONFIRMATION"
    <3>1. TheSale(work.sale)
      BY <1>0, <2>1, <2>3, <2>6 DEF WorkerHolds, AnswerHolds
    <3>. QED BY <1>4, <2>5, <2>6, <3>1 DEF SettleSubmission
  <2>7. CASE work.phase = "STAGED" \/ (work.phase = "ANSWERED" /\ work.answer = "NO_RECOVERY")
    <3>1. TheSale(work.sale)
      BY <1>0, <2>1, <2>3, <2>7 DEF WorkerHolds, AnswerHolds
    <3>. QED BY <1>4, <2>5, <2>7, <3>1 DEF SettleSubmission
  <2>8. CASE work.phase = "ANSWERED" /\ work.answer = "UNCERTAIN"
    BY <1>4, <2>5, <2>8 DEF SettleSubmission
  <2>. QED BY <1>4, <2>4, <2>6, <2>7, <2>8 DEF SettleSubmission
<1>. QED BY <1>2, <1>3, <1>4

\* A reconciliation names the stored locator; a recovery write the stored confirmation.
LEMMA RecoverySettlementSteps ==
    ASSUME SupplierInv, NEW w \in SupplierWorkers, SettleReconciliation(w) \/ SettleRecoveryWrite(w)
    PROVE  SupplierInv'
<1>. DEFINE work == supplierWork[w]
            op == supplierOp
            confirmed(recovery) == [op EXCEPT !.status = "CONFIRMED", !.reference = work.sale,
                                              !.confirmation = work.sale, !.recovery = recovery,
                                              !.retryable = FALSE]
            unsure(reference, retryable) ==
                [op EXCEPT !.status = "AMBIGUOUS", !.reference = reference, !.retryable = retryable]
<1>0. /\ work \in WorkRows /\ op \in OperationRows /\ WorkerHolds(w) /\ 0 \in Sequences0
      /\ TheSale(0) /\ TheSale(op.reference) /\ TheSale(op.confirmation)
  BY SupplierAssumption DEF SupplierInv, SupplierTypeOK, WorkersHold, Sequences0, TheSale,
       OperationInv, RowNamesSale
<1>1. ASSUME NEW recovery \in Sequences0, TheSale(work.sale), NEW status \in {"SUCCEEDED"},
             Settle(w, confirmed(recovery), status)
      PROVE  SupplierInv'
  <2>1. /\ confirmed(recovery) \in OperationRows /\ confirmed(recovery).count = op.count
        /\ confirmed(recovery).status = "CONFIRMED"
        /\ confirmed(recovery).reference = work.sale /\ confirmed(recovery).confirmation = work.sale
    BY <1>0 DEF OperationRows, OperationStatus, WorkRows
  <2>. QED BY <1>1, <2>1, SettleStep
<1>2. ASSUME NEW reference \in Sequences0, TheSale(reference), NEW retryable \in BOOLEAN,
             NEW status \in {"AMBIGUOUS", "FAILED"}, Settle(w, unsure(reference, retryable), status)
      PROVE  SupplierInv'
  <2>1. /\ unsure(reference, retryable) \in OperationRows
        /\ unsure(reference, retryable).count = op.count
        /\ unsure(reference, retryable).status = "AMBIGUOUS"
        /\ unsure(reference, retryable).reference = reference
        /\ unsure(reference, retryable).confirmation = op.confirmation
    BY <1>0 DEF OperationRows, OperationStatus
  <2>. QED BY <1>0, <1>2, <2>1, SettleStep
<1>3. \A reference \in Sequences0 : AmbiguousRow(reference, op.confirmation) = unsure(reference, FALSE)
  BY <1>0 DEF AmbiguousRow, OperationRows
<1>4. CASE SettleReconciliation(w)
  <2>1. CASE work.answer = "FOUND" /\ op.confirmation \in {0, work.sale}
    <3>1. op.reference = work.sale
      BY <1>4, <2>1 DEF SettleReconciliation
    <3>2. [op EXCEPT !.status = "CONFIRMED", !.reference = work.sale, !.confirmation = work.sale,
                     !.retryable = FALSE] = confirmed(op.recovery)
      BY <1>0 DEF OperationRows
    <3>3. Settle(w, confirmed(op.recovery), "SUCCEEDED")
      BY <1>4, <2>1, <3>2 DEF SettleReconciliation
    <3>4. op.recovery \in Sequences0 /\ TheSale(work.sale)
      BY <1>0, <3>1 DEF OperationRows
    <3>. QED BY <1>1, <3>3, <3>4
  <2>2. CASE work.answer = "NOT_FOUND" /\ op.confirmation = 0
    <3>. DEFINE row == [op EXCEPT !.status = "PREPARED", !.reference = 0, !.confirmation = 0,
                                  !.retryable = FALSE]
    <3>1. Settle(w, row, "NOT_FOUND") /\ op.reference = work.sale /\ work.phase \in {"CLAIMED", "ANSWERED"}
          /\ op.status = "RECONCILING"
      BY <1>4, <2>2 DEF SettleReconciliation, Settle, Current, InFlight
    <3>2. work.kind = "RECONCILE"
      BY <1>4 DEF SettleReconciliation
    <3>3. row \in OperationRows /\ row.count = op.count /\ row.status = "PREPARED"
          /\ row.reference = 0 /\ row.confirmation = 0
      BY <1>0 DEF OperationRows, OperationStatus
    <3>4. work.phase = "ANSWERED"
      BY <1>0, <2>2, <3>1 DEF WorkerHolds, AnswerHolds
    <3>5. work.sale \in Attempts /\ supplierSales[work.sale] = "CANCELLED"
      BY <1>0, <2>2, <3>4 DEF WorkerHolds, AnswerHolds, Holds
    <3>6. \A n \in Attempts : Pending(n) => n = work.sale
      BY <1>0, <3>1, <3>5 DEF TheSale, Attempts
    <3>7. \A n \in Attempts : ~Pending(n)
      BY <3>5, <3>6 DEF Pending
    <3>. QED BY <1>0, <3>1, <3>3, <3>7, SettleStep
  <2>3. CASE Settle(w, AmbiguousRow(op.reference, op.confirmation), "AMBIGUOUS")
    <3>1. op.reference \in Sequences0
      BY <1>0 DEF OperationRows
    <3>. QED BY <1>0, <1>2, <1>3, <2>3, <3>1
  <2>. QED BY <1>4, <2>1, <2>2, <2>3 DEF SettleReconciliation
<1>5. CASE SettleRecoveryWrite(w)
  <2>1. CASE work.phase = "ANSWERED" /\ work.answer = "CONFIRMED"
    <3>1. /\ op.confirmation = work.sale
          /\ Settle(w, [op EXCEPT !.status = "CONFIRMED", !.reference = work.sale,
                                  !.recovery = 0, !.retryable = FALSE], "SUCCEEDED")
      BY <1>5, <2>1 DEF SettleRecoveryWrite
    <3>2. [op EXCEPT !.status = "CONFIRMED", !.reference = work.sale, !.recovery = 0,
                     !.retryable = FALSE] = confirmed(0)
      BY <1>0, <3>1 DEF OperationRows
    <3>. QED BY <1>0, <1>1, <3>1, <3>2
  <2>2. CASE Settle(w, AmbiguousRow(0, op.confirmation), "AMBIGUOUS")
    BY <1>0, <1>2, <1>3, <2>2
  <2>3. ASSUME NEW retryable \in BOOLEAN,
               Settle(w, [AmbiguousRow(0, op.confirmation) EXCEPT !.retryable = retryable], "FAILED")
        PROVE  SupplierInv'
    <3>1. [AmbiguousRow(0, op.confirmation) EXCEPT !.retryable = retryable] = unsure(0, retryable)
      BY <1>0 DEF AmbiguousRow, OperationRows
    <3>. QED BY <1>0, <1>2, <2>3, <3>1
  <2>. QED BY <1>5, <2>1, <2>2, <2>3 DEF SettleRecoveryWrite
<1>. QED BY <1>4, <1>5

\* Steps of one worker, or of staff, that end nothing and let nothing go.
LEMMA QuietSteps ==
    ASSUME SupplierInv,
           \/ AcceptReview
           \/ \E w \in SupplierWorkers : ReadAcceptedReview(w) \/ AnswerRequest(w) \/ EndWork(w)
    PROVE  SupplierInv'
<1>1. CASE AcceptReview
  <2>. DEFINE row == [supplierOp EXCEPT !.accepted = TRUE]
  <2>1. /\ supplierOp' = row /\ RowAllowed(row)
        /\ UNCHANGED <<supplierAttempt, supplierWork, supplierSales>>
    BY <1>1 DEF AcceptReview, SaveOperation
  <2>2. /\ row \in OperationRows /\ row.status = supplierOp.status /\ row.count = supplierOp.count
        /\ row.reference = supplierOp.reference /\ row.confirmation = supplierOp.confirmation
    BY DEF SupplierInv, SupplierTypeOK, OperationRows
  <2>. HIDE DEF row
  <2>3. SupplierTypeOK'
    BY <2>1, <2>2 DEF SupplierInv, SupplierTypeOK
  <2>4. OperationInv'
    BY <2>1, <2>2 DEF SupplierInv, OperationInv, LaterUnsold, QuietUnsold, CreateAlone, RowNamesSale,
         TheSale, Made, Pending, ConfirmedNamesBoth, OperationRowFits, SoldOnce
  <2>5. WorkersHold' /\ BuyersDiffer'
    BY <2>1, <2>2 DEF SupplierInv, WorkersHold, WorkerHolds, AnswerHolds, BuyersDiffer, Buys, Holds, Made
  <2>. QED BY <2>3, <2>4, <2>5 DEF SupplierInv
<1>2. ASSUME NEW w \in SupplierWorkers, NEW work \in WorkRows,
             supplierWork' = [supplierWork EXCEPT ![w] = work],
             UNCHANGED <<supplierOp, supplierAttempt, supplierSales>>,
             WorkerHolds(w)', Buys(w)' => Buys(w) /\ work.attempt = supplierWork[w].attempt
      PROVE  SupplierInv'
  <2>1. SupplierTypeOK' /\ OperationInv'
    BY <1>2, OperationFrame DEF SupplierInv, SupplierTypeOK
  <2>2. ASSUME NEW v \in SupplierWorkers, v # w
        PROVE  supplierWork'[v] = supplierWork[v] /\ WorkerHolds(v)'
    <3>1. supplierWork'[v] = supplierWork[v]
      BY <1>2, <2>2 DEF SupplierInv, SupplierTypeOK
    <3>2. SalesMove(v) /\ supplierOp.count <= supplierOp'.count
      BY <1>2, SupplierAssumption DEF SalesMove, SupplierInv, SupplierTypeOK, OperationRows, Sequences0
    <3>. QED BY <2>1, <3>1, <3>2, WorkerFrame DEF SupplierInv, WorkersHold
  <2>3. supplierWork'[w] = work
    BY <1>2 DEF SupplierInv, SupplierTypeOK
  <2>4. BuyersDiffer'
    BY <1>2, <2>2, <2>3 DEF SupplierInv, BuyersDiffer, Buys, Holds
  <2>. QED BY <1>2, <2>1, <2>2, <2>4 DEF SupplierInv, WorkersHold
<1>3. ASSUME NEW w \in SupplierWorkers, ReadAcceptedReview(w)
      PROVE  SupplierInv'
  <2>. DEFINE work == [IdleWork EXCEPT !.phase = "CLAIMED", !.kind = "REVIEWED",
                                       !.attempt = supplierOp.count]
  <2>1. /\ supplierWork' = [supplierWork EXCEPT ![w] = work]
        /\ UNCHANGED <<supplierOp, supplierAttempt, supplierSales>>
    BY <1>3 DEF ReadAcceptedReview, SetWork
  <2>2. /\ work \in WorkRows /\ work.phase = "CLAIMED" /\ work.kind = "REVIEWED"
        /\ work.answer = "NONE"
    <3>1. supplierOp.count \in Sequences0 /\ 0 \in Sequences0
      BY SupplierAssumption DEF Sequences0, SupplierInv, SupplierTypeOK, OperationRows
    <3>2. IdleWork \in WorkRows /\ IdleWork.answer = "NONE"
      BY <3>1 DEF IdleWork, WorkRows, Answers
    <3>. QED BY <3>1, <3>2 DEF WorkRows
  <2>3. supplierWork'[w] = work
    BY <2>1 DEF SupplierInv, SupplierTypeOK
  <2>. HIDE DEF work
  <2>4. WorkerHolds(w)' /\ ~Buys(w)'
    BY <2>2, <2>3 DEF WorkerHolds, AnswerHolds, Holds, Buys
  <2>. QED BY <1>2, <2>1, <2>2, <2>4
<1>4. ASSUME NEW w \in SupplierWorkers, EndWork(w)
      PROVE  SupplierInv'
  <2>1. IdleWork \in WorkRows
    BY SupplierAssumption DEF IdleWork, WorkRows, Sequences0, Answers
  <2>2. supplierWork'[w] = IdleWork
    BY <1>4 DEF EndWork, SetWork, SupplierInv, SupplierTypeOK
  <2>. QED BY <1>2, <1>4, <2>1, <2>2, IdleHolds DEF EndWork, SetWork
<1>5. ASSUME NEW w \in SupplierWorkers, AnswerRequest(w)
      PROVE  SupplierInv'
  <2>. DEFINE sent == supplierWork[w]
              sold == supplierSales[sent.sale]
  <2>1. PICK answer \in AnswersTo(sent.kind, sold) :
          supplierWork' = [supplierWork EXCEPT ![w] = [sent EXCEPT !.phase = "ANSWERED", !.answer = answer]]
    BY <1>5 DEF AnswerRequest, SetWork
  <2>. DEFINE work == [sent EXCEPT !.phase = "ANSWERED", !.answer = answer]
  <2>2. sent \in WorkRows /\ sent.phase = "SENT"
    BY <1>5 DEF AnswerRequest, SupplierInv, SupplierTypeOK
  <2>3. answer \in Answers /\ answer # "NONE"
    BY DEF AnswersTo, Answers
  <2>4. /\ work \in WorkRows /\ work.phase = "ANSWERED" /\ work.kind = sent.kind
        /\ work.attempt = sent.attempt /\ work.sale = sent.sale /\ work.answer = answer
    BY <2>2, <2>3 DEF WorkRows
  <2>5. supplierWork'[w] = work
    BY <2>1 DEF SupplierInv, SupplierTypeOK
  <2>6. UNCHANGED <<supplierOp, supplierAttempt, supplierSales>>
    BY <1>5 DEF AnswerRequest
  <2>. HIDE DEF work
  <2>7. /\ answer \in {"CONFIRMED", "NO_CONFIRMATION", "NO_LOCATOR", "NO_RECOVERY"} /\ Posts(sent.kind) =>
               sold \in {"ACTIVE", "CANCELLED"}
        /\ answer \in {"NO_CONFIRMATION", "NO_LOCATOR", "NO_RECOVERY"} => Posts(sent.kind)
        /\ answer \in {"RETRYABLE", "REFUSED", "REVIEW"} => Posts(sent.kind) /\ sold = "REFUSED"
        /\ answer = "NOT_FOUND" => sold = "CANCELLED"
    BY DEF AnswersTo, Posts
  <2>8. Holds(w) /\ (Holds(w))' /\ Buys(w)' = Buys(w)
    BY <2>2, <2>4, <2>5 DEF Holds, Buys
  <2>9. WorkerHolds(w)'
    BY <2>4, <2>5, <2>6, <2>7, <2>8 DEF SupplierInv, WorkersHold, WorkerHolds, AnswerHolds, Made
  <2>. QED BY <1>2, <2>1, <2>4, <2>6, <2>8, <2>9 DEF work
<1>. QED BY <1>1, <1>3, <1>4, <1>5

\* A request is let go: one that buys does so when nothing is pending and no row names a sale.
LEMMA SendStep ==
    ASSUME SupplierInv, NEW w \in SupplierWorkers, NEW row \in OperationRows,
           NEW attempt \in AttemptRows, NEW work \in WorkRows,
           supplierOp' = row, supplierAttempt' = attempt, SendRequest(w, work),
           RowAllowed(row), attempt.marked, work.phase = "CLAIMED",
           work.sale \in Attempts, work.attempt \in Attempts, work.attempt <= row.count,
           ~Posts(work.kind) => /\ row = supplierOp /\ attempt.kind = supplierAttempt.kind
                                /\ attempt.kind # "CREATE",
           Posts(work.kind) =>
             /\ work.sale = row.count /\ work.attempt = row.count /\ supplierOp.count <= row.count
             /\ row.status = "SUBMITTING" /\ row.reference = 0 /\ row.confirmation = 0
             /\ supplierSales[work.sale] = "NONE"
             /\ \A n \in Attempts : ~Pending(n)
             /\ \A v \in SupplierWorkers : Buys(v) /\ v # w => supplierWork[v].attempt # work.attempt
    PROVE  SupplierInv'
<1>. DEFINE sent == [work EXCEPT !.phase = "SENT"]
<1>1. /\ sent \in WorkRows /\ sent.phase = "SENT" /\ sent.kind = work.kind
      /\ sent.sale = work.sale /\ sent.attempt = work.attempt
  BY DEF WorkRows
<1>2. supplierWork' = [supplierWork EXCEPT ![w] = sent]
  BY DEF SendRequest, SetWork
<1>. HIDE DEF sent
<1>3. /\ supplierWork'[w] = sent
      /\ \A v \in SupplierWorkers : v # w => supplierWork'[v] = supplierWork[v]
  BY <1>2 DEF SupplierInv, SupplierTypeOK
<1>4. supplierSales' = IF Posts(work.kind) THEN [supplierSales EXCEPT ![work.sale] = "OPEN"]
                                           ELSE supplierSales
  BY DEF SendRequest
<1>5. /\ Posts(work.kind) => /\ supplierSales'[work.sale] = "OPEN"
                             /\ \A n \in Attempts : n # work.sale => supplierSales'[n] = supplierSales[n]
      /\ ~Posts(work.kind) => supplierSales' = supplierSales
  BY <1>4 DEF SupplierInv, SupplierTypeOK, Attempts
<1>6. SupplierTypeOK'
  <2>1. supplierSales' \in [1..MaxSupplierAttempts -> SaleStates]
    BY <1>4 DEF SupplierInv, SupplierTypeOK, SaleStates
  <2>. QED BY <1>1, <1>2, <2>1 DEF SupplierInv, SupplierTypeOK
<1>7. OperationInv'
  <2>1. CASE Posts(work.kind)
    <3>1. \A n \in Attempts : Pending(n)' => n = work.sale
      BY <1>5, <2>1 DEF Pending
    <3>2. LaterUnsold'
      BY <1>5, <2>1, SupplierAssumption DEF LaterUnsold, SupplierInv, OperationInv, SupplierTypeOK,
           OperationRows, Sequences0, Attempts
    <3>3. QuietUnsold' /\ CreateAlone' /\ RowNamesSale' /\ ConfirmedNamesBoth' /\ OperationRowFits'
      BY <2>1, <3>1 DEF QuietUnsold, CreateAlone, RowNamesSale, TheSale, ConfirmedNamesBoth, OperationRowFits
    <3>4. SoldOnce'
      BY <3>1 DEF SoldOnce, Pending, Attempts
    <3>. QED BY <3>2, <3>3, <3>4 DEF OperationInv
  <2>2. CASE ~Posts(work.kind)
    BY <1>5, <2>2 DEF SupplierInv, OperationInv, LaterUnsold, QuietUnsold, CreateAlone, RowNamesSale,
         TheSale, Made, Pending, ConfirmedNamesBoth, OperationRowFits, SoldOnce
  <2>. QED BY <2>1, <2>2
<1>8. ASSUME NEW v \in SupplierWorkers, v # w
      PROVE  WorkerHolds(v)'
  <2>1. WorkerHolds(v)
    BY DEF SupplierInv, WorkersHold
  <2>2. supplierWork[v].phase = "CLAIMED" /\ supplierWork[v].kind = "CREATE" =>
            Buys(v) /\ supplierWork[v].sale = supplierWork[v].attempt
    BY <2>1 DEF WorkerHolds, Buys, Holds, Posts
  <2>3. SalesMove(v)
    BY <1>5, <1>8, <2>2 DEF SalesMove
  <2>4. supplierOp.count <= supplierOp'.count
    BY SupplierAssumption DEF SupplierInv, SupplierTypeOK, OperationRows, Sequences0
  <2>. QED BY <1>3, <1>6, <1>8, <2>1, <2>3, <2>4, WorkerFrame DEF SupplierInv
<1>9. WorkerHolds(w)'
  BY <1>1, <1>3 DEF WorkerHolds, AnswerHolds, Holds, Buys
<1>10. BuyersDiffer'
  <2>1. \A v \in SupplierWorkers : v # w => Buys(v)' = Buys(v)
    BY <1>3 DEF Buys, Holds
  <2>2. Buys(w)' => Posts(work.kind)
    BY <1>1, <1>3 DEF Buys
  <2>. QED BY <1>1, <1>3, <2>1, <2>2 DEF SupplierInv, BuyersDiffer
<1>. QED BY <1>6, <1>7, <1>8, <1>9, <1>10 DEF SupplierInv, WorkersHold

LEMMA RequestSteps ==
    ASSUME SupplierInv, NEW w \in SupplierWorkers, MarkProviderRequest(w) \/ ConsumeReview(w)
    PROVE  SupplierInv'
<1>. DEFINE work == supplierWork[w]
<1>0. /\ work \in WorkRows /\ supplierOp \in OperationRows /\ supplierAttempt \in AttemptRows
      /\ WorkerHolds(w)
  BY DEF SupplierInv, SupplierTypeOK, WorkersHold
<1>1. CASE MarkProviderRequest(w)
  <2>. DEFINE attempt == [supplierAttempt EXCEPT !.marked = TRUE]
  <2>1. /\ work.phase = "CLAIMED" /\ work.kind # "REVIEWED" /\ Current(w)
        /\ ~supplierAttempt.marked /\ supplierAttempt' = attempt /\ supplierOp' = supplierOp
    BY <1>1 DEF MarkProviderRequest
  <2>2. attempt \in AttemptRows /\ attempt.marked /\ attempt.kind = supplierAttempt.kind
    BY <1>0 DEF AttemptRows
  <2>. HIDE DEF attempt
  <2>3. Holds(w) /\ work.sale \in Attempts /\ work.attempt \in Attempts /\ work.attempt <= supplierOp.count
    BY <1>0, <2>1 DEF WorkerHolds, Holds
  <2>4. CASE UNCHANGED <<supplierWork, supplierSales>>
    <3>1. SupplierTypeOK'
      BY <2>1, <2>2, <2>4 DEF SupplierInv, SupplierTypeOK
    <3>2. OperationInv'
      BY <2>1, <2>2, <2>4 DEF SupplierInv, OperationInv, LaterUnsold, QuietUnsold, CreateAlone,
           RowNamesSale, TheSale, Made, Pending, ConfirmedNamesBoth, OperationRowFits, SoldOnce
    <3>3. WorkersHold' /\ BuyersDiffer'
      BY <2>1, <2>4 DEF SupplierInv, WorkersHold, WorkerHolds, AnswerHolds, BuyersDiffer, Buys, Holds, Made
    <3>. QED BY <3>1, <3>2, <3>3 DEF SupplierInv
  <2>5. CASE SendRequest(w, work)
    <3>1. RowAllowed(supplierOp)
      BY DEF SupplierInv, OperationInv, OperationRowFits
    <3>2. CASE Posts(work.kind)
      <4>1. Buys(w) /\ work.kind = "CREATE" /\ work.sale = work.attempt
        BY <1>0, <2>1, <2>3, <3>2 DEF Buys, Posts, WorkerHolds
      <4>2. /\ work.sale = supplierOp.count /\ work.attempt = supplierOp.count
            /\ \A n \in Attempts : ~Pending(n)
        BY <2>1, <4>1, CurrentBuyer
      <4>3. supplierOp.status = "SUBMITTING" /\ supplierAttempt.kind = "CREATE"
        BY <2>1, <4>1 DEF Current, InFlight, AttemptKindOf, Posts
      <4>4. supplierOp.reference = 0 /\ supplierOp.confirmation = 0
        BY <2>1, <4>3 DEF SupplierInv, OperationInv, OperationRowFits, RowAllowed
      <4>5. supplierSales[work.sale] = "NONE"
        BY <1>0, <2>1, <4>1 DEF WorkerHolds
      <4>6. \A v \in SupplierWorkers : Buys(v) /\ v # w => supplierWork[v].attempt # work.attempt
        BY <4>1 DEF SupplierInv, BuyersDiffer
      <4>7. supplierOp.count <= supplierOp.count
        BY <4>2, <2>3 DEF Attempts
      <4>. QED BY <1>0, <2>1, <2>2, <2>3, <2>5, <3>1, <3>2, <4>2, <4>3, <4>4, <4>5, <4>6, <4>7, SendStep
    <3>3. CASE ~Posts(work.kind)
      <4>1. supplierAttempt.kind # "CREATE"
        BY <2>1, <3>3 DEF Current, AttemptKindOf, Posts
      <4>. QED BY <1>0, <2>1, <2>2, <2>3, <2>5, <3>1, <3>3, <4>1, SendStep
    <3>. QED BY <3>2, <3>3
  <2>. QED BY <1>1, <2>4, <2>5 DEF MarkProviderRequest
<1>2. CASE ConsumeReview(w)
  <2>. DEFINE next == supplierOp.count + 1
              row == [supplierOp EXCEPT !.status = "SUBMITTING", !.count = next,
                                        !.retryable = FALSE, !.accepted = FALSE]
              attempt == [kind |-> "CREATE", status |-> "STARTED", marked |-> TRUE]
              second == [work EXCEPT !.attempt = next, !.sale = next]
  <2>1. /\ work.phase = "CLAIMED" /\ work.kind = "REVIEWED" /\ supplierOp.status = "REVIEW_REQUIRED"
        /\ next <= MaxSupplierAttempts /\ RowAllowed(row)
        /\ supplierOp' = row /\ supplierAttempt' = attempt /\ SendRequest(w, second)
    BY <1>2 DEF ConsumeReview, ReviewPending, SaveOperation
  <2>2. next \in Attempts /\ next \in Sequences0 /\ supplierOp.count \in Nat
    BY <1>0, <2>1, SupplierAssumption DEF OperationRows, Sequences0, Attempts
  <2>3. attempt \in AttemptRows /\ attempt.marked
    BY DEF AttemptRows
  <2>4. /\ row \in OperationRows /\ row.status = "SUBMITTING" /\ row.count = next
        /\ row.reference = supplierOp.reference /\ row.confirmation = supplierOp.confirmation
    <3>. HIDE DEF next
    <3>. QED BY <1>0, <2>2 DEF OperationRows, OperationStatus
  <2>5. /\ second \in WorkRows /\ second.phase = "CLAIMED" /\ second.kind = "REVIEWED"
        /\ second.attempt = next /\ second.sale = next
    <3>. HIDE DEF next
    <3>. QED BY <1>0, <2>1, <2>2 DEF WorkRows
  <2>6. supplierOp.reference = 0 /\ supplierOp.confirmation = 0 /\ \A n \in Attempts : ~Pending(n)
    BY <2>1 DEF SupplierInv, OperationInv, OperationRowFits, RowAllowed, QuietUnsold
  <2>7. supplierSales[next] = "NONE"
    BY <2>2 DEF SupplierInv, OperationInv, LaterUnsold
  <2>8. \A v \in SupplierWorkers : Buys(v) => supplierWork[v].attempt # next
    BY <2>2 DEF SupplierInv, WorkersHold, WorkerHolds, Buys, Attempts
  <2>9. supplierOp.count <= next /\ next <= next
    BY <2>2
  <2>. HIDE DEF next, row, attempt, second
  <2>10. Posts(second.kind)
    BY <2>5 DEF Posts
  <2>. QED BY <2>1, <2>2, <2>3, <2>4, <2>5, <2>6, <2>7, <2>8, <2>9, <2>10, SendStep
<1>. QED BY <1>1, <1>2

\* Evidence is stored only by the worker of the current create, whose sale is then the only one.
LEMMA StageStep ==
    ASSUME SupplierInv, NEW w \in SupplierWorkers, StageRecovery(w)
    PROVE  SupplierInv'
<1>. DEFINE work == supplierWork[w]
<1>0. /\ work \in WorkRows /\ supplierOp \in OperationRows /\ WorkerHolds(w)
      /\ work.phase = "ANSWERED" /\ work.answer = "NO_LOCATOR"
      /\ UNCHANGED <<supplierAttempt, supplierSales>>
  BY DEF SupplierInv, SupplierTypeOK, WorkersHold, StageRecovery
<1>1. Buys(w) /\ Made(work.sale) /\ work.sale \in Attempts
  BY <1>0 DEF WorkerHolds, AnswerHolds, Buys, Holds
<1>2. PICK next \in WorkRows :
        /\ supplierWork' = [supplierWork EXCEPT ![w] = next]
        /\ next.phase = "STAGED" \/ (next.phase = "ANSWERED" /\ next.answer = "UNCERTAIN")
        /\ next.kind = work.kind /\ next.attempt = work.attempt /\ next.sale = work.sale
  <2>1. ASSUME NEW phase \in {"STAGED", "ANSWERED"}, NEW answer \in Answers
        PROVE  /\ [work EXCEPT !.phase = phase] \in WorkRows
               /\ [work EXCEPT !.answer = answer] \in WorkRows
    BY <1>0 DEF WorkRows
  <2>2. "UNCERTAIN" \in Answers
    BY DEF Answers
  <2>3. CASE SetWork(w, [work EXCEPT !.phase = "STAGED"])
    BY <1>0, <2>1, <2>2, <2>3 DEF SetWork, WorkRows
  <2>4. CASE SetWork(w, [work EXCEPT !.answer = "UNCERTAIN"])
    BY <1>0, <2>1, <2>2, <2>4 DEF SetWork, WorkRows
  <2>. QED BY <2>3, <2>4 DEF StageRecovery
<1>3. /\ supplierOp' \in OperationRows /\ supplierOp'.count = supplierOp.count
      /\ OperationInv'
  <2>1. CASE UNCHANGED supplierOp
    BY <1>0, <2>1, OperationFrame DEF SupplierInv
  <2>2. CASE /\ Current(w) /\ supplierAttempt.marked /\ supplierOp.reference = 0
             /\ SaveOperation([supplierOp EXCEPT !.confirmation = work.sale, !.recovery = work.sale])
    <3>. DEFINE row == [supplierOp EXCEPT !.confirmation = work.sale, !.recovery = work.sale]
    <3>1. supplierOp' = row /\ RowAllowed(row)
      BY <2>2 DEF SaveOperation
    <3>2. /\ row \in OperationRows /\ row.status = supplierOp.status /\ row.count = supplierOp.count
          /\ row.reference = supplierOp.reference /\ row.confirmation = work.sale
      BY <1>0 DEF OperationRows, WorkRows
    <3>. HIDE DEF row
    <3>3. TheSale(work.sale)
      BY <1>1, <2>2, CurrentBuyer DEF TheSale
    <3>4. supplierOp.status = "SUBMITTING"
      BY <1>1, <2>2 DEF Current, InFlight, Buys, Posts
    <3>5. RowNamesSale'
      BY <1>0, <2>2, <3>1, <3>2, <3>3 DEF RowNamesSale, TheSale, Made, Pending
    <3>6. LaterUnsold' /\ QuietUnsold' /\ CreateAlone' /\ ConfirmedNamesBoth' /\ OperationRowFits' /\ SoldOnce'
      BY <1>0, <2>2, <3>1, <3>2, <3>4 DEF SupplierInv, OperationInv, LaterUnsold, QuietUnsold,
           CreateAlone, Pending, ConfirmedNamesBoth, OperationRowFits, SoldOnce
    <3>. QED BY <3>1, <3>2, <3>5, <3>6 DEF OperationInv
  <2>. QED BY <1>0, <2>1, <2>2 DEF StageRecovery
<1>4. SupplierTypeOK'
  BY <1>0, <1>2, <1>3 DEF SupplierInv, SupplierTypeOK
<1>5. /\ supplierWork'[w] = next
      /\ \A v \in SupplierWorkers : v # w => supplierWork'[v] = supplierWork[v]
  BY <1>2 DEF SupplierInv, SupplierTypeOK
<1>6. ASSUME NEW v \in SupplierWorkers, v # w
      PROVE  WorkerHolds(v)'
  <2>1. SalesMove(v) /\ supplierOp.count <= supplierOp'.count
    BY <1>0, <1>3, SupplierAssumption DEF SalesMove, OperationRows, Sequences0
  <2>. QED BY <1>4, <1>5, <1>6, <2>1, WorkerFrame DEF SupplierInv, WorkersHold
<1>7. WorkerHolds(w)' /\ (Buys(w)' => Buys(w))
  BY <1>0, <1>1, <1>2, <1>3, <1>5 DEF WorkerHolds, AnswerHolds, Holds, Buys, Made
<1>8. BuyersDiffer'
  <2>1. \A v \in SupplierWorkers : Buys(v)' => Buys(v) /\ supplierWork'[v].attempt = supplierWork[v].attempt
    BY <1>2, <1>5, <1>7 DEF Buys, Holds
  <2>. QED BY <2>1 DEF SupplierInv, BuyersDiffer
<1>. QED BY <1>3, <1>4, <1>6, <1>7, <1>8 DEF SupplierInv, WorkersHold

LEMMA SupplierSteps ==
    ASSUME SupplierInv, NEW n \in Attempts, SupplierDecides(n)
    PROVE  SupplierInv'
<1>1. UNCHANGED <<supplierOp, supplierAttempt, supplierWork>>
  BY DEF SupplierDecides
<1>2. /\ supplierSales' \in [1..MaxSupplierAttempts -> SaleStates]
      /\ \A m \in Attempts : m # n => supplierSales'[m] = supplierSales[m]
      /\ \/ supplierSales[n] = "OPEN" /\ supplierSales'[n] \in {"ACTIVE", "REFUSED"}
         \/ supplierSales[n] = "ACTIVE" /\ supplierSales'[n] = "CANCELLED"
  BY DEF SupplierDecides, SupplierInv, SupplierTypeOK, Attempts, SaleStates
<1>3. SupplierTypeOK'
  BY <1>1, <1>2 DEF SupplierInv, SupplierTypeOK
<1>4. \A m \in Attempts : (Pending(m)' => Pending(m)) /\ (Made(m) => Made(m)')
  BY <1>2 DEF Pending, Made
<1>5. OperationInv'
  <2>1. LaterUnsold' /\ QuietUnsold' /\ CreateAlone' /\ ConfirmedNamesBoth' /\ OperationRowFits'
    BY <1>1, <1>2, <1>4 DEF SupplierInv, OperationInv, LaterUnsold, QuietUnsold, CreateAlone,
         ConfirmedNamesBoth, OperationRowFits
  <2>2. ASSUME NEW x \in Sequences0, TheSale(x)
        PROVE  TheSale(x)'
    BY <1>4, <2>2, SupplierAssumption DEF TheSale, Sequences0, Attempts
  <2>3. RowNamesSale'
    BY <1>1, <2>2 DEF SupplierInv, OperationInv, RowNamesSale, SupplierTypeOK, OperationRows, TheSale, Made, Pending
  <2>4. SoldOnce'
    BY <1>4 DEF SupplierInv, OperationInv, SoldOnce, Pending, Attempts
  <2>. QED BY <2>1, <2>3, <2>4 DEF OperationInv
<1>6. WorkersHold'
  <2>1. \A w \in SupplierWorkers : SalesMove(w)
    BY <1>2 DEF SalesMove
  <2>2. supplierOp.count <= supplierOp'.count
    BY <1>1, SupplierAssumption DEF SupplierInv, SupplierTypeOK, OperationRows, Sequences0
  <2>. QED BY <1>1, <1>3, <2>1, <2>2, WorkerFrame DEF SupplierInv, WorkersHold
<1>7. BuyersDiffer'
  BY <1>1 DEF SupplierInv, BuyersDiffer, Buys, Holds
<1>. QED BY <1>3, <1>5, <1>6, <1>7 DEF SupplierInv

\* An expired create that was not marked has let nothing go.
LEMMA RecoverStaleStep ==
    ASSUME SupplierInv, RecoverStaleAttempt
    PROVE  SupplierInv'
<1>1. PICK row \in OperationRows, attempt \in AttemptRows :
        /\ supplierOp' = row /\ supplierAttempt' = attempt /\ RowAllowed(row)
        /\ row.status = IF ExpiredUnsent THEN "PREPARED" ELSE "AMBIGUOUS"
        /\ row.count = supplierOp.count /\ row.reference = supplierOp.reference
        /\ row.confirmation = supplierOp.confirmation
  <2>. DEFINE retryable == ~supplierAttempt.marked /\ supplierAttempt.kind # "RECONCILE"
              status == IF ExpiredUnsent THEN "PREPARED" ELSE "AMBIGUOUS"
              ended == IF supplierAttempt.marked THEN "AMBIGUOUS" ELSE "FAILED"
  <2>1. retryable \in BOOLEAN /\ status \in OperationStatus
    BY DEF OperationStatus
  <2>2. ended \in {"AMBIGUOUS", "FAILED"}
    OBVIOUS
  <2>3. /\ RowAllowed([supplierOp EXCEPT !.status = status, !.retryable = retryable])
        /\ supplierOp' = [supplierOp EXCEPT !.status = status, !.retryable = retryable]
        /\ supplierAttempt' = [supplierAttempt EXCEPT !.status = ended]
    BY DEF RecoverStaleAttempt, SaveOperation, SaveAttempt
  <2>4. supplierOp \in OperationRows /\ supplierAttempt \in AttemptRows
    BY DEF SupplierInv, SupplierTypeOK
  <2>5. [supplierAttempt EXCEPT !.status = ended] \in AttemptRows
    BY <2>2, <2>4 DEF AttemptRows
  <2>. HIDE DEF retryable, status
  <2>6. /\ [supplierOp EXCEPT !.status = status, !.retryable = retryable] \in OperationRows
        /\ [supplierOp EXCEPT !.status = status, !.retryable = retryable].status = status
        /\ [supplierOp EXCEPT !.status = status, !.retryable = retryable].count = supplierOp.count
        /\ [supplierOp EXCEPT !.status = status, !.retryable = retryable].reference = supplierOp.reference
        /\ [supplierOp EXCEPT !.status = status, !.retryable = retryable].confirmation
             = supplierOp.confirmation
    BY <2>1, <2>4 DEF OperationRows
  <2>. QED BY <2>3, <2>5, <2>6 DEF status
<1>2. UNCHANGED <<supplierWork, supplierSales>>
  BY DEF RecoverStaleAttempt
<1>3. ExpiredUnsent => \A n \in Attempts : ~Pending(n)
  BY DEF RecoverStaleAttempt, ExpiredUnsent, SupplierInv, OperationInv, CreateAlone, OperationRowFits
<1>4. SupplierTypeOK'
  BY <1>1, <1>2 DEF SupplierInv, SupplierTypeOK
<1>5. OperationInv'
  BY <1>1, <1>2, <1>3 DEF SupplierInv, OperationInv, LaterUnsold, QuietUnsold, CreateAlone, RowNamesSale,
       TheSale, Made, Pending, ConfirmedNamesBoth, OperationRowFits, SoldOnce
<1>6. WorkersHold' /\ BuyersDiffer'
  BY <1>1, <1>2 DEF SupplierInv, WorkersHold, WorkerHolds, AnswerHolds, BuyersDiffer, Buys, Holds, Made
<1>. QED BY <1>4, <1>5, <1>6 DEF SupplierInv

----------------------------------------------------------------------------
\* The theorems.

LEMMA SupplierStarts == SupplierInit => SupplierInv
<1>. SUFFICES ASSUME SupplierInit PROVE SupplierInv
  OBVIOUS
<1>1. SupplierTypeOK
  BY SupplierAssumption DEF SupplierInit, SupplierTypeOK, OperationRows, OperationStatus, AttemptRows,
       WorkRows, IdleWork, Sequences0, Answers, SaleStates
<1>2. OperationInv
  BY DEF SupplierInit, OperationInv, LaterUnsold, QuietUnsold, CreateAlone, RowNamesSale, TheSale,
       Pending, ConfirmedNamesBoth, OperationRowFits, RowAllowed, SoldOnce, Attempts
<1>3. WorkersHold /\ BuyersDiffer
  BY DEF SupplierInit, IdleWork, WorkersHold, WorkerHolds, AnswerHolds, BuyersDiffer, Buys, Holds
<1>. QED BY <1>1, <1>2, <1>3 DEF SupplierInv

LEMMA SupplierStep == SupplierInv /\ [SupplierNext]_supplierVars => SupplierInv'
<1>. SUFFICES ASSUME SupplierInv, [SupplierNext]_supplierVars PROVE SupplierInv'
  OBVIOUS
<1>1. ASSUME NEW w \in SupplierWorkers, WorkerStep(w)
      PROVE  SupplierInv'
  BY <1>1, ClaimSteps, RequestSteps, QuietSteps, StageStep, SettlementSteps, RecoverySettlementSteps
     DEF WorkerStep
<1>2. ASSUME NEW n \in 1..MaxSupplierAttempts, SupplierDecides(n)
      PROVE  SupplierInv'
  BY <1>2, SupplierSteps DEF Attempts
<1>3. CASE AcceptReview
  BY <1>3, QuietSteps
<1>4. CASE RecoverStaleAttempt
  BY <1>4, RecoverStaleStep
<1>5. CASE UNCHANGED supplierVars
  <2>1. SupplierTypeOK' /\ OperationInv'
    BY <1>5, OperationFrame DEF supplierVars, SupplierInv, SupplierTypeOK
  <2>2. WorkersHold' /\ BuyersDiffer'
    BY <1>5 DEF supplierVars, SupplierInv, WorkersHold, WorkerHolds, AnswerHolds, BuyersDiffer, Buys,
         Holds, Made
  <2>. QED BY <2>1, <2>2 DEF SupplierInv
<1>. QED BY <1>1, <1>2, <1>3, <1>4, <1>5 DEF SupplierNext

LEMMA SupplierAlways == SupplierSpec => []SupplierInv
BY SupplierStarts, SupplierStep, PTL DEF SupplierSpec

\* The rows, the workers' knowledge and the supplier's sales stay in their types.
THEOREM SupplierTypeCorrect == SupplierSpec => []SupplierTypeOK
<1>1. SupplierInv => SupplierTypeOK
  BY DEF SupplierInv
<1>. QED BY <1>1, SupplierAlways, PTL

\* However many workers outlive their leases, lose answers or repeat failed attempts, at most
\* one request of the operation is a sale that stands or may still become one.
THEOREM BuysOnce == SupplierSpec => []SoldOnce
<1>1. SupplierInv => SoldOnce
  BY DEF SupplierInv, OperationInv
<1>. QED BY <1>1, SupplierAlways, PTL

\* An operation stored as not bought has no sale standing or on its way, and a confirmed one
\* names, by locator and confirmation, a sale the supplier made.
THEOREM OutcomeIsReal == SupplierSpec => []OutcomeIsSupplierTruth
<1>1. SupplierInv => OutcomeIsSupplierTruth
  BY DEF SupplierInv, OperationInv, QuietUnsold, ConfirmedNamesBoth, RowNamesSale, TheSale, Made,
       Pending, Attempts, OutcomeIsSupplierTruth
<1>. QED BY <1>1, SupplierAlways, PTL

----------------------------------------------------------------------------
\* The four services together.

\* A behaviour of the run that checks them is a behaviour of each: a service that has not been
\* chosen stutters, and the two halves of a rental's ledger are steps of the whole one. So what is
\* proved of a service holds of the run for every value of the constants.
LEMMA EachServiceIsOne ==
    Spec => AmendmentsSpec /\ RentalsSpec /\ RentalLedgerSpec /\ SupplierSpec
<1>1. Init => AmendmentsInit /\ RentalsInit /\ RentalLedgerInit /\ SupplierInit
  BY DEF Init
<1>2. ASSUME [Next]_<<service, amendmentVars, rentalVars, ledgerVars, supplierVars>>
      PROVE  /\ [AmendmentsNext]_amendmentVars
             /\ [RentalsNext]_rentalVars
             /\ [RentalLedgerNext]_ledgerVars
             /\ [SupplierNext]_supplierVars
  BY <1>2 DEF Next
<1>. QED
  BY <1>1, <1>2, PTL DEF Spec, AmendmentsSpec, RentalsSpec, RentalLedgerSpec, SupplierSpec

\* The rows of the amendments, of the rentals and their ledger and of the supplier's operation
\* keep their columns, whichever service moves.
THEOREM ServicesTypeCorrect == Spec => []ServicesTypeOK
<1>1. AmendmentsTypeOK /\ RentalsTypeOK /\ RentalLedgerTypeOK /\ SupplierTypeOK => ServicesTypeOK
  BY DEF ServicesTypeOK
<1>. QED
  BY <1>1, EachServiceIsOne, AmendmentsTypeCorrect, RentalTypeCorrect, RentalLedgerTypeCorrect,
     SupplierTypeCorrect, PTL

=============================================================================
