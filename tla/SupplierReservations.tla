------------------------ MODULE SupplierReservations ------------------------
(* One supplier reservation operation: its row, its current attempt, the      *)
(* workers that carry attempts out and the sales the supplier makes.           *)
(*                                                                            *)
(* Every transaction is Serializable and takes the advisory lock of the        *)
(* operation as its first statement, so each is one action; what a worker       *)
(* read before it is kept in its record. Earlier attempts are never STARTED,    *)
(* so only the current one is kept. A sale, its locator, its supplier           *)
(* confirmation and its recovery reference are all named by the sequence of     *)
(* the attempt that posted it; 0 is NULL. Offers, terms, travelers, cards and   *)
(* integrations are refusals the model takes as passed.                         *)
EXTENDS Integers, FiniteSets

CONSTANTS
    SupplierWorkers,     \* processes that may execute attempts
    MaxSupplierAttempts  \* bound on the attempts of the operation

ASSUME SupplierAssumption == MaxSupplierAttempts \in Nat

VARIABLES supplierOp, supplierAttempt, supplierWork, supplierSales
supplierVars == <<supplierOp, supplierAttempt, supplierWork, supplierSales>>

-----------------------------------------------------------------------------
(* Rows *)

OperationStatus ==
    {"PREPARED", "SUBMITTING", "CONFIRMED", "AMBIGUOUS", "RECONCILING", "FAILED",
     "REVIEW_REQUIRED"}
Sequences0 == 0..MaxSupplierAttempts

(* retryable is lastFailureRetryable = true; accepted is reviewAcceptedAt. *)
OperationRows ==
    [status : OperationStatus, count : Sequences0, reference : Sequences0,
     confirmation : Sequences0, recovery : Sequences0, retryable : BOOLEAN,
     accepted : BOOLEAN]

(* marked is providerRequestStartedAt. *)
AttemptRows ==
    [kind : {"NONE", "CREATE", "RECONCILE", "RECOVERY_WRITE"},
     status : {"STARTED", "SUCCEEDED", "FAILED", "AMBIGUOUS", "NOT_FOUND", "REVIEW_REQUIRED"},
     marked : BOOLEAN]

Answers ==
    {"NONE", "UNCERTAIN", "CONFIRMED", "NO_CONFIRMATION", "NO_LOCATOR", "NO_RECOVERY",
     "RETRYABLE", "REFUSED", "REVIEW", "FOUND", "FOUND_INCOMPLETE", "NOT_FOUND"}

(* attempt is the attempt the worker holds (a REVIEWED one: the attempt whose   *)
(* review was accepted); sale is the reference its request is about.            *)
WorkRows ==
    [phase : {"IDLE", "CLAIMED", "SENT", "ANSWERED", "STAGED"},
     kind : {"CREATE", "REVIEWED", "RECONCILE", "RECOVERY_WRITE"},
     attempt : Sequences0, sale : Sequences0, answer : Answers]
IdleWork == [phase |-> "IDLE", kind |-> "CREATE", attempt |-> 0, sale |-> 0, answer |-> "NONE"]

(* OPEN: the request was let go and may still reach the supplier. *)
SaleStates == {"NONE", "OPEN", "ACTIVE", "REFUSED", "CANCELLED"}

SupplierTypeOK ==
    /\ supplierOp \in OperationRows
    /\ supplierAttempt \in AttemptRows
    /\ supplierWork \in [SupplierWorkers -> WorkRows]
    /\ supplierSales \in [1..MaxSupplierAttempts -> SaleStates]

(* The check constraints of the operation's row. *)
RowAllowed(row) ==
    /\ row.status = "CONFIRMED" => row.reference # 0
    /\ row.status \in {"PREPARED", "SUBMITTING", "REVIEW_REQUIRED", "FAILED"} => row.reference = 0
    /\ row.confirmation # 0 =>
           \/ row.status \in {"CONFIRMED", "AMBIGUOUS", "RECONCILING"}
           \/ row.status = "SUBMITTING" /\ row.recovery # 0
    /\ row.recovery # 0 => row.status \in {"SUBMITTING", "AMBIGUOUS"} /\ row.confirmation # 0

SaveOperation(row) == RowAllowed(row) /\ supplierOp' = row
SaveAttempt(status) == supplierAttempt' = [supplierAttempt EXCEPT !.status = status]
SetWork(w, work) == supplierWork' = [supplierWork EXCEPT ![w] = work]

-----------------------------------------------------------------------------
(* Claims: a new attempt, not yet marked *)

StartAttempt(w, kind, status, sale) ==
    LET next == supplierOp.count + 1 IN
    /\ supplierWork[w].phase = "IDLE"
    /\ next <= MaxSupplierAttempts
    /\ SaveOperation([supplierOp EXCEPT !.status = status, !.count = next,
                          !.retryable = IF kind = "RECONCILE" THEN @ ELSE FALSE])
    /\ supplierAttempt' = [kind |-> kind, status |-> "STARTED", marked |-> FALSE]
    /\ SetWork(w, [phase |-> "CLAIMED", kind |-> kind, attempt |-> next,
                   sale |-> IF sale = 0 THEN next ELSE sale, answer |-> "NONE"])
    /\ UNCHANGED supplierSales

CanSubmit ==
    \/ supplierOp.status = "PREPARED"
    \/ supplierOp.status = "FAILED" /\ supplierOp.retryable

ClaimSubmission(w) ==
    /\ CanSubmit
    /\ StartAttempt(w, "CREATE", "SUBMITTING", 0)

ClaimReconciliation(w) ==
    /\ supplierOp.status = "AMBIGUOUS"
    /\ supplierOp.reference # 0
    /\ StartAttempt(w, "RECONCILE", "RECONCILING", supplierOp.reference)

ClaimRecoveryWrite(w) ==
    /\ supplierOp.status = "AMBIGUOUS"
    /\ supplierOp.reference = 0 /\ supplierOp.confirmation # 0 /\ supplierOp.recovery # 0
    /\ supplierAttempt.kind = "RECOVERY_WRITE" =>
           supplierAttempt.status = "FAILED" /\ ~supplierAttempt.marked /\ supplierOp.retryable
    /\ StartAttempt(w, "RECOVERY_WRITE", "SUBMITTING", supplierOp.recovery)

(* Commercial review: staff accept it, a worker reads it, and the acceptance is *)
(* consumed when the second request is let go.                                  *)
ReviewPending ==
    /\ supplierOp.status = "REVIEW_REQUIRED"
    /\ supplierAttempt.kind = "CREATE" /\ supplierAttempt.status = "REVIEW_REQUIRED"
    /\ supplierAttempt.marked

AcceptReview ==
    /\ ReviewPending
    /\ ~supplierOp.accepted
    /\ SaveOperation([supplierOp EXCEPT !.accepted = TRUE])
    /\ UNCHANGED <<supplierAttempt, supplierWork, supplierSales>>

ReadAcceptedReview(w) ==
    /\ supplierWork[w].phase = "IDLE"
    /\ ReviewPending
    /\ supplierOp.accepted
    /\ SetWork(w, [IdleWork EXCEPT !.phase = "CLAIMED", !.kind = "REVIEWED",
                                   !.attempt = supplierOp.count])
    /\ UNCHANGED <<supplierOp, supplierAttempt, supplierSales>>

-----------------------------------------------------------------------------
(* The provider-request boundary *)

InFlight(kind) == IF kind = "RECONCILE" THEN "RECONCILING" ELSE "SUBMITTING"
Posts(kind) == kind \in {"CREATE", "REVIEWED"}
AttemptKindOf(kind) == IF Posts(kind) THEN "CREATE" ELSE kind

(* Mutant: any started attempt of the kind counts as the worker's own. *)
CurrentByStatus(w) ==
    LET work == supplierWork[w] IN
    /\ supplierOp.status = InFlight(work.kind)
    /\ supplierAttempt.kind = AttemptKindOf(work.kind)
    /\ supplierAttempt.status = "STARTED"

Current(w) ==
    LET work == supplierWork[w] IN
    /\ supplierOp.status = InFlight(work.kind)
    /\ supplierAttempt.kind = AttemptKindOf(work.kind)
    /\ supplierAttempt.status = "STARTED"
    /\ work.attempt = supplierOp.count

SendRequest(w, work) ==
    /\ SetWork(w, [work EXCEPT !.phase = "SENT"])
    /\ supplierSales' =
           IF Posts(work.kind) THEN [supplierSales EXCEPT ![work.sale] = "OPEN"] ELSE supplierSales

(* requireFreshProviderRequest: a marked attempt lets no second request go. The *)
(* commit may be lost to the worker, which then sends nothing.                  *)
MarkProviderRequest(w) ==
    /\ supplierWork[w].phase = "CLAIMED" /\ supplierWork[w].kind # "REVIEWED"
    /\ Current(w)
    /\ ~supplierAttempt.marked
    /\ supplierAttempt' = [supplierAttempt EXCEPT !.marked = TRUE]
    /\ \/ SendRequest(w, supplierWork[w])
       \/ UNCHANGED <<supplierWork, supplierSales>>
    /\ UNCHANGED supplierOp

ConsumeReview(w) ==
    LET next == supplierOp.count + 1 IN
    /\ supplierWork[w].phase = "CLAIMED" /\ supplierWork[w].kind = "REVIEWED"
    /\ ReviewPending
    /\ supplierOp.accepted
    /\ supplierWork[w].attempt = supplierOp.count
    /\ next <= MaxSupplierAttempts
    /\ SaveOperation([supplierOp EXCEPT !.status = "SUBMITTING", !.count = next,
                                        !.retryable = FALSE, !.accepted = FALSE])
    /\ supplierAttempt' = [kind |-> "CREATE", status |-> "STARTED", marked |-> TRUE]
    /\ SendRequest(w, [supplierWork[w] EXCEPT !.attempt = next, !.sale = next])

-----------------------------------------------------------------------------
(* The supplier *)

SupplierDecides(n) ==
    \/ /\ supplierSales[n] = "OPEN"
       /\ \E state \in {"ACTIVE", "REFUSED"} :
              supplierSales' = [supplierSales EXCEPT ![n] = state]
       /\ UNCHANGED <<supplierOp, supplierAttempt, supplierWork>>
    \/ /\ supplierSales[n] = "ACTIVE"
       /\ supplierSales' = [supplierSales EXCEPT ![n] = "CANCELLED"]
       /\ UNCHANGED <<supplierOp, supplierAttempt, supplierWork>>

(* What a request may be answered; a lost or malformed answer is UNCERTAIN. A   *)
(* Retrieve says NOT_FOUND only of a sale that no longer exists, a Sync         *)
(* confirms only a sale that still does.                                        *)
AnswersTo(kind, state) ==
    {"UNCERTAIN"} \cup
    CASE Posts(kind) /\ state \in {"ACTIVE", "CANCELLED"} ->
             {"CONFIRMED", "NO_CONFIRMATION", "NO_LOCATOR", "NO_RECOVERY"}
      [] Posts(kind) /\ state = "REFUSED" -> {"RETRYABLE", "REFUSED", "REVIEW"}
      [] kind = "RECONCILE" /\ state = "ACTIVE" -> {"FOUND", "FOUND_INCOMPLETE"}
      [] kind = "RECONCILE" /\ state = "CANCELLED" -> {"NOT_FOUND"}
      [] kind = "RECOVERY_WRITE" /\ state = "ACTIVE" -> {"CONFIRMED"}
      [] OTHER -> {}

AnswerRequest(w) ==
    LET work == supplierWork[w] IN
    /\ work.phase = "SENT"
    /\ \E answer \in AnswersTo(work.kind, supplierSales[work.sale]) :
           SetWork(w, [work EXCEPT !.phase = "ANSWERED", !.answer = answer])
    /\ UNCHANGED <<supplierOp, supplierAttempt, supplierSales>>

-----------------------------------------------------------------------------
(* Settlement *)

(* Evidence of a sale without a locator is stored before the settlement. If the *)
(* call fails, or its commit is lost, the outcome is settled without evidence.  *)
StageRecovery(w) ==
    LET work == supplierWork[w] IN
    /\ work.phase = "ANSWERED" /\ work.answer = "NO_LOCATOR"
    /\ \/ /\ Current(w) /\ supplierAttempt.marked
          /\ supplierOp.reference = 0
          /\ supplierOp.confirmation = 0 /\ supplierOp.recovery = 0
          /\ SaveOperation([supplierOp EXCEPT !.confirmation = work.sale, !.recovery = work.sale])
          /\ \/ SetWork(w, [work EXCEPT !.phase = "STAGED"])
             \/ SetWork(w, [work EXCEPT !.answer = "UNCERTAIN"])
       \/ /\ SetWork(w, [work EXCEPT !.answer = "UNCERTAIN"])
          /\ UNCHANGED supplierOp
    /\ UNCHANGED <<supplierAttempt, supplierSales>>

(* The worker's call is over: settled, refused as no longer current, or crashed. *)
EndWork(w) ==
    /\ supplierWork[w].phase # "IDLE"
    /\ SetWork(w, IdleWork)
    /\ UNCHANGED <<supplierOp, supplierAttempt, supplierSales>>

Settle(w, row, status) ==
    /\ Current(w)
    /\ SaveOperation(row)
    /\ SaveAttempt(status)
    /\ SetWork(w, IdleWork)
    /\ UNCHANGED supplierSales

AmbiguousRow(reference, confirmation) ==
    [supplierOp EXCEPT !.status = "AMBIGUOUS", !.reference = reference,
                       !.confirmation = confirmation, !.retryable = FALSE]

(* A failure before the request is retryable or not; after it, and for a        *)
(* reviewed request, a refusal is what the supplier's code says or final.       *)
FailSubmission(w) ==
    LET work == supplierWork[w]
        refused(retryable) ==
            [supplierOp EXCEPT !.status = "FAILED", !.reference = 0, !.confirmation = 0,
                               !.retryable = retryable]
    IN
    \/ /\ work.phase = "CLAIMED" /\ work.kind = "CREATE"
       /\ \E retryable \in BOOLEAN : Settle(w, refused(retryable), "FAILED")
    \/ /\ work.phase = "ANSWERED" /\ work.answer \in {"RETRYABLE", "REFUSED"}
       /\ Settle(w, refused(work.answer = "RETRYABLE" /\ work.kind = "CREATE"), "FAILED")

(* A locator without a supplier confirmation is not a confirmation. *)
SettleSubmission(w) ==
    LET work == supplierWork[w] IN
    /\ Posts(work.kind) /\ supplierAttempt.marked
    /\ \/ /\ work.phase = "ANSWERED" /\ work.answer = "CONFIRMED"
          /\ Settle(w, [supplierOp EXCEPT !.status = "CONFIRMED", !.reference = work.sale,
                            !.confirmation = work.sale, !.retryable = FALSE], "SUCCEEDED")
       \/ /\ work.phase = "ANSWERED" /\ work.answer = "NO_CONFIRMATION"
          /\ Settle(w, AmbiguousRow(work.sale, 0), "AMBIGUOUS")
       \/ /\ work.phase = "STAGED" \/ (work.phase = "ANSWERED" /\ work.answer = "NO_RECOVERY")
          /\ Settle(w, AmbiguousRow(0, work.sale), "AMBIGUOUS")
       \/ /\ work.phase = "ANSWERED" /\ work.answer = "UNCERTAIN"
          /\ Settle(w, AmbiguousRow(0, 0), "AMBIGUOUS")

SettleReview(w) ==
    LET work == supplierWork[w] IN
    /\ work.phase = "ANSWERED" /\ work.answer = "REVIEW"
    /\ supplierAttempt.marked
    /\ Settle(w, [supplierOp EXCEPT !.status = "REVIEW_REQUIRED", !.reference = 0,
                      !.confirmation = 0, !.recovery = 0, !.retryable = FALSE],
              "REVIEW_REQUIRED")

(* FOUND must carry the stored supplier confirmation, NOT_FOUND must meet none. *)
SettleReconciliation(w) ==
    LET work == supplierWork[w]
        found == /\ work.answer = "FOUND"
                 /\ supplierOp.confirmation \in {0, work.sale}
        absent == work.answer = "NOT_FOUND" /\ supplierOp.confirmation = 0
    IN
    /\ work.kind = "RECONCILE" /\ work.phase \in {"CLAIMED", "ANSWERED"}
    /\ found \/ absent => supplierAttempt.marked /\ supplierOp.reference = work.sale
    /\ CASE found ->
             Settle(w, [supplierOp EXCEPT !.status = "CONFIRMED", !.reference = work.sale,
                            !.confirmation = work.sale, !.retryable = FALSE], "SUCCEEDED")
         [] absent ->
             Settle(w, [supplierOp EXCEPT !.status = "PREPARED", !.reference = 0,
                            !.confirmation = 0, !.retryable = FALSE], "NOT_FOUND")
         [] OTHER ->
             Settle(w, AmbiguousRow(supplierOp.reference, supplierOp.confirmation), "AMBIGUOUS")

SettleRecoveryWrite(w) ==
    LET work == supplierWork[w] IN
    /\ work.kind = "RECOVERY_WRITE"
    /\ supplierOp.confirmation # 0 /\ supplierOp.recovery # 0
    /\ \/ /\ work.phase = "ANSWERED" /\ work.answer = "CONFIRMED"
          /\ supplierAttempt.marked
          /\ supplierOp.confirmation = work.sale
          /\ Settle(w, [supplierOp EXCEPT !.status = "CONFIRMED", !.reference = work.sale,
                            !.recovery = 0, !.retryable = FALSE], "SUCCEEDED")
       \/ /\ work.phase = "ANSWERED" /\ work.answer = "UNCERTAIN"
          /\ supplierAttempt.marked
          /\ Settle(w, AmbiguousRow(0, supplierOp.confirmation), "AMBIGUOUS")
       \/ /\ work.phase = "CLAIMED"
          /\ \E retryable \in BOOLEAN :
                 /\ retryable => ~supplierAttempt.marked
                 /\ Settle(w, [AmbiguousRow(0, supplierOp.confirmation) EXCEPT
                                   !.retryable = retryable], "FAILED")

-----------------------------------------------------------------------------
(* Leases *)

(* Mutant: an expired create always goes back to PREPARED. *)
ExpiredToPrepared == supplierAttempt.kind = "CREATE"

(* An expired attempt provably sent nothing only if it was not marked. *)
ExpiredUnsent == supplierAttempt.kind = "CREATE" /\ ~supplierAttempt.marked

(* Ten minutes after the claim, or the marker; no worker is stopped by it. *)
RecoverStaleAttempt ==
    /\ supplierOp.status \in {"SUBMITTING", "RECONCILING"}
    /\ supplierAttempt.status = "STARTED"
    /\ SaveOperation([supplierOp EXCEPT
           !.status = IF ExpiredUnsent THEN "PREPARED" ELSE "AMBIGUOUS",
           !.retryable = ~supplierAttempt.marked /\ supplierAttempt.kind # "RECONCILE"])
    /\ SaveAttempt(IF supplierAttempt.marked THEN "AMBIGUOUS" ELSE "FAILED")
    /\ UNCHANGED <<supplierWork, supplierSales>>

-----------------------------------------------------------------------------
SupplierInit ==
    /\ supplierOp = [status |-> "PREPARED", count |-> 0, reference |-> 0, confirmation |-> 0,
                     recovery |-> 0, retryable |-> FALSE, accepted |-> FALSE]
    /\ supplierAttempt = [kind |-> "NONE", status |-> "FAILED", marked |-> FALSE]
    /\ supplierWork = [w \in SupplierWorkers |-> IdleWork]
    /\ supplierSales = [n \in 1..MaxSupplierAttempts |-> "NONE"]

WorkerStep(w) ==
    \/ ClaimSubmission(w)
    \/ ClaimReconciliation(w)
    \/ ClaimRecoveryWrite(w)
    \/ ReadAcceptedReview(w)
    \/ MarkProviderRequest(w)
    \/ ConsumeReview(w)
    \/ AnswerRequest(w)
    \/ StageRecovery(w)
    \/ FailSubmission(w)
    \/ SettleSubmission(w)
    \/ SettleReview(w)
    \/ SettleReconciliation(w)
    \/ SettleRecoveryWrite(w)
    \/ EndWork(w)

SupplierNext ==
    \/ \E w \in SupplierWorkers : WorkerStep(w)
    \/ \E n \in 1..MaxSupplierAttempts : SupplierDecides(n)
    \/ AcceptReview
    \/ RecoverStaleAttempt

SupplierSpec == SupplierInit /\ [][SupplierNext]_supplierVars

-----------------------------------------------------------------------------
(* Properties *)

(* The operation buys once: of all the requests its attempts let go at most one *)
(* is a sale that stands or may still become one, although workers outlive      *)
(* their leases, answers are lost and failed attempts are repeated.             *)
SoldOnce ==
    \A m, n \in 1..MaxSupplierAttempts :
        supplierSales[m] \in {"OPEN", "ACTIVE"} /\ supplierSales[n] \in {"OPEN", "ACTIVE"} => m = n

(* The stored outcome is the supplier's: an operation that says it bought       *)
(* nothing has no sale standing and none on its way, and a confirmed one names  *)
(* a sale that was made, by its locator and by its supplier confirmation.       *)
OutcomeIsSupplierTruth ==
    /\ supplierOp.status \in {"PREPARED", "FAILED", "REVIEW_REQUIRED"} =>
           \A n \in 1..MaxSupplierAttempts : supplierSales[n] \notin {"OPEN", "ACTIVE"}
    /\ supplierOp.status = "CONFIRMED" =>
           /\ supplierSales[supplierOp.reference] \in {"ACTIVE", "CANCELLED"}
           /\ supplierOp.confirmation = supplierOp.reference

=============================================================================
