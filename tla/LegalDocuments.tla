---------------------------- MODULE LegalDocuments ----------------------------
(* The tax invoices of one hospitality booking and the adjustment notes that   *)
(* follow them: one per applied commercial amendment (a chain), and the last   *)
(* one for the cancellation.                                                   *)
(*                                                                            *)
(* A note of an amendment freezes, in a trigger, the payment rows that showed  *)
(* its settlement; every later reader recomputes the settlement of the whole   *)
(* chain from the frozen rows. Staff ask for a note in two transactions: one   *)
(* finds what may be issued, the other issues it. All are Serializable.        *)
(* Documents and payment rows are numbered in the order of their times. Prices *)
(* stand for all their components and fingerprints; tax, recipients, numbers   *)
(* and permissions are refusals or texts the model takes as passed.            *)
EXTENDS Integers, Sequences, FiniteSets, FiniteSetsExt, Functions

CONSTANTS
    BookedPrice,      \* what the customer paid at first
    PriceChanges,     \* price differences of amendments
    MaxPriceChanges,  \* bound: amendments
    MaxInvoices,      \* bound: invoices, one per recipient or price
    MaxBookingRefunds,\* bound: refunds that belong to no amendment
    MaxReturns,       \* bound: refunds the provider returns
    MaxNoteRequests   \* bound: requests between their two transactions

ASSUME LegalAssumption ==
    /\ BookedPrice \in Nat \ {0}
    /\ PriceChanges \subseteq Int \ {0}
    /\ {MaxPriceChanges, MaxInvoices, MaxBookingRefunds, MaxReturns, MaxNoteRequests} \subseteq Nat

VARIABLES legalBooking, legalMoney, changes, documents, noteRequests
legalVars == <<legalBooking, legalMoney, changes, documents, noteRequests>>

-----------------------------------------------------------------------------
(* Rows *)

(* change is the amendment a payment row is linked to, or 0; source the        *)
(* capture a refund returns, 0 for a capture.                                  *)
MoneyRows == [amount : Nat \ {0}, change : Nat, source : Nat,
              status : {"SUCCEEDED", "FAILED"}]

(* issued is the number of documents when the amendment was applied. *)
NotApplied == -1
ChangeRows == [before : Nat \ {0}, after : Nat \ {0}, issued : Nat \cup {NotApplied}]

(* total is the price the document leaves, rows the number of payment rows at  *)
(* its issue, frozen those it froze that had succeeded, refund the refund an   *)
(* unadjusted cancellation names.                                              *)
DocumentRows ==
    [kind : {"INVOICE", "COMMERCIAL_AMENDMENT", "BOOKING_CANCELLATION"},
     invoice : Nat, change : Nat, refund : Nat, total : Nat, rows : Nat,
     frozen : SUBSET (DOMAIN legalMoney)]

(* A note of an amendment, first of its invoice or repeated, or one of the     *)
(* cancellation by its refund.                                                 *)
NoteRequests == [invoice : DOMAIN documents, change : Nat, refund : Nat, repeated : BOOLEAN]

LegalTypeOK ==
    /\ legalBooking \in [status : {"CONFIRMED", "CANCELLED"},
                         paymentStatus : {"PAID", "PARTIALLY_REFUNDED", "REFUNDED"},
                         total : Nat \ {0}]
    /\ legalMoney \in Seq(MoneyRows)
    /\ \A r \in DOMAIN legalMoney :
           /\ legalMoney[r].change \in {0} \cup DOMAIN changes
           /\ legalMoney[r].source # 0 => legalMoney[legalMoney[r].source].source = 0
    /\ changes \in Seq(ChangeRows)
    /\ documents \in Seq(DocumentRows)
    /\ noteRequests \subseteq NoteRequests /\ Cardinality(noteRequests) <= MaxNoteRequests

LegalInit ==
    /\ legalBooking = [status |-> "CONFIRMED", paymentStatus |-> "PAID", total |-> BookedPrice]
    /\ legalMoney = <<[amount |-> BookedPrice, change |-> 0, source |-> 0, status |-> "SUCCEEDED"]>>
    /\ changes = <<>> /\ documents = <<>> /\ noteRequests = {}

-----------------------------------------------------------------------------
(* Money *)

AmountOf(S) == SumFunctionOnSet([r \in DOMAIN legalMoney |-> legalMoney[r].amount], S)
Captures(S) == {r \in S : legalMoney[r].source = 0}
RefundsIn(S) == {r \in S : legalMoney[r].source # 0}
RefundsOf(s, S) == {r \in S : legalMoney[r].source = s}
NetOf(S) == AmountOf(Captures(S)) - AmountOf(RefundsIn(S))
Succeeded == {r \in DOMAIN legalMoney : legalMoney[r].status = "SUCCEEDED"}
LinkedTo(c, S) == {r \in S : legalMoney[r].change = c}
LegalLeft(s) == legalMoney[s].amount - AmountOf(RefundsOf(s, Succeeded))

(* Every refund is attributed to a capture of the same rows, which covers it. *)
SourcesCover(S) ==
    /\ \A r \in RefundsIn(S) : legalMoney[r].source \in S
    /\ \A s \in Captures(S) : AmountOf(RefundsOf(s, S)) <= legalMoney[s].amount

(* The settlement of amendment c is ready by the rows S. *)
SettledBy(c, S) ==
    /\ NetOf(LinkedTo(c, S)) = changes[c].after - changes[c].before
    /\ NetOf(S) = changes[c].after
    /\ SourcesCover(S)

StatusByNet(net) ==
    IF net = 0 THEN "REFUNDED" ELSE IF net = legalBooking.total THEN "PAID" ELSE "PARTIALLY_REFUNDED"

NextSource(s) ==
    LET left == LegalLeft(s) IN
    /\ s \in Captures(DOMAIN legalMoney) /\ left > 0
    /\ \A t \in Captures(DOMAIN legalMoney) \ {s} :
           left > LegalLeft(t) \/ (left = LegalLeft(t) /\ s < t)

Paid(amount, change, source) ==
    legalMoney' = Append(legalMoney, [amount |-> amount, change |-> change, source |-> source,
                                      status |-> "SUCCEEDED"])

-----------------------------------------------------------------------------
(* The booking (HospitalityAmendments and BookingRefunds have its details) *)

OpenChange == \E c \in DOMAIN changes : changes[c].issued = NotApplied

(* An amendment is prepared and its whole difference paid or refunded. *)
SettleChange(delta, source) ==
    LET total == legalBooking.total IN
    /\ Len(changes) < MaxPriceChanges
    /\ legalBooking.status = "CONFIRMED" /\ ~OpenChange
    /\ total + delta > 0 /\ NetOf(Succeeded) = total
    /\ IF delta > 0
          THEN source = 0 /\ Paid(delta, Len(changes) + 1, 0)
          ELSE NextSource(source) /\ -delta <= LegalLeft(source)
                   /\ Paid(-delta, Len(changes) + 1, source)
    /\ changes' = Append(changes, [before |-> total, after |-> total + delta, issued |-> NotApplied])
    /\ UNCHANGED <<legalBooking, documents, noteRequests>>

ApplyChange(c) ==
    /\ legalBooking.status = "CONFIRMED"
    /\ changes[c].issued = NotApplied
    /\ SettledBy(c, Succeeded)
    /\ legalBooking' = [legalBooking EXCEPT !.total = changes[c].after]
    /\ changes' = [changes EXCEPT ![c].issued = Len(documents)]
    /\ UNCHANGED <<legalMoney, documents, noteRequests>>

RefundBooking(amount, source) ==
    /\ legalBooking.status = "CONFIRMED" /\ ~OpenChange
    /\ Cardinality(RefundsIn(LinkedTo(0, DOMAIN legalMoney))) < MaxBookingRefunds
    /\ amount <= LegalLeft(source) /\ NextSource(source)
    /\ legalBooking.paymentStatus = StatusByNet(NetOf(Succeeded))
    /\ Paid(amount, 0, source)
    /\ legalBooking' = [legalBooking EXCEPT !.paymentStatus = StatusByNet(NetOf(Succeeded) - amount)]
    /\ UNCHANGED <<changes, documents, noteRequests>>

(* The provider returns a refund that had succeeded: a refund of the booking   *)
(* moves the booking's status back with it, that of an amendment only its row. *)
ReturnRefund(r) ==
    /\ r \in RefundsIn(Succeeded)
    /\ Cardinality(DOMAIN legalMoney \ Succeeded) < MaxReturns
    /\ legalMoney' = [legalMoney EXCEPT ![r].status = "FAILED"]
    /\ IF legalMoney[r].change = 0
          THEN /\ legalBooking.status = "CONFIRMED" /\ ~OpenChange
               /\ legalBooking.paymentStatus = StatusByNet(NetOf(Succeeded))
               /\ legalBooking' =
                    [legalBooking EXCEPT !.paymentStatus = StatusByNet(NetOf(Succeeded \ {r}))]
          ELSE changes[legalMoney[r].change].issued # NotApplied /\ UNCHANGED legalBooking
    /\ UNCHANGED <<changes, documents, noteRequests>>

CancelLegalBooking ==
    /\ legalBooking.status = "CONFIRMED" /\ ~OpenChange
    /\ legalBooking.paymentStatus = "REFUNDED"
    /\ legalBooking' = [legalBooking EXCEPT !.status = "CANCELLED"]
    /\ UNCHANGED <<legalMoney, changes, documents, noteRequests>>

-----------------------------------------------------------------------------
(* Invoices and their chains *)

Invoices == {d \in DOMAIN documents : documents[d].kind = "INVOICE"}
NotesOn(i) == {d \in DOMAIN documents \ {i} : documents[d].invoice = i}
ChainOn(i) == {d \in NotesOn(i) : documents[d].kind = "COMMERCIAL_AMENDMENT"}
CancelledOn(i) == NotesOn(i) # ChainOn(i)
Documented == {documents[d].change : d \in DOMAIN documents}

(* The document whose price the next note of i, or note d, starts from. *)
Baseline(i) == Max(ChainOn(i) \cup {i})
Predecessor(i, d) == Max({e \in ChainOn(i) \cup {i} : e < d})

(* Amendment c continues the price document d left, and was applied after it. *)
Continues(c, d) ==
    /\ changes[c].before = documents[d].total
    /\ changes[c].issued >= d

(* A chain verifies from what its notes froze, never from what the rows are now. *)
ChainVerifies(i) ==
    \A d \in ChainOn(i) :
        /\ Continues(documents[d].change, Predecessor(i, d))
        /\ SettledBy(documents[d].change, documents[d].frozen)

Issue(kind, i, change, refund, total, frozen) ==
    documents' = Append(documents,
        [kind |-> kind, invoice |-> i, change |-> change, refund |-> refund, total |-> total,
         rows |-> Len(legalMoney), frozen |-> frozen])

(* An invoice is prepared for a recipient and issued at the accepted price,     *)
(* which its issue compares again.                                             *)
IssueInvoice ==
    /\ Cardinality(Invoices) < MaxInvoices
    /\ Issue("INVOICE", Len(documents) + 1, 0, 0, legalBooking.total, {})
    /\ UNCHANGED <<legalBooking, legalMoney, changes, noteRequests>>

-----------------------------------------------------------------------------
(* Notes of amendments *)

Ready(i, c) == Continues(c, Baseline(i)) /\ SettledBy(c, Succeeded)

(* What the first transaction offers: the only amendment that continues. *)
IsNextChange(i, c) ==
    /\ ~CancelledOn(i)
    /\ Ready(i, c)
    /\ \A e \in DOMAIN changes \ {c} : ~Continues(e, Baseline(i))
    /\ ChainVerifies(i)

Request(q) ==
    /\ Cardinality(noteRequests) < MaxNoteRequests
    /\ noteRequests' = noteRequests \cup {q}
    /\ UNCHANGED <<legalBooking, legalMoney, changes, documents>>

RequestNote(i, c) ==
    /\ c \notin Documented
    /\ IsNextChange(i, c)
    /\ Request([invoice |-> i, change |-> c, refund |-> 0, repeated |-> ChainOn(i) # {}])

(* Mutant: the trigger freezes the chain's rows alone. *)
FreezesChainOnly(i, c) ==
    {r \in Succeeded : legalMoney[r].change \in {c} \cup {documents[d].change : d \in ChainOn(i)}}

(* The rows the trigger freezes: those of no amendment and of the chain's. *)
Frozen(i, c) ==
    {r \in Succeeded : legalMoney[r].change \in {0, c} \cup {documents[d].change : d \in ChainOn(i)}}

(* Mutant: the request has looked. *)
FoundByRequest(c) == c \in DOMAIN changes
StillUndocumented(c) == c \notin Documented

EndRequest(q) == noteRequests' = noteRequests \ {q}

(* The second transaction of a note that repeats verifies the chain under its  *)
(* lock, before and after the insert; that of a first note does neither.       *)
IssueNote(q) ==
    LET i == q.invoice
        c == q.change IN
    /\ c # 0 /\ StillUndocumented(c)
    /\ IF q.repeated THEN ChainOn(i) # {} /\ ~CancelledOn(i) /\ ChainVerifies(i)
                     ELSE NotesOn(i) = {}
    /\ Ready(i, c)
    /\ Issue("COMMERCIAL_AMENDMENT", i, c, 0, changes[c].after, Frozen(i, c))
    /\ EndRequest(q)
    /\ UNCHANGED <<legalBooking, legalMoney, changes>>
    /\ q.repeated => ChainVerifies(i)'

-----------------------------------------------------------------------------
(* Notes of the cancellation *)

CancelledAndRefunded == legalBooking.status = "CANCELLED" /\ legalBooking.paymentStatus = "REFUNDED"

(* Refunds of the whole invoice after its issue. *)
FullRefunds(i) ==
    {r \in RefundsIn(LinkedTo(0, Succeeded)) :
        legalMoney[r].amount = documents[i].total /\ r > documents[i].rows}

RequestCancellationNote(i, r) ==
    /\ CancelledAndRefunded /\ NotesOn(i) = {}
    /\ FullRefunds(i) = {r}
    /\ Request([invoice |-> i, change |-> 0, refund |-> r, repeated |-> FALSE])

IssueCancellationNote(q) ==
    /\ q.refund # 0
    /\ \A d \in DOMAIN documents : documents[d].refund # q.refund
    /\ NotesOn(q.invoice) = {}
    /\ CancelledAndRefunded
    /\ q.refund \in FullRefunds(q.invoice)
    /\ Issue("BOOKING_CANCELLATION", q.invoice, 0, q.refund, 0, {})
    /\ EndRequest(q)
    /\ UNCHANGED <<legalBooking, legalMoney, changes>>

(* A request that is refused or fails ends without a note. *)
NoteRequestFails(q) ==
    /\ EndRequest(q)
    /\ UNCHANGED <<legalBooking, legalMoney, changes, documents>>

(* The cancellation of an adjusted invoice: its chain ended with everything    *)
(* settled, and refunds of the booking alone have returned it since.           *)
IssueTerminalNote(i) ==
    LET d == Baseline(i)
        until == {r \in Succeeded : r <= documents[d].rows}
        since == Succeeded \ until IN
    /\ CancelledAndRefunded
    /\ ChainOn(i) # {} /\ ~CancelledOn(i) /\ ChainVerifies(i)
    /\ legalBooking.total = documents[d].total
    /\ SourcesCover(until) /\ NetOf(until) = documents[d].total
    /\ since = RefundsIn(LinkedTo(0, since))
    /\ SourcesCover(Succeeded) /\ NetOf(Succeeded) = 0
    /\ Issue("BOOKING_CANCELLATION", i, 0, 0, 0, {})
    /\ UNCHANGED <<legalBooking, legalMoney, changes, noteRequests>>

-----------------------------------------------------------------------------
(* Next *)

MoneyNext ==
    \/ \E delta \in PriceChanges : \E s \in {0} \cup DOMAIN legalMoney : SettleChange(delta, s)
    \/ \E c \in DOMAIN changes : ApplyChange(c)
    \/ \E amount \in 1..legalBooking.total : \E s \in DOMAIN legalMoney : RefundBooking(amount, s)
    \/ \E r \in DOMAIN legalMoney : ReturnRefund(r)
    \/ CancelLegalBooking

DocumentsNext ==
    \/ IssueInvoice
    \/ \E i \in Invoices :
          \/ \E c \in DOMAIN changes : RequestNote(i, c)
          \/ \E r \in DOMAIN legalMoney : RequestCancellationNote(i, r)
          \/ IssueTerminalNote(i)
    \/ \E q \in noteRequests : IssueNote(q) \/ IssueCancellationNote(q) \/ NoteRequestFails(q)

LegalNext == MoneyNext \/ DocumentsNext

LegalSpec == LegalInit /\ [][LegalNext]_legalVars

-----------------------------------------------------------------------------
(* Properties *)

(* A chain of notes verifies for good, whatever becomes of the payments behind *)
(* it. The only one that never does is a first note alone, issued after money  *)
(* of an amendment outside the chain had moved: its settlement was ready by    *)
(* all rows, those it froze leave that money out, and nothing compared them.   *)
NotesStayVerifiable ==
    \A i \in Invoices :
        \/ ChainVerifies(i)
        \/ \E d \in ChainOn(i) :
              /\ ChainOn(i) = {d}
              /\ \E r \in 1..documents[d].rows :
                    legalMoney[r].change \notin {0, documents[d].change}

(* However requests for one booking interleave, an invoice ends with at most   *)
(* one cancellation, which brings it to zero and after which nothing follows;  *)
(* an amendment is documented once for all invoices, and a refund backs one    *)
(* unadjusted cancellation.                                                    *)
DocumentsEndAtZero ==
    /\ \A i \in Invoices : \A d \in NotesOn(i) \ ChainOn(i) :
           documents[d].total = 0 /\ d = Max(NotesOn(i))
               /\ NotesOn(i) \ ChainOn(i) = {d}
    /\ \A d, e \in DOMAIN documents : d # e =>
           /\ documents[d].change # 0 => documents[e].change # documents[d].change
           /\ documents[d].refund # 0 => documents[e].refund # documents[d].refund

=============================================================================
