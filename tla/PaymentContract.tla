-------------------------- MODULE PaymentContract --------------------------
(***************************************************************************)
(* What one booking may rely on about its payment, whichever services      *)
(* write it: its status, what its payment status permits, and whether a    *)
(* Checkout attempt is unresolved.  BookingPayments shows that the payment *)
(* services keep this contract; HospitalityInventory builds on it.         *)
(***************************************************************************)

VARIABLES
    status,     \* of the booking, "NONE" before it is created
    payment,    \* OPEN: UNPAID or FAILED; SETTLED: PAID or PARTIALLY_REFUNDED; REFUNDED
    checkout    \* an attempt is PENDING; none is, but one FAILED; no attempt

vars == <<status, payment, checkout>>

Live == {"PENDING_CONFIRMATION", "CONFIRMED"}

TypeOK ==
    /\ status \in {"NONE", "CANCELLED"} \cup Live
    /\ payment \in {"OPEN", "SETTLED", "REFUNDED"}
    /\ checkout \in {"NONE", "PENDING", "FAILED"}

Init ==
    /\ status \in {"NONE"} \cup Live
    /\ payment = "OPEN"
    /\ checkout = "NONE"

Create ==
    /\ status = "NONE"
    /\ status' \in Live
    /\ UNCHANGED <<payment, checkout>>

StartCheckout ==
    /\ status \in Live
    /\ payment = "OPEN"
    /\ checkout # "PENDING"
    /\ checkout' = "PENDING"
    /\ UNCHANGED <<status, payment>>

Promote ==
    /\ checkout = "PENDING"
    /\ status = "PENDING_CONFIRMATION"
    /\ payment = "OPEN"
    /\ status' = "CONFIRMED"
    /\ UNCHANGED <<payment, checkout>>

FailCheckout ==
    /\ checkout = "PENDING"
    /\ checkout' = "FAILED"
    /\ UNCHANGED <<status, payment>>

\* A pending or a failed attempt turns out paid; others of the booking may remain. A booking
\* that was paid or refunded otherwise meanwhile may keep that status.
Settle ==
    /\ status = "CONFIRMED"
    /\ checkout # "NONE"
    /\ \/ payment' = "SETTLED"
       \/ payment # "OPEN" /\ UNCHANGED payment
    /\ checkout' \in {"NONE", "FAILED", checkout}
    /\ UNCHANGED status

ExpireCheckout ==
    /\ checkout = "PENDING"
    /\ status = "CONFIRMED"
    /\ payment = "OPEN"
    /\ status' = "CANCELLED"
    /\ checkout' = "FAILED"
    /\ UNCHANGED payment

PayOffline ==
    /\ status = "CONFIRMED"
    /\ payment = "OPEN"
    /\ payment' = "SETTLED"
    /\ UNCHANGED <<status, checkout>>

RefundAll ==
    /\ status = "CONFIRMED"
    /\ payment = "SETTLED"
    /\ checkout # "PENDING"
    /\ payment' = "REFUNDED"
    /\ UNCHANGED <<status, checkout>>

\* A refund that completed the money's return fails afterwards.
ReturnRefund ==
    /\ status = "CONFIRMED"
    /\ payment = "REFUNDED"
    /\ checkout # "PENDING"
    /\ payment' = "SETTLED"
    /\ UNCHANGED <<status, checkout>>

Cancel ==
    /\ status \in Live
    /\ payment \in {"OPEN", "REFUNDED"}
    /\ checkout # "PENDING"
    /\ status' = "CANCELLED"
    /\ UNCHANGED <<payment, checkout>>

Next ==
    \/ Create
    \/ StartCheckout
    \/ Promote
    \/ FailCheckout
    \/ Settle
    \/ ExpireCheckout
    \/ PayOffline
    \/ RefundAll
    \/ ReturnRefund
    \/ Cancel

Spec == Init /\ [][Next]_vars

=============================================================================
