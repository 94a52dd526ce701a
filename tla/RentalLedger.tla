---------------------------- MODULE RentalLedger ----------------------------
(* The money of one rental booking: its price, priced amendments, security     *)
(* bond, damage liability and late-return fee.                                 *)
(*                                                                            *)
(* Every writer is Serializable and holds the booking's advisory lock, damage  *)
(* settlement that of the liability and the unit, and forfeiture both. The     *)
(* manual provider answers within the transaction, so an operation is one      *)
(* action. Each row has a reference of its own, and a request that repeats one *)
(* is answered from it: the model keeps what the rows add up to.               *)
(* Readiness and dates of the unit, the state of its damage case, the pickup   *)
(* window and unchanged prices are refusals the model takes as passed.         *)
EXTENDS Integers, Sequences, Functions

CONSTANTS
    RentalTotal,          \* totalMinor of the booking, which never changes
    RentalDeltas,         \* price differences of its amendments
    BondAmount,           \* the one security bond its authority requires
    LiabilityAmounts,     \* what a damage case may be decided at
    MaxRentalSources,     \* bound: payments of the price
    MaxRentalAmendments   \* bound: amendments prepared

ASSUME RentalMoneyAssumption ==
    /\ RentalTotal \in Nat \ {0}
    /\ RentalDeltas \subseteq {d \in Int : d # 0 /\ RentalTotal + d > 0}
    /\ BondAmount \in Nat \ {0}
    /\ LiabilityAmounts \subseteq Nat \ {0}
    /\ MaxRentalSources \in Nat /\ MaxRentalAmendments \in Nat

VARIABLES rentalBooking, rentalSources, rentalAmendments, rentalBond, rentalDamage, rentalLate
rentalMoney == <<rentalSources, rentalAmendments>>
rentalCharges == <<rentalBond, rentalDamage, rentalLate>>
ledgerVars == <<rentalBooking, rentalMoney, rentalCharges>>

-----------------------------------------------------------------------------
(* Rows *)

(* A payment of the price, and what refunds took of it: those of the original  *)
(* ledger, which an applied amendment freezes, then those after the amendment. *)
SourceRows == [paid : Nat, refunded : Nat]

(* taken is the source a settled decrease was refunded from, which stays in    *)
(* the rows when it is compensated; returned is what refunds after the         *)
(* application took of a charge.                                               *)
RentalAmendmentRows ==
    [delta : RentalDeltas, status : {"PREPARED", "CANCELLED", "EXPIRED", "APPLIED"},
     due : BOOLEAN, settlement : {"UNSETTLED", "SETTLED", "COMPENSATED"},
     taken : 0..MaxRentalSources, returned : Nat]

BondStates == {"NONE", "REQUIRED", "COLLECTED", "RELEASED", "FORFEITED"}
ChargeStates == {"UNDECIDED", "NOTHING_DUE", "UNPAID", "PAID", "REFUNDED"}

RentalLedgerTypeOK ==
    /\ rentalBooking \in [status : {"CONFIRMED", "CANCELLED"},
                          custody : {"AWAITING_PICKUP", "PICKED_UP", "RETURNED"}]
    /\ rentalSources \in Seq(SourceRows) /\ Len(rentalSources) <= MaxRentalSources
    /\ rentalAmendments \in Seq(RentalAmendmentRows)
    /\ Len(rentalAmendments) <= MaxRentalAmendments
    /\ rentalBond \in BondStates
    /\ rentalDamage \in [amount : LiabilityAmounts \cup {0}, settlement : ChargeStates]
    /\ rentalLate \in ChargeStates

RentalLedgerInit ==
    /\ rentalBooking = [status |-> "CONFIRMED", custody |-> "AWAITING_PICKUP"]
    /\ rentalSources = <<>> /\ rentalAmendments = <<>>
    /\ rentalBond = "NONE"
    /\ rentalDamage = [amount |-> 0, settlement |-> "UNDECIDED"]
    /\ rentalLate = "UNDECIDED"

Confirmed == rentalBooking.status = "CONFIRMED"
Custody(state) == rentalBooking.custody = state
AmendmentsIn(status) == {n \in DOMAIN rentalAmendments : rentalAmendments[n].status = status}
Unamended == AmendmentsIn("PREPARED") = {} /\ AmendmentsIn("APPLIED") = {}

(* The next refund comes from the source with the largest balance; references  *)
(* decide between equal ones.                                                  *)
Largest(balances) ==
    {s \in DOMAIN balances :
        balances[s] > 0 /\ \A t \in DOMAIN balances : balances[t] <= balances[s]}

-----------------------------------------------------------------------------
(* The price: payments and refunds of the original ledger *)

Balances == [s \in DOMAIN rentalSources |-> rentalSources[s].paid - rentalSources[s].refunded]
OriginalNet == SumFunction(Balances)
PaidInFull == OriginalNet = RentalTotal

TakeFrom(s, amount) == rentalSources' = [rentalSources EXCEPT ![s].refunded = @ + amount]

PayRental(amount) ==
    /\ Confirmed /\ Unamended
    /\ amount <= RentalTotal - OriginalNet
    /\ Len(rentalSources) < MaxRentalSources
    /\ rentalSources' = Append(rentalSources, [paid |-> amount, refunded |-> 0])
    /\ UNCHANGED <<rentalBooking, rentalAmendments, rentalCharges>>

RefundRental(amount) ==
    /\ Confirmed /\ Unamended
    /\ \E s \in Largest(Balances) : amount <= Balances[s] /\ TakeFrom(s, amount)
    /\ UNCHANGED <<rentalBooking, rentalAmendments, rentalCharges>>

-----------------------------------------------------------------------------
(* Priced amendments *)

Sets(n, row) == rentalAmendments' = [rentalAmendments EXCEPT ![n] = row]

(* The database refuses to end an amendment that still holds money. *)
(* Mutant: only money that was returned keeps it. *)
EndsAnyway(n) == rentalAmendments[n].settlement # "COMPENSATED"
MayEnd(n) == rentalAmendments[n].settlement # "SETTLED"

(* A preparation first expires the amendments that are due, and fails with     *)
(* them; none may follow one that was applied.                                 *)
PrepareRentalAmendment(delta) ==
    /\ Confirmed /\ ~Custody("RETURNED")
    /\ \A n \in AmendmentsIn("PREPARED") : rentalAmendments[n].due /\ MayEnd(n)
    /\ AmendmentsIn("APPLIED") = {}
    /\ PaidInFull
    /\ Len(rentalAmendments) < MaxRentalAmendments
    /\ rentalAmendments' =
           Append([n \in DOMAIN rentalAmendments |->
                      IF n \in AmendmentsIn("PREPARED")
                          THEN [rentalAmendments[n] EXCEPT !.status = "EXPIRED"]
                          ELSE rentalAmendments[n]],
                  [delta |-> delta, status |-> "PREPARED", due |-> FALSE,
                   settlement |-> "UNSETTLED", taken |-> 0, returned |-> 0])
    /\ UNCHANGED <<rentalBooking, rentalSources, rentalCharges>>

RentalAmendmentFallsDue(n) ==
    /\ n \in AmendmentsIn("PREPARED") /\ ~rentalAmendments[n].due
    /\ Sets(n, [rentalAmendments[n] EXCEPT !.due = TRUE])
    /\ UNCHANGED <<rentalBooking, rentalSources, rentalCharges>>

CancelRentalAmendment(n) ==
    /\ n \in AmendmentsIn("PREPARED") /\ MayEnd(n)
    /\ Sets(n, [rentalAmendments[n] EXCEPT
                   !.status = IF rentalAmendments[n].due THEN "EXPIRED" ELSE "CANCELLED"])
    /\ UNCHANGED <<rentalBooking, rentalSources, rentalCharges>>

(* What other decreases took of a source counts even when it was compensated,  *)
(* since their compensation is a payment of its own.                           *)
TakenByOthers(s, n) ==
    SumFunction([m \in {m \in DOMAIN rentalAmendments \ {n} : rentalAmendments[m].taken = s} |->
                    -rentalAmendments[m].delta])

(* A decrease is refunded from one source that covers all of it. *)
DecreaseSources(n) ==
    LET left == [s \in DOMAIN Balances |-> Balances[s] - TakenByOthers(s, n)] IN
    {s \in Largest(left) : /\ PaidInFull
                           /\ \A t \in DOMAIN left : left[t] >= 0
                           /\ left[s] >= -rentalAmendments[n].delta}

SettleRentalAmendment(n) ==
    /\ n \in AmendmentsIn("PREPARED") /\ ~rentalAmendments[n].due
    /\ rentalAmendments[n].settlement = "UNSETTLED"
    /\ \E s \in IF rentalAmendments[n].delta > 0 THEN {0} ELSE DecreaseSources(n) :
           Sets(n, [rentalAmendments[n] EXCEPT !.settlement = "SETTLED", !.taken = s])
    /\ UNCHANGED <<rentalBooking, rentalSources, rentalCharges>>

CompensateRentalAmendment(n) ==
    /\ n \in AmendmentsIn("PREPARED")
    /\ rentalAmendments[n].settlement = "SETTLED"
    /\ Sets(n, [rentalAmendments[n] EXCEPT !.settlement = "COMPENSATED"])
    /\ UNCHANGED <<rentalBooking, rentalSources, rentalCharges>>

ApplyRentalAmendment(n) ==
    /\ Confirmed /\ ~Custody("RETURNED")
    /\ n \in AmendmentsIn("PREPARED") /\ ~rentalAmendments[n].due
    /\ PaidInFull
    /\ rentalAmendments[n].settlement = "SETTLED"
    /\ Sets(n, [rentalAmendments[n] EXCEPT !.status = "APPLIED"])
    /\ UNCHANGED <<rentalBooking, rentalSources, rentalCharges>>

-----------------------------------------------------------------------------
(* Effective settlement: the price as the applied amendment left it *)

AppliedCharge(n) == IF rentalAmendments[n].delta > 0
                        THEN rentalAmendments[n].delta - rentalAmendments[n].returned ELSE 0
ChargeLeft == SumFunction([n \in AmendmentsIn("APPLIED") |-> AppliedCharge(n)])
DeltasOf(S) == SumFunction([n \in S |-> rentalAmendments[n].delta])
EffectiveBalances ==
    [s \in DOMAIN Balances |->
        Balances[s] + DeltasOf({n \in AmendmentsIn("APPLIED") : rentalAmendments[n].taken = s})]
EffectiveNet == ChargeLeft + SumFunction(EffectiveBalances)
EffectiveTotal == RentalTotal + DeltasOf(AmendmentsIn("APPLIED"))

Reconciled ==
    /\ AmendmentsIn("PREPARED") = {}
    /\ \A s \in DOMAIN EffectiveBalances : EffectiveBalances[s] >= 0
    /\ EffectiveNet \in 0..EffectiveTotal

(* The charge of the amendment is refunded before the price. *)
RefundAppliedRental(amount) ==
    /\ Confirmed /\ Reconciled
    /\ \E n \in AmendmentsIn("APPLIED") :
          IF ChargeLeft > 0
              THEN /\ amount <= ChargeLeft
                   /\ Sets(n, [rentalAmendments[n] EXCEPT !.returned = @ + amount])
                   /\ UNCHANGED rentalSources
              ELSE /\ \E s \in Largest(EffectiveBalances) :
                         amount <= EffectiveBalances[s] /\ TakeFrom(s, amount)
                   /\ UNCHANGED rentalAmendments
    /\ UNCHANGED <<rentalBooking, rentalCharges>>

CancelRentalBooking ==
    /\ Confirmed /\ Custody("AWAITING_PICKUP")
    /\ rentalBond # "COLLECTED"
    /\ Reconciled /\ EffectiveNet = 0
    /\ rentalBooking' = [rentalBooking EXCEPT !.status = "CANCELLED"]
    /\ UNCHANGED <<rentalMoney, rentalCharges>>

-----------------------------------------------------------------------------
(* Custody *)

RecordPickup ==
    /\ Confirmed /\ Custody("AWAITING_PICKUP")
    /\ AmendmentsIn("PREPARED") = {}
    /\ rentalBond \in {"NONE", "COLLECTED"}
    /\ rentalBooking' = [rentalBooking EXCEPT !.custody = "PICKED_UP"]
    /\ UNCHANGED <<rentalMoney, rentalCharges>>

RecordReturn ==
    /\ Confirmed /\ Custody("PICKED_UP")
    /\ rentalBooking' = [rentalBooking EXCEPT !.custody = "RETURNED"]
    /\ UNCHANGED <<rentalMoney, rentalCharges>>

-----------------------------------------------------------------------------
(* Security bond *)

RequireBond ==
    /\ Confirmed /\ Custody("AWAITING_PICKUP")
    /\ rentalBond = "NONE"
    /\ rentalBond' = "REQUIRED"
    /\ UNCHANGED <<rentalBooking, rentalMoney, rentalDamage, rentalLate>>

CollectBond ==
    /\ Confirmed /\ Custody("AWAITING_PICKUP")
    /\ rentalBond = "REQUIRED"
    /\ rentalBond' = "COLLECTED"
    /\ UNCHANGED <<rentalBooking, rentalMoney, rentalDamage, rentalLate>>

ReleaseBond ==
    /\ rentalBond = "COLLECTED"
    /\ rentalBond' = "RELEASED"
    /\ UNCHANGED <<rentalBooking, rentalMoney, rentalDamage, rentalLate>>

(* Only while no payment of the liability was ever recorded. *)
ForfeitBond ==
    /\ Confirmed /\ Custody("RETURNED")
    /\ rentalBond = "COLLECTED"
    /\ rentalDamage = [amount |-> BondAmount, settlement |-> "UNPAID"]
    /\ rentalBond' = "FORFEITED"
    /\ UNCHANGED <<rentalBooking, rentalMoney, rentalDamage, rentalLate>>

-----------------------------------------------------------------------------
(* Charges after the return *)

DecideLiability(amount) ==
    /\ Confirmed /\ Custody("RETURNED")
    /\ rentalDamage.settlement = "UNDECIDED"
    /\ rentalDamage' = [amount |-> amount,
                        settlement |-> IF amount = 0 THEN "NOTHING_DUE" ELSE "UNPAID"]
    /\ UNCHANGED <<rentalBooking, rentalMoney, rentalBond, rentalLate>>

SettleDamage(from, to) ==
    /\ rentalDamage.settlement = from
    /\ rentalDamage' = [rentalDamage EXCEPT !.settlement = to]
    /\ UNCHANGED <<rentalBooking, rentalMoney, rentalBond, rentalLate>>
(* Mutant: a forfeited bond is not looked at. *)
PayDamageTwice == SettleDamage("UNPAID", "PAID")
PayDamage == rentalBond # "FORFEITED" /\ SettleDamage("UNPAID", "PAID")
RefundDamage == rentalBond # "FORFEITED" /\ SettleDamage("PAID", "REFUNDED")

AssessLateReturn(outcome) ==
    /\ Confirmed /\ Custody("RETURNED")
    /\ rentalLate = "UNDECIDED"
    /\ rentalLate' = outcome
    /\ UNCHANGED <<rentalBooking, rentalMoney, rentalBond, rentalDamage>>

SettleLateReturn(from, to) ==
    /\ rentalLate = from
    /\ rentalLate' = to
    /\ UNCHANGED <<rentalBooking, rentalMoney, rentalBond, rentalDamage>>
PayLateReturn == SettleLateReturn("UNPAID", "PAID")
RefundLateReturn == SettleLateReturn("PAID", "REFUNDED")

-----------------------------------------------------------------------------
(* Next *)

PriceNext ==
    \/ \E amount \in 1..EffectiveTotal :
          PayRental(amount) \/ RefundRental(amount) \/ RefundAppliedRental(amount)
    \/ \E delta \in RentalDeltas : PrepareRentalAmendment(delta)
    \/ \E n \in DOMAIN rentalAmendments :
          \/ RentalAmendmentFallsDue(n) \/ CancelRentalAmendment(n)
          \/ SettleRentalAmendment(n) \/ CompensateRentalAmendment(n)
          \/ ApplyRentalAmendment(n)
    \/ CancelRentalBooking

CustodyNext ==
    \/ RecordPickup \/ RecordReturn
    \/ RequireBond \/ CollectBond \/ ReleaseBond \/ ForfeitBond
    \/ \E amount \in LiabilityAmounts \cup {0} : DecideLiability(amount)
    \/ PayDamage \/ RefundDamage
    \/ \E outcome \in {"NOTHING_DUE", "UNPAID"} : AssessLateReturn(outcome)
    \/ PayLateReturn \/ RefundLateReturn

RentalLedgerNext == PriceNext \/ CustodyNext

RentalLedgerSpec == RentalLedgerInit /\ [][RentalLedgerNext]_ledgerVars

-----------------------------------------------------------------------------
(* Properties *)

(* All rows of the booking's price together, whatever they are linked to.      *)
AmendmentMoney(n) ==
    IF rentalAmendments[n].settlement = "SETTLED"
        THEN rentalAmendments[n].delta - rentalAmendments[n].returned ELSE 0
CustomerNet == OriginalNet + SumFunction([n \in DOMAIN rentalAmendments |-> AmendmentMoney(n)])

(* An amendment that is prepared or applied owns the terms alone, one that     *)
(* ended holds no money, and what the customer has paid in total lies between  *)
(* nothing and the accepted price, which a settled amendment that waits for    *)
(* its application already counts. The effective settlement, which cancels and *)
(* refunds by, finds this total whatever came before: it never ends in a        *)
(* conflict that would keep the booking for good. A cancelled rental keeps      *)
(* nothing, whichever ledger took it: no price, amendment, bond or charge.     *)
RentalMoneyWithinTerms ==
    LET counted == {n \in DOMAIN rentalAmendments :
                       \/ rentalAmendments[n].status = "APPLIED"
                       \/ rentalAmendments[n].status = "PREPARED"
                              /\ rentalAmendments[n].settlement = "SETTLED"}
        terms == RentalTotal + DeltasOf(counted) IN
    /\ \A m, n \in AmendmentsIn("PREPARED") \cup AmendmentsIn("APPLIED") : m = n
    /\ CustomerNet \in 0..terms
    /\ IF AmendmentsIn("PREPARED") # {}
          THEN CustomerNet = terms
          ELSE Reconciled /\ EffectiveNet = CustomerNet
    /\ ~Confirmed =>
          /\ CustomerNet = 0 /\ AmendmentsIn("PREPARED") = {}
          /\ rentalBond # "COLLECTED" /\ Custody("AWAITING_PICKUP")
          /\ rentalDamage.settlement = "UNDECIDED" /\ rentalLate = "UNDECIDED"

(* The customer meets a damage liability once: what was paid for it and what   *)
(* was kept of the bond never exceed it, and a bond is kept for nothing else.  *)
LiabilityMetOnce ==
    LET paid == IF rentalDamage.settlement = "PAID" THEN rentalDamage.amount ELSE 0
        kept == IF rentalBond = "FORFEITED" THEN BondAmount ELSE 0 IN
    paid + kept <= rentalDamage.amount

=============================================================================
