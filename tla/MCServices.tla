----------------------------- MODULE MCServices -----------------------------
(* Four booking services that share no row, checked in one run: a behaviour    *)
(* moves one of them, chosen at its start. They are independent, so a state of *)
(* all together satisfies a property of one of them exactly when the state in  *)
(* which the others have not moved does. The ledger of a rental moves in two   *)
(* halves: its price and its charges after the return meet only in the         *)
(* booking's status and custody and in the bond, which both halves move.       *)
EXTENDS HospitalityAmendments, RentalUnits, RentalLedger, SupplierReservations, TLC

VARIABLE service

TwoCaptures == <<2, 2>>
RaiseAndRefund == {1, -3}
RaiseAndReduce == {1, -2}

Init ==
    /\ service \in {"amendments", "rentals", "price", "charges", "suppliers"}
    /\ AmendmentsInit /\ RentalsInit /\ RentalLedgerInit /\ SupplierInit

Next ==
    /\ UNCHANGED service
    /\ \/ /\ service = "amendments"
          /\ AmendmentsNext
          /\ UNCHANGED <<rentalVars, ledgerVars, supplierVars>>
       \/ /\ service = "rentals"
          /\ RentalsNext
          /\ UNCHANGED <<amendmentVars, ledgerVars, supplierVars>>
       \/ /\ service = "price"
          /\ RentalLedgerNext /\ UNCHANGED <<rentalDamage, rentalLate>>
          /\ UNCHANGED <<amendmentVars, rentalVars, supplierVars>>
       \/ /\ service = "charges"
          /\ RentalLedgerNext /\ UNCHANGED rentalMoney
          /\ UNCHANGED <<amendmentVars, rentalVars, supplierVars>>
       \/ /\ service = "suppliers"
          /\ SupplierNext
          /\ UNCHANGED <<amendmentVars, rentalVars, ledgerVars>>

Spec == Init /\ [][Next]_<<service, amendmentVars, rentalVars, ledgerVars, supplierVars>>

(* The rows of all services keep their columns, and an allocation of a rental  *)
(* keeps at least one day, within the committed ones.                          *)
ServicesTypeOK == AmendmentsTypeOK /\ RentalsTypeOK /\ RentalLedgerTypeOK /\ SupplierTypeOK

(* Only one service has moved, so exchanging the two amendments, the two         *)
(* rentals and the two workers at once is symmetry enough for each of them.      *)
Exchange(S) == [x \in S |-> CHOOSE y \in S : y # x]
Keep(S) == [x \in S |-> x]
Actors == <<Amendments, Rentals, SupplierWorkers>>
ServicesSymmetry ==
    {IF exchanged THEN Exchange(Actors[1]) @@ Exchange(Actors[2]) @@ Exchange(Actors[3])
                  ELSE Keep(Actors[1]) @@ Keep(Actors[2]) @@ Keep(Actors[3]) :
         exchanged \in BOOLEAN}
        \cup Permutations(RentalUnitIds)

=============================================================================
