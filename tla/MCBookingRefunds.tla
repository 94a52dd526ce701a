-------------------------- MODULE MCBookingRefunds --------------------------
(* Instances of BookingRefunds and LegalDocuments for TLC: the refunds of one  *)
(* booking and the documents of another. They share no row, and a behaviour    *)
(* moves one of them, chosen at its start, so that a state of both together    *)
(* satisfies a property of one exactly when the state in which the other has   *)
(* not moved does.                                                             *)
EXTENDS BookingRefunds, LegalDocuments, TLC

VARIABLE side

UnevenSources == <<1, 3>>

\* A refund may fail, and it may be returned after its success.
CardMoves == {<<"pending", "succeeded">>, <<"succeeded", "failed">>}

RaiseOrReduceByOne == {1, -1}

RefundsInit == side \in {"refunds", "documents"} /\ Init /\ LegalInit

RefundsNext ==
    /\ UNCHANGED side
    /\ \/ side = "refunds" /\ Next /\ UNCHANGED legalVars
       \/ side = "documents" /\ LegalNext /\ UNCHANGED vars

RefundsSpec == RefundsInit /\ [][RefundsNext]_<<side, vars, legalVars>>

(* The rows of both keep their columns. *)
RefundsTypeOK == TypeOK /\ LegalTypeOK

Symmetry == Permutations(Keys)

=============================================================================
