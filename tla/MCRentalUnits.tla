---------------------------- MODULE MCRentalUnits ----------------------------
(* Two rentals, two interchangeable units and one block for TLC. *)
EXTENDS RentalUnits, TLC

RentalSymmetry == Permutations(Rentals) \cup Permutations(RentalUnitIds)

=============================================================================
