------------------------- MODULE MCBookingPayments -------------------------
(* Instances of BookingPayments for TLC. *)
EXTENDS BookingPayments, TLC

Symmetry == Permutations(Keys)

=============================================================================
