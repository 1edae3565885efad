----------------------------- MODULE MCParking -----------------------------
(***************************************************************************)
(* Parking with one call that parks itself and one that is parked through  *)
(* a masquerade, one or two spaces (with one the lot fills up and its      *)
(* number is used again) and one caller who dials a parked call's number.  *)
(***************************************************************************)
EXTENDS Parking

=============================================================================
