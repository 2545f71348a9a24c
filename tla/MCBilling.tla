------------------------------ MODULE MCBilling ------------------------------
(* Small instances of Billing: the .cfg files choose them. *)
EXTENDS Billing
=============================================================================
