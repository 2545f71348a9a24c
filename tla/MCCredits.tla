----------------------------- MODULE MCCredits -----------------------------
(* Small instances of FiscalCredits: the .cfg files choose them. *)
EXTENDS FiscalCredits
=============================================================================
