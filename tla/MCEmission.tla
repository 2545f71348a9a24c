----------------------------- MODULE MCEmission -----------------------------
(* Small instances of FiscalEmission; the .cfg files choose who acts, what  *)
(* the provider may answer and what else may happen.                        *)
EXTENDS FiscalEmission
=============================================================================
