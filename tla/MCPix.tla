------------------------------- MODULE MCPix -------------------------------
(* Small instances of PixPayment: two attempts, the .cfg files choose the rest. *)
EXTENDS PixPayment
=============================================================================
