------------------------------ MODULE MCQuota ------------------------------
(* Small instances of FiscalQuotaClients; the .cfg files choose the clients *)
(* and the faults.                                                          *)
EXTENDS FiscalQuotaClients, TLC

Alike == Permutations(Callers) \cup Permutations(Docs)
=============================================================================
