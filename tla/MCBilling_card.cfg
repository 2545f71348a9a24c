SPECIFICATION Spec
CONSTANTS
  Products = {p}
  Keys = {k1}
  Modes = {"card"}
  Trial = TRUE
  Term = 2
  Lead = 1
  Grace = 1
  BatchLimit = 3
  EarlyRefund = FALSE
  MaxSubs = 2
  MaxInvoices = 0
  MaxDay = 3
INVARIANTS AccessWhilePaid NoFreeAccess
CHECK_DEADLOCK FALSE
