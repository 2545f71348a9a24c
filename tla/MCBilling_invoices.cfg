SPECIFICATION FairSpec
CONSTANTS
  Products = {p}
  Keys = {k1, k2}
  Modes = {"invoice"}
  Trial = FALSE
  Term = 2
  Lead = 1
  Grace = 1
  BatchLimit = 3
  EarlyRefund = TRUE
  MaxSubs = 3
  MaxInvoices = 3
  MaxDay = 3
INVARIANTS OneTermOpen PaidTermKept
PROPERTIES PaidIsActivated
CHECK_DEADLOCK FALSE
