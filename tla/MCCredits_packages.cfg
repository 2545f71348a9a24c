\* two checkouts and a grant, asked for and reported by two requests at a time
SPECIFICATION FairSpec
CONSTANTS
  Packages = {k1, k2}
  Grants = {g1}
  Workers = {w1, w2}
  Job = Job
  Nobody = Nobody
  LatePayment = FALSE
  PaidWord = "CONFIRMED"
  BatchLimit = 2
  MaxRequests = 4
  MaxFailures = 1
INVARIANTS CreditedOnce
PROPERTIES PaidIsCredited
\* when no request is left and no package is pending, nothing happens
CHECK_DEADLOCK FALSE
