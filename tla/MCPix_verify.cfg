SPECIFICATION FairSpec
CONSTANTS
  Attempts = {a1, a2}
  Workers = {w1, w2}
  Jobs = {"reconcile"}
  Nobody = Nobody
  Disconnected = {a1}
  CancelFrom = {"concluida"}
  Overlap = FALSE
  BatchLimit = 2
  MaxRequests = 3
  MaxFailures = 1
INVARIANTS NoAnomaly GoodsTakenOnce
PROPERTY PaidCompletes
\* when no request is left and no attempt is active, nothing happens
CHECK_DEADLOCK FALSE
