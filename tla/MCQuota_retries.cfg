\* documents retried, reservations open across the turn of the month
SPECIFICATION Spec
CONSTANTS
  Callers = {c1, c2}
  Docs = {d1, d2}
  Months = {1, 2}
  Plan = 1
  Packages = {1}
  PackageSize = 1
  MaxTries = 2
  MaxCrashes = 0
  Faults = {"expiry", "straddle"}
INVARIANTS ReservationsBacked PlanRespected UsedOncePerDocument
\* when every document is settled and the calendar ends nothing is left to do
CHECK_DEADLOCK FALSE
