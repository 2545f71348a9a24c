\* two sales, two requests and one unit in the plan; Redis may fail, open sales are asked for again
SPECIFICATION Spec
CONSTANTS
  Callers = {r1, r2, w1}
  Requests = {r1, r2}
  Workers = {w1}
  Docs = {d1, d2}
  Months = {1}
  Plan = 1
  Packages = {}
  PackageSize = 1
  MaxConsults = 1
  MaxEmissions = 2
  MaxCrashes = 0
  Retriable = {"rejected", "offline_receipt", "authorized", "canceled", "queued", "provider_error"}
  Answers = {"accepted", "invalid", "authorized", "canceled", "down", "unauthorized"}
  Env = {"unreachable", "redis"}
PROPERTIES ImplementsNotes
\* when every sale has its outcome, or no request is left, nothing happens
CHECK_DEADLOCK FALSE
