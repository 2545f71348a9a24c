\* one sale, asked for again after every refusal; consults fail, the month turns
SPECIFICATION FairSpec
CONSTANTS
  Callers = {r1, w1}
  Requests = {r1}
  Workers = {w1}
  Docs = {d1}
  Months = {1, 2}
  Plan = 1
  Packages = {1}
  PackageSize = 1
  MaxConsults = 2
  MaxEmissions = 2
  MaxCrashes = 0
  Retriable = {"rejected", "offline_receipt", "authorized", "canceled"}
  Answers = {"accepted", "lost", "down", "unauthorized", "invalid", "authorized", "canceled"}
  Env = {"cancel", "credits", "unreachable", "month"}
INVARIANTS OneNote ReservationClosed OneUnit
PROPERTIES AuthorizedIsFinal EmissionReserved EventuallySettled
\* when every sale has its outcome, or no request is left, nothing happens
CHECK_DEADLOCK FALSE
