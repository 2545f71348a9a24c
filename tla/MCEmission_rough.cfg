\* everything at once: overlapping requests, a crash, invalid payloads
SPECIFICATION Spec
CONSTANTS
  Callers = {r1, w1}
  Requests = {r1}
  Workers = {w1}
  Docs = {d1}
  Months = {1}
  Plan = 1
  Packages = {}
  PackageSize = 1
  MaxConsults = 1
  MaxEmissions = 2
  MaxCrashes = 1
  Retriable = {"rejected", "offline_receipt", "queued", "processing", "provider_error", "manual_action"}
  Answers = {"accepted", "lost"}
  Env = {"in_flight", "payload", "reprocess", "cancel", "unreachable", "redis"}
INVARIANTS NoPhantom
\* when every sale has its outcome, or no request is left, nothing happens
CHECK_DEADLOCK FALSE
