\* calls that die half way and calls that overlap
SPECIFICATION Spec
CONSTANTS
  Callers = {c1, c2}
  Docs = {d1, d2}
  Months = {1}
  Plan = 2
  Packages = {}
  PackageSize = 1
  MaxTries = 1
  MaxCrashes = 2
  Faults = {"overlap"}
INVARIANTS NeverUncounted
\* when every document is settled and the calendar ends nothing is left to do
CHECK_DEADLOCK FALSE
