\* no plan and one package of two, documents refused and asked for again, a monthly
\* reset that payments and calls fall into and straddle, a package that expires, a
\* call that dies
SPECIFICATION Spec
CONSTANTS
  Callers = {c1, c2}
  Docs = {d1, d2}
  Months = {1, 2}
  Plan = 0
  Packages = {1}
  PackageSize = 2
  MaxTries = 2
  MaxCrashes = 1
  Faults = {"expiry", "straddle", "early"}
SYMMETRY Alike
INVARIANTS CreditsBacked ReservationsReturned
\* when every document is settled and the calendar ends nothing is left to do
CHECK_DEADLOCK FALSE
