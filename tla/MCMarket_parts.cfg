\* overlapping requests on the same rows, tills that send sales again; two consents
\* with renewals and disconnections; two tills and a shop that moves; plans contracted,
\* paid, tried and assigned; two tabs of a browser; an experiment of two variants that
\* two administrators edit
SPECIFICATION MCSpec
CONSTANTS
  Clients = {c1, c2}
  Sales = {s1, s2}
  Products = {p1, p2}
  Boxes = {b1, b2}
  Terminals = {t1, t2}
  Operators = {o1, o2}
  Customers = {k1}
  NoCustomer = NoCustomer
  p1 = p1
  p2 = p2
  b1 = b1
  b2 = b2
  k1 = k1
  s1 = s1
  s2 = s2
  Order <- MCOrder
  Price <- MCPrice
  NewPrices = {0}
  Deltas = {1}
  Payments = {1}
  Limits = {0, 1}
  MaxTerminals = 1
  MaxRequests = 4
  Consents = {a1, a2}
  Sessions = {w1, w2}
  Null = Null
  MaxTurns = 6
  Tills = {x1, x2}
  Desks = {d1, d2}
  Streets = {e1, e2}
  Unset = Unset
  MaxPlaces = 3
  MaxStores = 3
  basic = basic
  pro = pro
  trial = trial
  Plans = {basic, pro}
  TrialPlan = trial
  NoPlan = NoPlan
  MaxMarkets <- MCMaxMarkets
  Handlers = {h1, h2}
  Term = 1
  MaxDay = 2
  MaxCalls = 5
  Tabs = {i1, i2}
  NoCookie = NoCookie
  MaxTokens = 3
  MaxCrashes = 1
  Variants = {v1, v2}
  Admins = {m1, m2}
  People = {u1}
  Callers = {q1, q2}
  NoOne = NoOne
  MaxVisits = 2
  MaxSteps = 2
  MaxEdits = 4
SYMMETRY Alike
INVARIANTS TotalsMatchRows GoodsTakenOnce OneOpenBox ConsentOnce
INVARIANTS StoreIsAsShown MarketsWithinPlan ClientKeepsSession VisitorIsServed ConvertedOnce
\* when no request is left nothing happens
CHECK_DEADLOCK FALSE
