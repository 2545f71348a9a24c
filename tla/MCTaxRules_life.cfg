\* two rules, two products of which one is sold alone, over two days; a
\* receipt of two lines, its document, four changes of configuration; two users
\* of the settings, two certificates; two ranges and clerks
SPECIFICATION MCSpec
CONSTANTS
  Rules = {r1, r2}
  Products = {p1, p2}
  Sales = {s1}
  Clients = {c1, c2}
  p1 = p1
  p2 = p2
  s1 = s1
  WithRates = FALSE
  Basket <- MCBasket
  Contents <- MCContents
  Nothing = Nothing
  MaxDay = 2
  Window = 1
  MaxRequests = 7
  Storable = TRUE
  l1 = l1
  l2 = l2
  Lines = {l1, l2}
  Written <- MCWritten
  Absent = Absent
  Environments = {"homologacao", "producao"}
  Serializable = TRUE
  MaxChanges = 4
  k1 = k1
  k2 = k2
  csc1 = csc1
  Users = {u1, u2}
  Certificates = {k1, k2}
  Codes = {csc1}
  Forms <- MCForms
  Missing = Missing
  MaxAsked = 4
  Ranges = {n1, n2}
  Clerks = {d1, d2}
  Sefaz = {homologation, production}
  NoRequest = NoRequest
  MaxAsks = 4
  MaxMoves = 1
SYMMETRY Alike
INVARIANTS SoldAsReviewed OneRuleADay OneRequest ReviewedIsEmitted ValidatedAsIs VoidAsTold
PROPERTIES PastIsFixed
\* when no request or change is left and the last day has come nothing happens
CHECK_DEADLOCK FALSE
