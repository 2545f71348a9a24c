----------------------------- MODULE MarketProofs -----------------------------
(***************************************************************************)
(* What holds of the counter of a shop and of five components around it,   *)
(* for any number of requests, users, tills, consents and visits: sales,   *)
(* stock, tabs and boxes; the refresh sessions of a browser; the           *)
(* connection to the Pix provider; the store the provider shows; the plan  *)
(* of an owner; and the sales funnels.  They share nothing; each has its   *)
(* types, an inductive invariant, the step that keeps it and the theorems  *)
(* that follow from it.  For sales the invariant says what makes a copy    *)
(* safe: of a row no request has raced for, whoever uses it uses it alone, *)
(* what he has in hand is what the row says, and what he has tested still  *)
(* holds.                                                                  *)
(***************************************************************************)
EXTENDS Sales, RefreshSessions, PixConnection, PointsOfSale, Accounts, Funnels,
        Integers, FiniteSetTheorems, WellFoundedInduction, TLAPS

-----------------------------------------------------------------------------
(* Sales: the invariant *)

ProductsOf(asked) ==
  CASE asked.op \in {"sync", "cancel"} -> Goods(asked.sale)
    [] asked.op \in {"move", "edit", "delete"} -> {asked.product}
    [] OTHER -> {}
CustomersOf(asked) ==
  CASE asked.op = "sync" -> Tab(asked.sale)
    [] asked.op \in {"pay", "limit"} -> {asked.customer}
    [] OTHER -> {}

\* what a request about to save has in hand
CopiesInHand(r) ==
  /\ r.product \in [ProductsOf(r.call) -> Product]
  /\ r.customer \in [CustomersOf(r.call) -> Customer]
  /\ DOMAIN r.box \subseteq Boxes
  /\ \A b \in DOMAIN r.box :
       r.box[b] \in Box /\ r.box[b].status = "aberto" /\ box[b] # NoBox
  /\ r.call.op = "sync" => DOMAIN r.box = {Order[r.call.sale].box}
  /\ r.call.op = "close" => \E b \in Boxes : DOMAIN r.box = {b}
  /\ r.call.op \notin {"sync", "close"} => DOMAIN r.box = {}

Shape ==
  /\ product \in [Products -> Product] /\ moved \in [Products -> Int]
  /\ customer \in [Customers -> Customer] /\ owed \in [Customers -> Int]
  /\ sale \in [Sales -> {"none", "concluida", "cancelada"}] /\ taken \in [Sales -> Int]
  /\ box \in [Boxes -> Box \cup {NoBox}] /\ drawer \in [Boxes -> Int]
  /\ terminals \in Nat /\ raced \subseteq Rows
  /\ DOMAIN request = Clients
  /\ \A c \in InFlight :
       /\ request[c].call \in Calls /\ request[c].step \in {"ask", "load", "save"}
       /\ request[c].step = "save" => CopiesInHand(request[c])

\* the copies of rows nobody raced for are as the rows are now
InHand(r) ==
  r.step = "save" =>
    /\ \A p \in ProductsOf(r.call) \ raced : r.product[p] = product[p]
    /\ \A k \in CustomersOf(r.call) \ raced : r.customer[k] = customer[k]
    /\ \A b \in DOMAIN r.box \ raced : r.box[b] = box[b]

\* and what has been tested of them still holds
Tested(r) ==
  LET asked == r.call
      saves == r.step = "save"
  IN  /\ asked.op = "sync" /\ r.step \in {"load", "save"} /\ asked.sale \notin raced
           => sale[asked.sale] # "concluida"
      /\ asked.op = "cancel" /\ saves /\ asked.sale \notin raced => sale[asked.sale] = "concluida"
      /\ asked.op = "open" /\ saves /\ asked.terminal \notin raced => OpenAt(asked.terminal) \subseteq raced
      /\ asked.op = "open" /\ saves /\ asked.operator \notin raced => OpenBy(asked.operator) \subseteq raced
      /\ asked.op = "register" /\ saves /\ "terminals" \notin raced => terminals < MaxTerminals

Sound(r) == InHand(r) /\ Tested(r)

\* the totals, the goods that are out, the boxes that are open
Booked ==
  /\ TotalsMatchRows /\ GoodsTakenOnce
  /\ \A b \in Boxes : box[b] = NoBox => drawer[b] = 0
  /\ \A a, b \in Boxes \ raced :
       /\ box[a].status = "aberto" /\ box[b].status = "aberto"
       /\ \/ box[a].terminal = box[b].terminal /\ box[a].terminal \notin raced
          \/ box[a].operator = box[b].operator /\ box[a].operator \notin raced
       => a = b
  /\ "terminals" \notin raced => terminals <= MaxTerminals

Orderly ==
  /\ Shape
  /\ Contended \subseteq raced
  /\ \A c \in InFlight : Sound(request[c])
  /\ Booked

\* a step leaves alone what is outside U
Spares(U) ==
  /\ \A p \in Products \ U : product'[p] = product[p]
  /\ \A s \in Sales \ U : sale'[s] = sale[s]
  /\ \A k \in Customers \ U : customer'[k] = customer[k]
  /\ \A b \in Boxes \ U : box[b] # NoBox => box'[b] = box[b]
  /\ \A b \in Boxes : box[b] # NoBox => box'[b] # NoBox
  /\ \A t \in Terminals \ U : OpenAt(t)' \subseteq OpenAt(t) \cup raced
  /\ \A o \in Operators \ U : OpenBy(o)' \subseteq OpenBy(o) \cup raced
  /\ "terminals" \notin U => terminals' = terminals

-----------------------------------------------------------------------------
(* Sales: what its lemmas say of rows *)

\* the rows a request reads in order to write are among those it uses
LEMMA UsedRows ==
  ASSUME NEW r, r.call \in Calls
  PROVE  /\ ProductsOf(r.call) \subseteq Uses(r) \cap Products
         /\ CustomersOf(r.call) \subseteq Uses(r) \cap Customers
         /\ r.call.op \in {"sync", "cancel"} => r.call.sale \in Uses(r) \cap Sales
         /\ r.call.op = "sync" => Order[r.call.sale].box \in Uses(r) \cap Boxes
         /\ r.call.op = "close" /\ r.step = "save" => DOMAIN r.box \subseteq Uses(r)
         /\ r.call.op \in {"open", "close"} => r.call.terminal \in Uses(r) \cap Terminals
         /\ r.call.op = "open" => r.call.operator \in Uses(r) \cap Operators
         /\ r.call.op = "register" => "terminals" \in Uses(r)
<1> DEFINE asked == r.call
<1>0. asked \in Calls
  OBVIOUS
<1>u. Uses(r) =
        CASE asked.op = "sync" -> {asked.sale, Order[asked.sale].box} \cup Goods(asked.sale) \cup Tab(asked.sale)
          [] asked.op = "cancel" -> {asked.sale} \cup Goods(asked.sale)
          [] asked.op = "open" -> {asked.terminal, asked.operator}
          [] asked.op = "close" -> {asked.terminal} \cup (IF r.step = "save" THEN DOMAIN r.box ELSE {})
          [] asked.op \in {"move", "edit", "delete"} -> {asked.product}
          [] asked.op \in {"pay", "limit"} -> {asked.customer}
          [] asked.op = "register" -> {"terminals"}
  BY Zenon DEF Uses
<1> HIDE DEF asked
<1> SUFFICES /\ ProductsOf(asked) \subseteq Uses(r) \cap Products
             /\ CustomersOf(asked) \subseteq Uses(r) \cap Customers
             /\ asked.op \in {"sync", "cancel"} => asked.sale \in Uses(r) \cap Sales
             /\ asked.op = "sync" => Order[asked.sale].box \in Uses(r) \cap Boxes
             /\ asked.op = "close" /\ r.step = "save" => DOMAIN r.box \subseteq Uses(r)
             /\ asked.op \in {"open", "close"} => asked.terminal \in Uses(r) \cap Terminals
             /\ asked.op = "open" => asked.operator \in Uses(r) \cap Operators
             /\ asked.op = "register" => "terminals" \in Uses(r)
  BY DEF asked
<1>1. CASE asked.op \in {"sync", "cancel"}
  <2>1. asked.sale \in Sales
    BY <1>0, <1>1 DEF Calls
  <2> QED BY <1>1, <1>u, <2>1, SalesAssumption DEF ProductsOf, CustomersOf, Goods, Tab, SalesAssumption, OrderType
<1>2. CASE asked.op \in {"open", "close", "register"}
  BY <1>0, <1>2, <1>u DEF Calls, ProductsOf, CustomersOf
<1>3. CASE asked.op \in {"move", "edit", "delete", "pay", "limit"}
  BY <1>0, <1>3, <1>u DEF Calls, ProductsOf, CustomersOf
<1> QED BY <1>0, <1>1, <1>2, <1>3 DEF Calls

\* a step within the rows U leaves what another request relies on, if the rows
\* of U which that request uses have been raced for
LEMMA OthersSound ==
  ASSUME Shape, NEW d \in InFlight, NEW U,
         \A x \in Uses(request[d]) \cap U : x \in Rows => x \in raced,
         raced \subseteq raced', Spares(U), request'[d] = request[d], Sound(request[d])
  PROVE  Sound(request[d])' /\ (request[d].step = "save" => CopiesInHand(request[d])')
<1> DEFINE r == request[d]
           asked == r.call
<1>0. asked \in Calls /\ (r.step = "save" => CopiesInHand(r)) /\ r' = r
  BY DEF Shape
<1>1. /\ \A p \in ProductsOf(asked) \ raced' : product'[p] = product[p]
      /\ \A k \in CustomersOf(asked) \ raced' : customer'[k] = customer[k]
      /\ asked.op \in {"sync", "cancel"} /\ asked.sale \notin raced' => sale'[asked.sale] = sale[asked.sale]
  BY <1>0, UsedRows DEF Spares, Rows
<1>2. r.step = "save" => \A b \in DOMAIN r.box \ raced' : box'[b] = box[b]
  <2> SUFFICES ASSUME r.step = "save", NEW b \in DOMAIN r.box \ raced' PROVE box'[b] = box[b]
    OBVIOUS
  <2>1. b \in Boxes /\ box[b] # NoBox /\ asked.op \in {"sync", "close"}
    BY <1>0 DEF CopiesInHand
  <2>2. b \in Uses(r)
    BY <1>0, <2>1, UsedRows DEF CopiesInHand
  <2> QED BY <2>1, <2>2 DEF Spares, Rows
<1>3. /\ asked.op = "open" /\ asked.terminal \notin raced' => OpenAt(asked.terminal)' \subseteq OpenAt(asked.terminal) \cup raced
      /\ asked.op = "open" /\ asked.operator \notin raced' => OpenBy(asked.operator)' \subseteq OpenBy(asked.operator) \cup raced
      /\ asked.op = "register" /\ "terminals" \notin raced' => terminals' = terminals
  BY <1>0, UsedRows DEF Spares, Rows
<1>4. InHand(request[d])'
  BY <1>0, <1>1, <1>2 DEF Sound, InHand, ProductsOf, CustomersOf
<1>5. Tested(request[d])'
  <2> HIDE DEF asked
  <2>1. \A x : x \in raced => x \in raced'
    OBVIOUS
  <2>2. Tested(r)
    BY DEF Sound
  <2>3. r'.call = asked /\ r'.step = r.step /\ asked = r.call
    BY <1>0 DEF asked
  <2>4. asked.op = "open" /\ r.step = "save" /\ asked.terminal \notin raced' => OpenAt(asked.terminal)' \subseteq raced'
    BY <1>3, <2>1, <2>2, <2>3 DEF Tested
  <2>5. asked.op = "open" /\ r.step = "save" /\ asked.operator \notin raced' => OpenBy(asked.operator)' \subseteq raced'
    BY <1>3, <2>1, <2>2, <2>3 DEF Tested
  <2>6. asked.op = "sync" /\ r.step \in {"load", "save"} /\ asked.sale \notin raced' => sale'[asked.sale] # "concluida"
    BY <1>1, <2>1, <2>2, <2>3 DEF Tested
  <2>7. asked.op = "cancel" /\ r.step = "save" /\ asked.sale \notin raced' => sale'[asked.sale] = "concluida"
    BY <1>1, <2>1, <2>2, <2>3 DEF Tested
  <2>8. asked.op = "register" /\ r.step = "save" /\ "terminals" \notin raced' => terminals' < MaxTerminals
    BY <1>3, <2>1, <2>2, <2>3 DEF Tested
  <2>9. request'[d].call = asked /\ request'[d].step = r.step /\ asked' = asked
    BY <2>3 DEF asked
  <2> HIDE DEF r
  <2>10. \A t : OpenAt(t)' = {b \in Boxes : box'[b].status = "aberto" /\ box'[b].terminal = t}
    BY DEF OpenAt
  <2>11. \A o : OpenBy(o)' = {b \in Boxes : box'[b].status = "aberto" /\ box'[b].operator = o}
    BY DEF OpenBy
  <2> QED BY <2>4, <2>5, <2>6, <2>7, <2>8, <2>9, <2>10, <2>11 DEF Tested, OpenAt, OpenBy
<1>6. r.step = "save" => CopiesInHand(request[d])'
  BY <1>0 DEF CopiesInHand, Spares, ProductsOf, CustomersOf
<1> QED BY <1>4, <1>5, <1>6 DEF Sound

\* a step within the rows of its own request keeps the invariant when it keeps
\* the types and the totals and leaves its request sound or done
LEMMA StepKeeps ==
  ASSUME Orderly, NEW c \in InFlight, Spares(Uses(request[c])), Booked',
         raced' = raced \cup Contended',
         \A d \in Clients \ {c} : request'[d] = request[d], DOMAIN request' = Clients,
         product' \in [Products -> Product], moved' \in [Products -> Int],
         customer' \in [Customers -> Customer], owed' \in [Customers -> Int],
         sale' \in [Sales -> {"none", "concluida", "cancelada"}], taken' \in [Sales -> Int],
         box' \in [Boxes -> Box \cup {NoBox}], drawer' \in [Boxes -> Int], terminals' \in Nat,
         request'[c].step # "idle" => /\ request'[c].call = request[c].call
                                      /\ request'[c].step \in {"ask", "load", "save"}
                                      /\ request'[c].step = "save" => CopiesInHand(request[c])'
                                      /\ Sound(request[c])'
  PROVE  Orderly'
<1>1. ASSUME NEW d \in InFlight' \ {c}
      PROVE  /\ d \in InFlight /\ request'[d] = request[d] /\ Sound(request[d])'
             /\ request[d].step = "save" => CopiesInHand(request[d])'
  <2>1. d \in InFlight /\ request'[d] = request[d]
    BY DEF InFlight
  <2>2. \A x \in Uses(request[d]) \cap Uses(request[c]) : x \in Rows => x \in raced
    BY <2>1 DEF Orderly, Contended
  <2>3. raced \subseteq raced'
    OBVIOUS
  <2> QED BY <2>1, <2>2, <2>3, OthersSound DEF Orderly
<1>2. \A d \in InFlight' : Sound(request[d])'
  BY <1>1 DEF InFlight
<1>3. \A d \in InFlight' : /\ request'[d].call \in Calls /\ request'[d].step \in {"ask", "load", "save"}
                           /\ request'[d].step = "save" => CopiesInHand(request[d])'
  BY <1>1 DEF InFlight, Orderly, Shape
<1>4. raced' \subseteq Rows
  BY DEF Contended, Orderly, Shape
<1>5. Shape'
  BY <1>3, <1>4 DEF Shape
<1> QED BY <1>2, <1>5 DEF Orderly

\* what holds outside the raced rows still does when more are raced for
LEMMA RacedGrows ==
  ASSUME Booked, raced \subseteq raced', UNCHANGED <<stock, tills, tabs>>
  PROVE  Booked'
<1>1. /\ product' = product /\ moved' = moved /\ sale' = sale /\ taken' = taken /\ box' = box
      /\ customer' = customer /\ owed' = owed /\ terminals' = terminals /\ drawer' = drawer
  BY DEF stock, tills, tabs
<1>2. TotalsMatchRows' /\ GoodsTakenOnce'
  BY <1>1 DEF Booked, TotalsMatchRows, StockMatches, DebtMatches, DrawerMatches, GoodsTakenOnce, Doubled
<1> QED BY <1>1, <1>2 DEF Booked
Pick(t) == CHOOSE p \in t : TRUE

\* g sums f over each of the sets in T
AddsUp(g, f, T) == g = [t \in T |-> IF t = {} THEN 0 ELSE f[Pick(t)] + g[t \ {Pick(t)}]]

UpTo(S, n) == {t \in SUBSET S : Cardinality(t) <= n}

\* a set of naturals that is not empty has a least element
LEMMA LeastOf ==
  ASSUME NEW T \in SUBSET Nat, T # {}
  PROVE  \E x \in T : \A y \in T : x <= y
<1>1. PICK x \in T : \A y \in T : ~(<<y, x>> \in OpToRel(<, Nat))
  BY NatLessThanWellFounded, WFMin, Zenon
<1>2. \A y \in T : ~(y < x)
  BY <1>1 DEF OpToRel
<1> QED
  BY <1>2

\* to take a member away from a subset of a finite set makes it smaller
LEMMA OneLess ==
  ASSUME NEW S, IsFiniteSet(S), NEW t \in SUBSET S
  PROVE  /\ Cardinality(t) \in Nat /\ Cardinality(t) <= Cardinality(S)
         /\ Cardinality(t) = 0 <=> t = {}
         /\ t # {} => /\ Pick(t) \in t /\ t \ {Pick(t)} \in SUBSET S
                      /\ Cardinality(t \ {Pick(t)}) = Cardinality(t) - 1
<1>1. IsFiniteSet(t) /\ Cardinality(t) <= Cardinality(S)
  BY FS_Subset
<1>2. Cardinality(t) \in Nat /\ (Cardinality(t) = 0 <=> t = {})
  BY <1>1, FS_CardinalityType, FS_EmptySet
<1>3. ASSUME t # {}
      PROVE  Pick(t) \in t /\ t \ {Pick(t)} \in SUBSET S
  BY <1>3 DEF Pick
<1>4. ASSUME t # {}
      PROVE  Cardinality(t \ {Pick(t)}) = Cardinality(t) - 1
  BY <1>1, <1>3, <1>4, FS_RemoveElement
<1> QED BY <1>1, <1>2, <1>3, <1>4

\* a finite set's subsets up to a size have a sum each
LEMMA SumsUpTo ==
  ASSUME NEW S, IsFiniteSet(S), NEW f, NEW n \in Nat
  PROVE  \E g : AddsUp(g, f, UpTo(S, n))
<1> DEFINE Fails == {m \in Nat : ~ \E g : AddsUp(g, f, UpTo(S, m))}
<1>1. SUFFICES ASSUME Fails # {} PROVE FALSE
  OBVIOUS
<1>2. PICK m \in Fails : \A k \in Fails : m <= k
  BY <1>1, LeastOf
<1>3. CASE m = 0
  <2>1. UpTo(S, 0) = {{}}
    <3>1. \A t \in SUBSET S : Cardinality(t) \in Nat /\ (Cardinality(t) = 0 <=> t = {})
      BY OneLess
    <3>2. {} \in SUBSET S
      OBVIOUS
    <3> QED BY <3>1, <3>2 DEF UpTo
  <2>2. AddsUp([t \in UpTo(S, 0) |-> 0], f, UpTo(S, 0))
    BY <2>1 DEF AddsUp
  <2> QED BY <1>3, <2>2
<1>4. CASE m # 0
  <2>1. m - 1 \in Nat /\ m - 1 \notin Fails
    BY <1>2, <1>4
  <2>2. PICK h : AddsUp(h, f, UpTo(S, m - 1))
    BY <2>1
  <2> DEFINE g == [t \in UpTo(S, m) |-> IF t = {} THEN 0 ELSE f[Pick(t)] + h[t \ {Pick(t)}]]
  <2>3. \A t \in UpTo(S, m - 1) : g[t] = h[t]
    <3>1. \A t \in UpTo(S, m - 1) : t \in UpTo(S, m)
      <4>1. \A t \in SUBSET S : Cardinality(t) \in Nat
        BY OneLess
      <4>2. m \in Nat
        BY <1>2
      <4> QED BY <4>1, <4>2, <2>1 DEF UpTo
    <3> QED BY <2>2, <3>1 DEF AddsUp
  <2>4. \A t \in UpTo(S, m) : t # {} => t \ {Pick(t)} \in UpTo(S, m - 1)
    BY OneLess, <2>1 DEF UpTo
  <2>5. \A t \in UpTo(S, m) : t # {} => h[t \ {Pick(t)}] = g[t \ {Pick(t)}]
    BY <2>3, <2>4
  <2>6. AddsUp(g, f, UpTo(S, m))
    BY <2>5 DEF AddsUp
  <2> QED BY <2>6
<1> QED BY <1>3, <1>4

\* and one only, which is an integer when the members are
LEMMA SumsAgree ==
  ASSUME NEW S, IsFiniteSet(S), NEW f, \A p \in S : f[p] \in Int,
         NEW g, AddsUp(g, f, SUBSET S), NEW h, AddsUp(h, f, SUBSET S)
  PROVE  g[S] = h[S] /\ g[S] \in Int
<1> DEFINE Fails == {n \in Nat : \E t \in SUBSET S : Cardinality(t) = n /\ ~(g[t] = h[t] /\ g[t] \in Int)}
<1>1. SUFFICES ASSUME Fails # {} PROVE FALSE
  BY OneLess
<1>2. PICK n \in Fails : \A k \in Fails : n <= k
  BY <1>1, LeastOf
<1>3. PICK t \in SUBSET S : Cardinality(t) = n /\ ~(g[t] = h[t] /\ g[t] \in Int)
  BY <1>2
<1>4. t # {}
  BY <1>3 DEF AddsUp
<1>5. Pick(t) \in S /\ t \ {Pick(t)} \in SUBSET S /\ Cardinality(t \ {Pick(t)}) = n - 1 /\ n - 1 \in Nat
  <2>1. t \in SUBSET S /\ Cardinality(t) = n
    BY <1>3
  <2>2. Pick(t) \in t /\ t \ {Pick(t)} \in SUBSET S /\ Cardinality(t \ {Pick(t)}) = Cardinality(t) - 1
    BY <1>4, <2>1, OneLess
  <2>3. Cardinality(t) \in Nat /\ Cardinality(t) # 0
    BY <1>4, <2>1, OneLess
  <2> QED BY <2>1, <2>2, <2>3
<1>6. g[t \ {Pick(t)}] = h[t \ {Pick(t)}] /\ g[t \ {Pick(t)}] \in Int
  <2>1. n - 1 \notin Fails
    BY <1>2, <1>5
  <2> QED BY <1>5, <2>1
<1>7. g[t] = f[Pick(t)] + g[t \ {Pick(t)}] /\ h[t] = f[Pick(t)] + h[t \ {Pick(t)}]
  BY <1>4 DEF AddsUp
<1> QED BY <1>3, <1>5, <1>6, <1>7

\* what a receipt comes to is the sum of what its lines come to
LEMMA TotalAdds ==
  ASSUME IsFiniteSet(Products), NEW s \in Sales, NEW price, NEW f,
         \A p \in Products : f[p] = price[p] * Order[s].quantity[p]
  PROVE  \E g : AddsUp(g, f, SUBSET Products) /\ Total(s, price) = g[Products]
<1> DEFINE P(g) == g = [t \in SUBSET Products |->
                          IF t = {} THEN 0
                          ELSE LET p == CHOOSE p \in t : TRUE
                               IN  price[p] * Order[s].quantity[p] + g[t \ {p}]]
           sums == CHOOSE g : P(g)
<1>1. UpTo(Products, Cardinality(Products)) = SUBSET Products /\ Cardinality(Products) \in Nat
  BY OneLess, FS_CardinalityType DEF UpTo
<1>2. \A t \in SUBSET Products : t # {} => f[Pick(t)] = price[Pick(t)] * Order[s].quantity[Pick(t)]
  BY DEF Pick
<1>3. \A g : AddsUp(g, f, SUBSET Products) <=> P(g)
  <2> TAKE g
  <2>1. [t \in SUBSET Products |-> IF t = {} THEN 0 ELSE f[Pick(t)] + g[t \ {Pick(t)}]]
          = [t \in SUBSET Products |-> IF t = {} THEN 0
               ELSE price[Pick(t)] * Order[s].quantity[Pick(t)] + g[t \ {Pick(t)}]]
    BY <1>2
  <2> QED BY <2>1, Zenon DEF AddsUp, Pick
<1>4. \E g : AddsUp(g, f, SUBSET Products)
  <2>1. \E g : AddsUp(g, f, UpTo(Products, Cardinality(Products)))
    BY <1>1, SumsUpTo
  <2> QED BY <1>1, <2>1
<1>5. P(sums)
  <2> HIDE DEF P
  <2> QED BY <1>3, <1>4
<1>6. Total(s, price) = sums[Products]
  BY Zenon DEF Total, MapThenSumSet, MapThenFoldSet
<1> QED BY <1>3, <1>5, <1>6


\* what a receipt comes to is a number when the prices are
LEMMA TotalTyped ==
  ASSUME NEW s \in Sales, NEW price, \A p \in Products : price[p] \in Int
  PROVE  Total(s, price) \in Int
<1> DEFINE f == [p \in Products |-> price[p] * Order[s].quantity[p]]
<1>1. \A p \in Products : f[p] \in Int /\ f[p] = price[p] * Order[s].quantity[p]
  <2>1. \A p \in Products : Order[s].quantity[p] \in Nat
    BY SalesAssumption DEF SalesAssumption, OrderType
  <2> QED BY <2>1
<1>2. IsFiniteSet(Products)
  BY SalesAssumption DEF SalesAssumption
<1> HIDE DEF f
<1>3. PICK g : AddsUp(g, f, SUBSET Products) /\ Total(s, price) = g[Products]
  BY <1>1, <1>2, TotalAdds
<1> QED BY <1>1, <1>2, <1>3, SumsAgree

\* cash left in the till is a natural number
LEMMA CashCounted ==
  ASSUME NEW s \in Sales, NEW total \in Int
  PROVE  NetCash(s, total) \in Nat
<1>1. Order[s].cash \in Nat /\ Order[s].fiado \in Nat /\ Order[s].card \in Nat
  BY SalesAssumption DEF SalesAssumption, OrderType
<1> QED BY <1>1 DEF NetCash, Max0

-----------------------------------------------------------------------------
(* The steps that read *)

\* a step that only reads keeps the invariant when what it tested and copied is sound
LEMMA ReadKeeps ==
  ASSUME Orderly, NEW c \in InFlight, UNCHANGED <<stock, tills, tabs>>,
         raced' = raced \cup Contended',
         \A d \in Clients \ {c} : request'[d] = request[d], DOMAIN request' = Clients,
         request'[c].step # "idle" => /\ request'[c].call = request[c].call
                                      /\ request'[c].step \in {"load", "save"}
                                      /\ request'[c].step = "save" => CopiesInHand(request[c])'
                                      /\ Sound(request[c])'
  PROVE  Orderly'
<1>1. /\ product' = product /\ moved' = moved /\ sale' = sale /\ taken' = taken /\ box' = box
      /\ customer' = customer /\ owed' = owed /\ terminals' = terminals /\ drawer' = drawer
  BY DEF stock, tills, tabs
<1>2. Spares(Uses(request[c]))
  BY <1>1 DEF Spares, OpenAt, OpenBy
<1>3. Booked'
  BY RacedGrows DEF Orderly
<1>4. Shape
  BY DEF Orderly
<1> QED BY <1>1, <1>2, <1>3, <1>4, StepKeeps DEF Shape

\* copies made of the rows as they are are sound
LEMMA HeldNow ==
  ASSUME Orderly, NEW c \in InFlight, UNCHANGED <<stock, tills, tabs>>, NEW B \in SUBSET Boxes,
         LET asked == request[c].call
         IN  /\ Hold(c, ProductsOf(asked), B, CustomersOf(asked))
             /\ \A b \in B : box[b].status = "aberto"
             /\ asked.op = "sync" => B = {Order[asked.sale].box}
             /\ asked.op = "close" => \E b \in Boxes : B = {b}
             /\ asked.op \notin {"sync", "close"} => B = {}
  PROVE  /\ DOMAIN request' = Clients /\ \A d \in Clients \ {c} : request'[d] = request[d]
         /\ request'[c].step = "save" /\ request'[c].call = request[c].call
         /\ CopiesInHand(request[c])' /\ InHand(request[c])'
<1> DEFINE asked == request[c].call
<1>1. asked \in Calls /\ DOMAIN request = Clients /\ c \in Clients
  BY DEF Orderly, Shape, InFlight
<1>2. ProductsOf(asked) \subseteq Products /\ CustomersOf(asked) \subseteq Customers
  BY <1>1, UsedRows
<1>3. request'[c] = [step |-> "save", call |-> asked,
                     product |-> [p \in ProductsOf(asked) |-> product[p]],
                     box |-> [b \in B |-> box[b]],
                     customer |-> [k \in CustomersOf(asked) |-> customer[k]]]
  BY <1>1 DEF Hold
<1>4. \A d \in Clients \ {c} : request'[d] = request[d] /\ DOMAIN request' = Clients
  BY <1>1 DEF Hold
<1>5. DOMAIN request' = Clients
  BY <1>1 DEF Hold
<1>6. product' = product /\ box' = box /\ customer' = customer
  BY DEF stock, tills, tabs
<1>7. /\ product \in [Products -> Product] /\ customer \in [Customers -> Customer]
      /\ box \in [Boxes -> Box \cup {NoBox}]
  BY DEF Orderly, Shape
<1>8. \A b \in B : box[b] \in Box /\ box[b] # NoBox
  BY <1>7 DEF NoBox
<1>9. /\ request'[c].call = asked /\ request'[c].step = "save" /\ DOMAIN request'[c].box = B
      /\ request'[c].product = [p \in ProductsOf(asked) |-> product[p]]
      /\ request'[c].customer = [k \in CustomersOf(asked) |-> customer[k]]
      /\ \A b \in B : request'[c].box[b] = box[b]
  BY <1>3
<1>t. ProductsOf(request[c].call)' = ProductsOf(asked) /\ CustomersOf(request[c].call)' = CustomersOf(asked)
  BY <1>9 DEF ProductsOf, CustomersOf, Goods, Tab
<1> HIDE DEF asked
<1>10. CopiesInHand(request[c])'
  <2>1. /\ request'[c].product \in [ProductsOf(asked) -> Product]
        /\ request'[c].customer \in [CustomersOf(asked) -> Customer]
    BY <1>2, <1>7, <1>9
  <2>2. \A b \in B : request'[c].box[b] \in Box /\ request'[c].box[b].status = "aberto" /\ box'[b] # NoBox
    BY <1>6, <1>8, <1>9 DEF asked
  <2> QED BY <1>9, <1>t, <2>1, <2>2 DEF CopiesInHand, asked
<1>11. InHand(request[c])'
  <2>1. /\ \A p \in ProductsOf(asked) : request'[c].product[p] = product'[p]
        /\ \A k \in CustomersOf(asked) : request'[c].customer[k] = customer'[k]
        /\ \A b \in DOMAIN request'[c].box : request'[c].box[b] = box'[b]
    BY <1>6, <1>9
  <2> QED BY <1>t, <2>1 DEF InHand
<1> QED BY <1>4, <1>5, <1>9, <1>10, <1>11 DEF asked

\* the tests and loads of every request are such steps
LEMMA ReadSteps ==
  ASSUME Orderly, NEW c \in Clients, raced' = raced \cup Contended',
         \/ SyncCheck(c) \/ SyncLoad(c) \/ CancelLoad(c) \/ OpenCheck(c) \/ CloseLoad(c)
         \/ RegisterCheck(c) \/ LoadProduct(c) \/ LoadCustomer(c) \/ RollBack(c)
  PROVE  Orderly'
<1> DEFINE asked == request[c].call
<1>0. /\ c \in InFlight /\ DOMAIN request = Clients /\ asked \in Calls
      /\ UNCHANGED <<stock, tills, tabs>>
  BY DEF InFlight, Orderly, Shape, SyncCheck, SyncLoad, CancelLoad, OpenCheck, CloseLoad,
         RegisterCheck, LoadProduct, LoadCustomer, RollBack, At
<1>a. sale' = sale /\ box' = box /\ terminals' = terminals /\ raced \subseteq raced'
  BY <1>0 DEF stock, tills
<1>b. {} \in SUBSET Boxes
  OBVIOUS
<1>1. CASE RollBack(c)
  BY <1>0, <1>1, ReadKeeps DEF RollBack, Done
<1>2. CASE SyncCheck(c)
  <2>1. Sound(request[c])'
    BY <1>0, <1>a, <1>2 DEF SyncCheck, At, Sound, InHand, Tested
  <2> QED BY <1>0, <1>2, <2>1, ReadKeeps DEF SyncCheck, At
<1>3. CASE SyncLoad(c)
  <2> DEFINE B == {Order[asked.sale].box}
  <2>1. /\ asked.op = "sync" /\ request[c].step = "load" /\ Hold(c, Goods(asked.sale), B, Tab(asked.sale))
        /\ box[Order[asked.sale].box].status = "aberto" /\ asked.sale \in Sales
        /\ Order[asked.sale].box \in Boxes
    BY <1>0, <1>3, SalesAssumption DEF SyncLoad, At, Calls, SalesAssumption, OrderType
  <2>2. Hold(c, ProductsOf(asked), B, CustomersOf(asked)) /\ B \in SUBSET Boxes
    BY <2>1 DEF ProductsOf, CustomersOf
  <2>3. /\ DOMAIN request' = Clients /\ \A d \in Clients \ {c} : request'[d] = request[d]
        /\ request'[c].step = "save" /\ request'[c].call = request[c].call
        /\ CopiesInHand(request[c])' /\ InHand(request[c])'
    BY <1>0, <2>1, <2>2, HeldNow
  <2>4. Sound(request[c]) /\ \A x : x \in raced => x \in raced'
    BY <1>0, <1>a DEF Orderly
  <2>5. Tested(request[c])'
    BY <1>a, <2>1, <2>3, <2>4 DEF Sound, Tested
  <2> QED BY <1>0, <2>3, <2>5, ReadKeeps DEF Sound
<1>4. CASE CancelLoad(c)
  <2>1. /\ asked.op = "cancel" /\ Hold(c, Goods(asked.sale), {}, {}) /\ sale[asked.sale] = "concluida"
    BY <1>4 DEF CancelLoad, At
  <2>2. Hold(c, ProductsOf(asked), {}, CustomersOf(asked))
    BY <2>1 DEF ProductsOf, CustomersOf
  <2>3. /\ DOMAIN request' = Clients /\ \A d \in Clients \ {c} : request'[d] = request[d]
        /\ request'[c].step = "save" /\ request'[c].call = request[c].call
        /\ CopiesInHand(request[c])' /\ InHand(request[c])'
    BY <1>0, <1>b, <2>1, <2>2, HeldNow
  <2>5. Tested(request[c])'
    BY <1>a, <2>1, <2>3 DEF Tested
  <2> QED BY <1>0, <2>3, <2>5, ReadKeeps DEF Sound
<1>5. CASE OpenCheck(c)
  <2>1. asked.op = "open" /\ Hold(c, {}, {}, {}) /\ OpenAt(asked.terminal) = {} /\ OpenBy(asked.operator) = {}
    BY <1>5 DEF OpenCheck, At
  <2>2. Hold(c, ProductsOf(asked), {}, CustomersOf(asked))
    BY <2>1 DEF ProductsOf, CustomersOf
  <2>3. /\ DOMAIN request' = Clients /\ \A d \in Clients \ {c} : request'[d] = request[d]
        /\ request'[c].step = "save" /\ request'[c].call = request[c].call
        /\ CopiesInHand(request[c])' /\ InHand(request[c])'
    BY <1>0, <1>b, <2>1, <2>2, HeldNow
  <2>5. Tested(request[c])'
    BY <1>a, <2>1, <2>3 DEF Tested, OpenAt, OpenBy
  <2> QED BY <1>0, <2>3, <2>5, ReadKeeps DEF Sound
<1>6. CASE CloseLoad(c)
  <2>1. PICK b \in OpenAt(asked.terminal) : asked.op = "close" /\ Hold(c, {}, {b}, {})
    BY <1>6 DEF CloseLoad, At
  <2>2. Hold(c, ProductsOf(asked), {b}, CustomersOf(asked)) /\ {b} \in SUBSET Boxes /\ box[b].status = "aberto"
    BY <2>1 DEF ProductsOf, CustomersOf, OpenAt
  <2>3. /\ DOMAIN request' = Clients /\ \A d \in Clients \ {c} : request'[d] = request[d]
        /\ request'[c].step = "save" /\ request'[c].call = request[c].call
        /\ CopiesInHand(request[c])' /\ InHand(request[c])'
    BY <1>0, <2>1, <2>2, HeldNow
  <2>5. Tested(request[c])'
    BY <1>a, <2>1, <2>3 DEF Tested
  <2> QED BY <1>0, <2>3, <2>5, ReadKeeps DEF Sound
<1>7. CASE RegisterCheck(c)
  <2>1. asked.op = "register" /\ Hold(c, {}, {}, {}) /\ terminals < MaxTerminals
    BY <1>7 DEF RegisterCheck, At
  <2>2. Hold(c, ProductsOf(asked), {}, CustomersOf(asked))
    BY <2>1 DEF ProductsOf, CustomersOf
  <2>3. /\ DOMAIN request' = Clients /\ \A d \in Clients \ {c} : request'[d] = request[d]
        /\ request'[c].step = "save" /\ request'[c].call = request[c].call
        /\ CopiesInHand(request[c])' /\ InHand(request[c])'
    BY <1>0, <1>b, <2>1, <2>2, HeldNow
  <2>5. Tested(request[c])'
    BY <1>a, <2>1, <2>3 DEF Tested
  <2> QED BY <1>0, <2>3, <2>5, ReadKeeps DEF Sound
<1>8. CASE LoadProduct(c) \/ LoadCustomer(c)
  <2>1. /\ asked.op \in {"move", "edit", "delete", "pay", "limit"}
        /\ Hold(c, ProductsOf(asked), {}, CustomersOf(asked))
    BY <1>8 DEF LoadProduct, LoadCustomer, ProductsOf, CustomersOf
  <2>3. /\ DOMAIN request' = Clients /\ \A d \in Clients \ {c} : request'[d] = request[d]
        /\ request'[c].step = "save" /\ request'[c].call = request[c].call
        /\ CopiesInHand(request[c])' /\ InHand(request[c])'
    BY <1>0, <1>b, <2>1, HeldNow
  <2>5. Tested(request[c])'
    BY <1>a, <2>1, <2>3 DEF Tested
  <2> QED BY <1>0, <2>3, <2>5, ReadKeeps DEF Sound
<1> QED BY <1>1, <1>2, <1>3, <1>4, <1>5, <1>6, <1>7, <1>8

-----------------------------------------------------------------------------
(* The steps that write *)

StaysClosed == \A b \in Boxes \ raced' : box[b].status = "fechado" => box'[b] = box[b]
FitsLimit ==
  \A k \in Customers \ raced' :
    customer'[k].debt > customer[k].debt => customer'[k].debt <= customer[k].limit

\* a request about to save has typed copies, and fresh ones of what nobody raced for
LEMMA AtSave ==
  ASSUME Orderly, NEW c \in Clients, request[c].step = "save"
  PROVE  LET r == request[c]
         IN  /\ c \in InFlight /\ r.call \in Calls /\ CopiesInHand(r) /\ DOMAIN request = Clients
             /\ Tested(r) /\ InHand(r)
             /\ ProductsOf(r.call) \subseteq Products /\ CustomersOf(r.call) \subseteq Customers
<1>1. c \in InFlight
  BY DEF InFlight
<1>2. request[c].call \in Calls /\ CopiesInHand(request[c]) /\ DOMAIN request = Clients /\ Sound(request[c])
  BY <1>1 DEF Orderly, Shape
<1> QED BY <1>1, <1>2, UsedRows DEF Sound


\* a sale that is saved: stock, till, tab and receipt change together
LEMMA SyncSaveKeeps ==
  ASSUME Orderly, NEW c \in Clients, SyncSave(c), raced' = raced \cup Contended'
  PROVE  Orderly' /\ StaysClosed /\ FitsLimit
<1> DEFINE r == request[c]
           asked == r.call
           s == asked.sale
           b == Order[s].box
           net == NetCash(s, Total(s, [p \in Products |-> IF p \in Goods(s) THEN r.product[p].price ELSE 0]))
<1>1. /\ r.step = "save" /\ asked.op = "sync" /\ c \in InFlight /\ asked \in Calls
      /\ CopiesInHand(r) /\ Tested(r) /\ InHand(r) /\ DOMAIN request = Clients
      /\ Shape /\ Booked
  BY AtSave DEF SyncSave, At, Orderly
<1>2. /\ s \in Sales /\ Order[s] \in OrderType /\ b \in Boxes
      /\ ProductsOf(asked) = Goods(s) /\ CustomersOf(asked) = Tab(s)
      /\ Goods(s) \subseteq Products /\ Tab(s) \subseteq Customers
  BY <1>1, SalesAssumption DEF SalesAssumption, OrderType, Calls, ProductsOf, CustomersOf, Goods, Tab
<1>3. /\ \A p \in Products : Order[s].last[p] \in Nat /\ Order[s].quantity[p] \in Nat
      /\ Order[s].fiado \in Nat
      /\ \A p \in Products : p \notin Goods(s) => Order[s].quantity[p] = 0
  BY <1>2 DEF OrderType, Goods
<1>4. /\ \A p \in Goods(s) : r.product[p] \in Product
      /\ \A k \in Tab(s) : r.customer[k] \in Customer
      /\ r.box[b] \in Box /\ r.box[b].status = "aberto" /\ box[b] # NoBox
  BY <1>1, <1>2 DEF CopiesInHand
<1>5. net \in Nat
  <2>1. \A p \in Products : [q \in Products |-> IF q \in Goods(s) THEN r.product[q].price ELSE 0][p] \in Int
    BY <1>4 DEF Product
  <2> QED BY <1>2, <2>1, TotalTyped, CashCounted
<1>6. /\ product \in [Products -> Product] /\ moved \in [Products -> Int]
      /\ customer \in [Customers -> Customer] /\ owed \in [Customers -> Int]
      /\ sale \in [Sales -> {"none", "concluida", "cancelada"}] /\ taken \in [Sales -> Int]
      /\ box \in [Boxes -> Box \cup {NoBox}] /\ drawer \in [Boxes -> Int] /\ terminals \in Nat
  BY <1>1 DEF Shape
<1>w. /\ MayOwe(s, r.customer)
      /\ product' = Written(product, [p \in Goods(s) |-> [r.product[p] EXCEPT !.stock = @ - Order[s].last[p]]])
      /\ moved' = [p \in Products |-> moved[p] - Order[s].quantity[p]]
      /\ sale' = [sale EXCEPT ![s] = "concluida"] /\ taken' = [taken EXCEPT ![s] = @ + 1]
      /\ box' = IF net > 0 THEN Written(box, [x \in {b} |-> [r.box[x] EXCEPT !.balance = @ + net]])
                           ELSE box
      /\ drawer' = [drawer EXCEPT ![b] = @ + net]
      /\ customer' = Written(customer, [k \in Tab(s) |-> [r.customer[k] EXCEPT !.debt = @ + Order[s].fiado]])
      /\ owed' = [k \in Customers |-> owed[k] + (IF k \in Tab(s) THEN Order[s].fiado ELSE 0)]
      /\ request' = [request EXCEPT ![c] = [step |-> "idle"]]
      /\ terminals' = terminals
  BY DEF SyncSave, Done
<1> HIDE DEF r, asked, s, b, net
<1>7. /\ DOMAIN product' = Products
      /\ \A p \in Products : p \notin Goods(s) => product'[p] = product[p]
      /\ \A p \in Goods(s) : /\ product'[p] \in Product
                             /\ product'[p].stock = r.product[p].stock - Order[s].last[p]
  <2>1. /\ product' = [p \in Products |-> IF p \in Goods(s) THEN [r.product[p] EXCEPT !.stock = @ - Order[s].last[p]]
                                                           ELSE product[p]]
    BY <1>2, <1>6, <1>w DEF Written
  <2> QED BY <1>2, <1>3, <1>4, <2>1 DEF Product
<1>8. /\ DOMAIN customer' = Customers
      /\ \A k \in Customers : k \notin Tab(s) => customer'[k] = customer[k]
      /\ \A k \in Tab(s) : /\ customer'[k] \in Customer
                           /\ customer'[k].debt = r.customer[k].debt + Order[s].fiado
  <2>1. customer' = [k \in Customers |-> IF k \in Tab(s) THEN [r.customer[k] EXCEPT !.debt = @ + Order[s].fiado]
                                                         ELSE customer[k]]
    BY <1>2, <1>6, <1>w DEF Written
  <2> QED BY <1>2, <1>3, <1>4, <2>1 DEF Customer
<1>9. /\ DOMAIN box' = Boxes /\ \A x \in Boxes \ {b} : box'[x] = box[x]
      /\ box'[b] \in Box
      /\ b \notin raced => /\ box'[b].status = box[b].status /\ box'[b].terminal = box[b].terminal
                           /\ box'[b].operator = box[b].operator /\ box'[b].balance = box[b].balance + net
                           /\ box[b].status = "aberto"
  <2>1. b \notin raced => r.box[b] = box[b]
    BY <1>1, <1>2 DEF InHand, CopiesInHand, r, asked, s, b
  <2>2. box[b] \in Box /\ box[b].balance \in Int /\ r.box[b].balance \in Int
    BY <1>2, <1>4, <1>6 DEF Box
  <2>3. CASE ~(net > 0)
    <3>1. net = 0 /\ box' = box
      BY <1>5, <1>w, <2>3
    <3> QED BY <1>4, <1>6, <2>1, <2>2, <3>1
  <2>4. CASE net > 0
    <3>1. box' = [x \in Boxes |-> IF x \in {b} THEN [r.box[x] EXCEPT !.balance = @ + net] ELSE box[x]]
      BY <1>2, <1>6, <1>w, <2>4 DEF Written
    <3>2. box'[b] = [r.box[b] EXCEPT !.balance = @ + net]
      BY <1>2, <3>1
    <3>3. box'[b] \in Box /\ box'[b].status = r.box[b].status /\ box'[b].terminal = r.box[b].terminal
          /\ box'[b].operator = r.box[b].operator /\ box'[b].balance = r.box[b].balance + net
      BY <1>4, <1>5, <2>2, <3>2 DEF Box
    <3> QED BY <1>4, <2>1, <3>1, <3>3
  <2> QED BY <2>3, <2>4
<1>10. Spares(Uses(r))
  <2>1. {s, b} \cup Goods(s) \cup Tab(s) \subseteq Uses(r)
    BY <1>1, <1>2, UsedRows DEF r, asked, s, b
  <2>2. \A x \in Boxes \ raced : box'[x].status = box[x].status /\ box'[x].terminal = box[x].terminal
                                 /\ box'[x].operator = box[x].operator
    BY <1>9
  <2>3. \A t : OpenAt(t)' \subseteq OpenAt(t) \cup raced /\ OpenBy(t)' \subseteq OpenBy(t) \cup raced
    BY <2>2 DEF OpenAt, OpenBy
  <2>4. \A x \in Sales \ {s} : sale'[x] = sale[x]
    BY <1>6, <1>w
  <2>5. NoBox \notin Box
    BY DEF NoBox, Box
  <2> QED BY <1>7, <1>8, <1>9, <1>w, <2>1, <2>3, <2>4, <2>5 DEF Spares
<1>11. /\ product' \in [Products -> Product] /\ moved' \in [Products -> Int]
       /\ customer' \in [Customers -> Customer] /\ owed' \in [Customers -> Int]
       /\ sale' \in [Sales -> {"none", "concluida", "cancelada"}] /\ taken' \in [Sales -> Int]
       /\ box' \in [Boxes -> Box \cup {NoBox}] /\ drawer' \in [Boxes -> Int] /\ terminals' \in Nat
  <2>1. product' = [p \in Products |-> product'[p]] /\ customer' = [k \in Customers |-> customer'[k]]
        /\ box' = [x \in Boxes |-> box'[x]]
    BY <1>2, <1>6, <1>w DEF Written
  <2>2. \A p \in Products : product'[p] \in Product
    BY <1>6, <1>7
  <2>3. \A k \in Customers : customer'[k] \in Customer
    BY <1>6, <1>8
  <2>4. \A x \in Boxes : box'[x] \in Box \cup {NoBox}
    BY <1>6, <1>9
  <2>5. moved' \in [Products -> Int] /\ owed' \in [Customers -> Int]
    BY <1>3, <1>6, <1>w
  <2>6. sale' \in [Sales -> {"none", "concluida", "cancelada"}] /\ taken' \in [Sales -> Int] /\ terminals' \in Nat
    BY <1>2, <1>6, <1>w
  <2>7. drawer' \in [Boxes -> Int]
    BY <1>2, <1>5, <1>6, <1>w
  <2> QED BY <2>1, <2>2, <2>3, <2>4, <2>5, <2>6, <2>7
<1>g. \A x : x \in raced => x \in raced'
  OBVIOUS
<1>12. Booked'
  <2>1. StockMatches'
    <3> SUFFICES ASSUME NEW p \in Products, p \notin raced', p \notin Doubled
                 PROVE  product'[p].stock = moved'[p]
      BY DEF StockMatches, Doubled
    <3>1. product[p].stock = moved[p] /\ Order[s].last[p] = Order[s].quantity[p]
      BY <1>1, <1>2, <1>g DEF Booked, TotalsMatchRows, StockMatches, Doubled
    <3>2. CASE p \in Goods(s)
      <4>1. r.product[p] = product[p]
        BY <1>1, <1>2, <1>g, <3>2 DEF InHand, r, asked
      <4> QED BY <1>7, <1>w, <3>1, <3>2, <4>1
    <3>3. CASE p \notin Goods(s)
      BY <1>3, <1>6, <1>7, <1>w, <3>1, <3>3
    <3> QED BY <3>2, <3>3
  <2>2. DebtMatches'
    <3> SUFFICES ASSUME NEW k \in Customers, k \notin raced'
                 PROVE  customer'[k].debt = owed'[k]
      BY DEF DebtMatches
    <3>1. customer[k].debt = owed[k]
      BY <1>1, <1>g DEF Booked, TotalsMatchRows, DebtMatches
    <3>2. CASE k \in Tab(s)
      <4>1. r.customer[k] = customer[k]
        BY <1>1, <1>2, <1>g, <3>2 DEF InHand, r, asked
      <4> QED BY <1>8, <1>w, <3>1, <3>2, <4>1
    <3>3. CASE k \notin Tab(s)
      BY <1>6, <1>8, <1>w, <3>1, <3>3
    <3> QED BY <3>2, <3>3
  <2>3. DrawerMatches'
    <3> SUFFICES ASSUME NEW x \in Boxes, x \notin raced', box'[x] # NoBox
                 PROVE  box'[x].balance = drawer'[x]
      BY DEF DrawerMatches
    <3>1. box[x] # NoBox
      BY <1>4, <1>9
    <3>2. box[x].balance = drawer[x]
      BY <1>1, <1>g, <3>1 DEF Booked, TotalsMatchRows, DrawerMatches
    <3>3. CASE x = b
      BY <1>6, <1>9, <1>g, <1>w, <3>2, <3>3
    <3>4. CASE x # b
      BY <1>6, <1>9, <1>w, <3>2, <3>4
    <3> QED BY <3>3, <3>4
  <2>4. GoodsTakenOnce'
    <3> SUFFICES ASSUME NEW x \in Sales, x \notin raced'
                 PROVE  taken'[x] = IF sale'[x] = "concluida" THEN 1 ELSE 0
      BY DEF GoodsTakenOnce
    <3>1. taken[x] = IF sale[x] = "concluida" THEN 1 ELSE 0
      BY <1>1, <1>g DEF Booked, GoodsTakenOnce
    <3>2. x = s => sale[x] # "concluida"
      BY <1>1, <1>g DEF Tested, r, asked, s
    <3> QED BY <1>2, <1>6, <1>w, <3>1, <3>2
  <2>5. \A x \in Boxes : box'[x] = NoBox => drawer'[x] = 0
    <3>1. \A x \in Boxes : box[x] = NoBox => drawer[x] = 0
      BY <1>1 DEF Booked
    <3>2. NoBox \notin Box
      BY DEF NoBox, Box
    <3> QED BY <1>6, <1>9, <1>w, <3>1, <3>2
  <2>6. \A x \in Boxes \ raced' : box'[x].status = box[x].status /\ box'[x].terminal = box[x].terminal
                                 /\ box'[x].operator = box[x].operator
    BY <1>9, <1>g
  <2>7. \A x, y \in Boxes \ raced' :
          /\ box'[x].status = "aberto" /\ box'[y].status = "aberto"
          /\ \/ box'[x].terminal = box'[y].terminal /\ box'[x].terminal \notin raced'
             \/ box'[x].operator = box'[y].operator /\ box'[x].operator \notin raced'
          => x = y
    BY <1>1, <1>g, <2>6 DEF Booked
  <2>8. "terminals" \notin raced' => terminals' <= MaxTerminals
    BY <1>1, <1>g, <1>w DEF Booked
  <2> QED BY <2>1, <2>2, <2>3, <2>4, <2>5, <2>7, <2>8 DEF Booked, TotalsMatchRows
<1>13. Orderly'
  <2>1. \A d \in Clients \ {c} : request'[d] = request[d]
    BY <1>1, <1>w
  <2>2. DOMAIN request' = Clients /\ request'[c].step = "idle"
    BY <1>1, <1>w
  <2> QED BY <1>1, <1>10, <1>11, <1>12, <2>1, <2>2, StepKeeps DEF r
<1>14. StaysClosed
  BY <1>9, <1>g DEF StaysClosed
<1>15. FitsLimit
  <2> SUFFICES ASSUME NEW k \in Customers, k \notin raced', customer'[k].debt > customer[k].debt
               PROVE  customer'[k].debt <= customer[k].limit
    BY DEF FitsLimit
  <2>1. CASE k \in Tab(s)
    <3>1. r.customer[k] = customer[k]
      BY <1>1, <1>2, <1>g, <2>1 DEF InHand, r, asked
    <3> QED BY <1>8, <1>w, <2>1, <3>1 DEF MayOwe
  <2>2. CASE k \notin Tab(s)
    BY <1>6, <1>8, <2>2 DEF Customer
  <2> QED BY <2>1, <2>2
<1> QED BY <1>13, <1>14, <1>15

\* a completed sale that is canceled gives back what it took
LEMMA CancelSaveKeeps ==
  ASSUME Orderly, NEW c \in Clients, CancelSave(c), raced' = raced \cup Contended'
  PROVE  Orderly' /\ StaysClosed /\ FitsLimit
<1> DEFINE r == request[c]
           asked == r.call
           s == asked.sale
<1>1. /\ r.step = "save" /\ asked.op = "cancel" /\ c \in InFlight /\ asked \in Calls
      /\ CopiesInHand(r) /\ Tested(r) /\ InHand(r) /\ DOMAIN request = Clients
      /\ Shape /\ Booked
  BY AtSave DEF CancelSave, At, Orderly
<1>2. /\ s \in Sales /\ Order[s] \in OrderType /\ ProductsOf(asked) = Goods(s) /\ Goods(s) \subseteq Products
  BY <1>1, SalesAssumption DEF SalesAssumption, Calls, ProductsOf, Goods
<1>3. /\ \A p \in Products : Order[s].quantity[p] \in Nat
      /\ \A p \in Products : p \notin Goods(s) => Order[s].quantity[p] = 0
  BY <1>2 DEF OrderType, Goods
<1>4. \A p \in Goods(s) : r.product[p] \in Product
  BY <1>1, <1>2 DEF CopiesInHand
<1>6. /\ product \in [Products -> Product] /\ moved \in [Products -> Int]
      /\ customer \in [Customers -> Customer] /\ owed \in [Customers -> Int]
      /\ sale \in [Sales -> {"none", "concluida", "cancelada"}] /\ taken \in [Sales -> Int]
      /\ box \in [Boxes -> Box \cup {NoBox}] /\ drawer \in [Boxes -> Int] /\ terminals \in Nat
  BY <1>1 DEF Shape
<1>w. /\ product' = Written(product, [p \in Goods(s) |-> [r.product[p] EXCEPT !.stock = @ + Order[s].quantity[p]]])
      /\ moved' = [p \in Products |-> moved[p] + Order[s].quantity[p]]
      /\ sale' = [sale EXCEPT ![s] = "cancelada"] /\ taken' = [taken EXCEPT ![s] = @ - 1]
      /\ box' = box /\ drawer' = drawer /\ customer' = customer /\ owed' = owed
      /\ terminals' = terminals /\ request' = [request EXCEPT ![c] = [step |-> "idle"]]
  BY DEF CancelSave, Done, tills, tabs
<1> HIDE DEF r, asked, s
<1>7. /\ product' = [p \in Products |-> product'[p]]
      /\ \A p \in Products : p \notin Goods(s) => product'[p] = product[p]
      /\ \A p \in Goods(s) : /\ product'[p] \in Product
                             /\ product'[p].stock = r.product[p].stock + Order[s].quantity[p]
  <2>1. /\ product' = [p \in Products |-> IF p \in Goods(s) THEN [r.product[p] EXCEPT !.stock = @ + Order[s].quantity[p]]
                                                           ELSE product[p]]
    BY <1>2, <1>6, <1>w DEF Written
  <2> QED BY <1>2, <1>3, <1>4, <2>1 DEF Product
<1>10. Spares(Uses(r))
  <2>1. {s} \cup Goods(s) \subseteq Uses(r)
    BY <1>1, <1>2, UsedRows DEF r, asked, s
  <2>4. \A x \in Sales \ {s} : sale'[x] = sale[x]
    BY <1>6, <1>w
  <2> QED BY <1>7, <1>w, <2>1, <2>4 DEF Spares, OpenAt, OpenBy
<1>11. /\ product' \in [Products -> Product] /\ moved' \in [Products -> Int]
       /\ sale' \in [Sales -> {"none", "concluida", "cancelada"}] /\ taken' \in [Sales -> Int]
  <2>1. \A p \in Products : product'[p] \in Product
    BY <1>6, <1>7
  <2>2. moved' \in [Products -> Int]
    BY <1>3, <1>6, <1>w
  <2>3. sale' \in [Sales -> {"none", "concluida", "cancelada"}] /\ taken' \in [Sales -> Int]
    BY <1>2, <1>6, <1>w
  <2> QED BY <1>7, <2>1, <2>2, <2>3
<1>g. \A x : x \in raced => x \in raced'
  OBVIOUS
<1>12. Booked'
  <2>1. StockMatches'
    <3> SUFFICES ASSUME NEW p \in Products, p \notin raced', p \notin Doubled
                 PROVE  product'[p].stock = moved'[p]
      BY DEF StockMatches, Doubled
    <3>1. product[p].stock = moved[p]
      BY <1>1, <1>g DEF Booked, TotalsMatchRows, StockMatches
    <3>2. CASE p \in Goods(s)
      <4>1. r.product[p] = product[p]
        BY <1>1, <1>2, <1>g, <3>2 DEF InHand, r, asked
      <4> QED BY <1>7, <1>w, <3>1, <3>2, <4>1
    <3>3. CASE p \notin Goods(s)
      BY <1>3, <1>6, <1>7, <1>w, <3>1, <3>3
    <3> QED BY <3>2, <3>3
  <2>2. DebtMatches' /\ DrawerMatches'
    BY <1>1, <1>g, <1>w DEF Booked, TotalsMatchRows, DebtMatches, DrawerMatches
  <2>4. GoodsTakenOnce'
    <3> SUFFICES ASSUME NEW x \in Sales, x \notin raced'
                 PROVE  taken'[x] = IF sale'[x] = "concluida" THEN 1 ELSE 0
      BY DEF GoodsTakenOnce
    <3>1. taken[x] = IF sale[x] = "concluida" THEN 1 ELSE 0
      BY <1>1, <1>g DEF Booked, GoodsTakenOnce
    <3>2. x = s => sale[x] = "concluida"
      BY <1>1, <1>g DEF Tested, r, asked, s
    <3> QED BY <1>2, <1>6, <1>w, <3>1, <3>2
  <2>7. \A x, y \in Boxes \ raced' :
          /\ box'[x].status = "aberto" /\ box'[y].status = "aberto"
          /\ \/ box'[x].terminal = box'[y].terminal /\ box'[x].terminal \notin raced'
             \/ box'[x].operator = box'[y].operator /\ box'[x].operator \notin raced'
          => x = y
    BY <1>1, <1>g, <1>w DEF Booked
  <2>8. /\ "terminals" \notin raced' => terminals' <= MaxTerminals
        /\ \A x \in Boxes : box'[x] = NoBox => drawer'[x] = 0
    BY <1>1, <1>g, <1>w DEF Booked
  <2> QED BY <2>1, <2>2, <2>4, <2>7, <2>8 DEF Booked, TotalsMatchRows
<1>13. Orderly'
  <2>1. \A d \in Clients \ {c} : request'[d] = request[d]
    BY <1>1, <1>w
  <2>2. DOMAIN request' = Clients /\ request'[c].step = "idle"
    BY <1>1, <1>w
  <2> QED BY <1>1, <1>6, <1>w, <1>10, <1>11, <1>12, <2>1, <2>2, StepKeeps DEF r
<1> QED BY <1>6, <1>13, <1>w DEF StaysClosed, FitsLimit, Customer

\* the row of one product is saved, with a movement that makes up for its change
LEMMA SaveProductKeeps ==
  ASSUME Orderly, NEW c \in Clients, raced' = raced \cup Contended', request[c].step = "save",
         request[c].call.op \in {"move", "edit", "delete"}, NEW row \in Product, NEW delta \in Int,
         row.stock = request[c].product[request[c].call.product].stock + delta,
         SaveProduct(c, request[c].call.product, row, delta)
  PROVE  Orderly' /\ StaysClosed /\ FitsLimit
<1> DEFINE r == request[c]
           p == r.call.product
<1>1. /\ c \in InFlight /\ r.call \in Calls /\ InHand(r) /\ DOMAIN request = Clients
      /\ Shape /\ Booked
  BY AtSave DEF Orderly
<1>2. p \in Products /\ ProductsOf(r.call) = {p}
  BY <1>1 DEF Calls, ProductsOf
<1>6. /\ product \in [Products -> Product] /\ moved \in [Products -> Int]
      /\ customer \in [Customers -> Customer] /\ owed \in [Customers -> Int]
      /\ sale \in [Sales -> {"none", "concluida", "cancelada"}] /\ taken \in [Sales -> Int]
      /\ box \in [Boxes -> Box \cup {NoBox}] /\ drawer \in [Boxes -> Int] /\ terminals \in Nat
  BY <1>1 DEF Shape
<1>w. /\ product' = Written(product, [q \in {p} |-> row])
      /\ moved' = [moved EXCEPT ![p] = @ + delta] /\ sale' = sale /\ taken' = taken
      /\ box' = box /\ drawer' = drawer /\ terminals' = terminals /\ customer' = customer /\ owed' = owed
      /\ request' = [request EXCEPT ![c] = [step |-> "idle"]]
  BY DEF SaveProduct, Done, tills, tabs
<1> HIDE DEF r, p
<1>7. product' = [q \in Products |-> IF q \in {p} THEN row ELSE product[q]]
  BY <1>2, <1>6, <1>w DEF Written
<1>10. Spares(Uses(r))
  <2>1. p \in Uses(r)
    BY <1>1, <1>2, UsedRows DEF r, p
  <2> QED BY <1>7, <1>w, <2>1 DEF Spares, OpenAt, OpenBy
<1>11. product' \in [Products -> Product] /\ moved' \in [Products -> Int]
  BY <1>2, <1>6, <1>7, <1>w
<1>g. \A x : x \in raced => x \in raced'
  OBVIOUS
<1>12. Booked'
  <2>1. StockMatches'
    <3> SUFFICES ASSUME NEW q \in Products, q \notin raced', q \notin Doubled
                 PROVE  product'[q].stock = moved'[q]
      BY DEF StockMatches, Doubled
    <3>1. product[q].stock = moved[q]
      BY <1>1, <1>g DEF Booked, TotalsMatchRows, StockMatches
    <3>2. CASE q = p
      <4>1. r.product[p] = product[p]
        BY <1>1, <1>2, <1>g, <3>2 DEF InHand, r
      <4>2. row.stock = r.product[p].stock + delta
        BY DEF r, p
      <4> QED BY <1>2, <1>6, <1>7, <1>w, <3>1, <3>2, <4>1, <4>2
    <3>3. CASE q # p
      BY <1>6, <1>7, <1>w, <3>1, <3>3
    <3> QED BY <3>2, <3>3
  <2>2. DebtMatches' /\ DrawerMatches' /\ GoodsTakenOnce'
    BY <1>1, <1>g, <1>w DEF Booked, TotalsMatchRows, DebtMatches, DrawerMatches, GoodsTakenOnce
  <2>7. \A x, y \in Boxes \ raced' :
          /\ box'[x].status = "aberto" /\ box'[y].status = "aberto"
          /\ \/ box'[x].terminal = box'[y].terminal /\ box'[x].terminal \notin raced'
             \/ box'[x].operator = box'[y].operator /\ box'[x].operator \notin raced'
          => x = y
    BY <1>1, <1>g, <1>w DEF Booked
  <2>8. /\ "terminals" \notin raced' => terminals' <= MaxTerminals
        /\ \A x \in Boxes : box'[x] = NoBox => drawer'[x] = 0
    BY <1>1, <1>g, <1>w DEF Booked
  <2> QED BY <2>1, <2>2, <2>7, <2>8 DEF Booked, TotalsMatchRows
<1>13. Orderly'
  <2>1. \A d \in Clients \ {c} : request'[d] = request[d]
    BY <1>1, <1>w
  <2>2. DOMAIN request' = Clients /\ request'[c].step = "idle"
    BY <1>1, <1>w
  <2> QED BY <1>1, <1>6, <1>w, <1>10, <1>11, <1>12, <2>1, <2>2, StepKeeps DEF r
<1> QED BY <1>6, <1>13, <1>w DEF StaysClosed, FitsLimit, Customer

\* the row of one customer is saved, with a ledger entry that makes up for its change
LEMMA SaveCustomerKeeps ==
  ASSUME Orderly, NEW c \in Clients, raced' = raced \cup Contended', request[c].step = "save",
         request[c].call.op \in {"pay", "limit"}, NEW row \in Customer, NEW delta \in Int, delta <= 0,
         row.debt = request[c].customer[request[c].call.customer].debt + delta,
         customer' = Written(customer, [k \in {request[c].call.customer} |-> row]),
         owed' = [owed EXCEPT ![request[c].call.customer] = @ + delta],
         Done(c), UNCHANGED <<stock, tills>>
  PROVE  Orderly' /\ StaysClosed /\ FitsLimit
<1> DEFINE r == request[c]
           k == r.call.customer
<1>1. /\ c \in InFlight /\ r.call \in Calls /\ InHand(r) /\ DOMAIN request = Clients
      /\ Shape /\ Booked
  BY AtSave DEF Orderly
<1>2. k \in Customers /\ CustomersOf(r.call) = {k}
  BY <1>1 DEF Calls, CustomersOf
<1>6. /\ product \in [Products -> Product] /\ moved \in [Products -> Int]
      /\ customer \in [Customers -> Customer] /\ owed \in [Customers -> Int]
      /\ sale \in [Sales -> {"none", "concluida", "cancelada"}] /\ taken \in [Sales -> Int]
      /\ box \in [Boxes -> Box \cup {NoBox}] /\ drawer \in [Boxes -> Int] /\ terminals \in Nat
  BY <1>1 DEF Shape
<1>w. /\ customer' = Written(customer, [j \in {k} |-> row]) /\ owed' = [owed EXCEPT ![k] = @ + delta]
      /\ product' = product /\ moved' = moved /\ sale' = sale /\ taken' = taken
      /\ box' = box /\ drawer' = drawer /\ terminals' = terminals
      /\ request' = [request EXCEPT ![c] = [step |-> "idle"]]
  BY DEF Done, stock, tills
<1> HIDE DEF r, k
<1>7. customer' = [j \in Customers |-> IF j \in {k} THEN row ELSE customer[j]]
  BY <1>2, <1>6, <1>w DEF Written
<1>10. Spares(Uses(r))
  <2>1. k \in Uses(r)
    BY <1>1, <1>2, UsedRows DEF r, k
  <2> QED BY <1>7, <1>w, <2>1 DEF Spares, OpenAt, OpenBy
<1>11. customer' \in [Customers -> Customer] /\ owed' \in [Customers -> Int]
  <2>1. customer' \in [Customers -> Customer]
    BY <1>6, <1>7
  <2>2. owed' = [owed EXCEPT ![k] = @ + delta]
    BY <1>w
  <2>3. owed' \in [Customers -> Int]
    <3>1. owed[k] + delta \in Int
      BY <1>2, <1>6
    <3> QED BY <1>6, <2>2, <3>1
  <2> QED BY <2>1, <2>3
<1>g. \A x : x \in raced => x \in raced'
  OBVIOUS
<1>h. k \notin raced' => /\ r.customer[k] = customer[k] /\ customer[k].debt = owed[k]
                         /\ row.debt = customer[k].debt + delta
  <2>1. k \notin raced' => r.customer[k] = customer[k]
    BY <1>1, <1>2, <1>g DEF InHand, r
  <2>2. k \notin raced' => customer[k].debt = owed[k]
    BY <1>1, <1>2, <1>g DEF Booked, TotalsMatchRows, DebtMatches
  <2> QED BY <2>1, <2>2 DEF r, k
<1>12. Booked'
  <2>1. DebtMatches'
    <3> SUFFICES ASSUME NEW j \in Customers, j \notin raced'
                 PROVE  customer'[j].debt = owed'[j]
      BY DEF DebtMatches
    <3>1. customer[j].debt = owed[j]
      BY <1>1, <1>g DEF Booked, TotalsMatchRows, DebtMatches
    <3> QED BY <1>2, <1>6, <1>7, <1>h, <1>w, <3>1
  <2>2. StockMatches' /\ DrawerMatches' /\ GoodsTakenOnce'
    BY <1>1, <1>g, <1>w DEF Booked, TotalsMatchRows, StockMatches, Doubled, DrawerMatches, GoodsTakenOnce
  <2>7. \A x, y \in Boxes \ raced' :
          /\ box'[x].status = "aberto" /\ box'[y].status = "aberto"
          /\ \/ box'[x].terminal = box'[y].terminal /\ box'[x].terminal \notin raced'
             \/ box'[x].operator = box'[y].operator /\ box'[x].operator \notin raced'
          => x = y
    BY <1>1, <1>g, <1>w DEF Booked
  <2>8. /\ "terminals" \notin raced' => terminals' <= MaxTerminals
        /\ \A x \in Boxes : box'[x] = NoBox => drawer'[x] = 0
    BY <1>1, <1>g, <1>w DEF Booked
  <2> QED BY <2>1, <2>2, <2>7, <2>8 DEF Booked, TotalsMatchRows
<1>13. Orderly'
  <2>1. \A d \in Clients \ {c} : request'[d] = request[d]
    BY <1>1, <1>w
  <2>2. DOMAIN request' = Clients /\ request'[c].step = "idle"
    BY <1>1, <1>w
  <2> QED BY <1>1, <1>6, <1>w, <1>10, <1>11, <1>12, <2>1, <2>2, StepKeeps DEF r
<1>14. FitsLimit
  <2> SUFFICES ASSUME NEW j \in Customers, j \notin raced' PROVE ~(customer'[j].debt > customer[j].debt)
    BY DEF FitsLimit
  <2> QED BY <1>2, <1>6, <1>7, <1>h DEF Customer
<1> QED BY <1>13, <1>14, <1>w DEF StaysClosed

\* a box that is opened is the only one of its terminal and operator
LEMMA OpenSaveKeeps ==
  ASSUME Orderly, NEW c \in Clients, OpenSave(c), raced' = raced \cup Contended'
  PROVE  Orderly' /\ StaysClosed /\ FitsLimit
<1> DEFINE r == request[c]
           asked == r.call
           new == [status |-> "aberto", terminal |-> asked.terminal, operator |-> asked.operator, balance |-> 0]
<1>1. /\ r.step = "save" /\ asked.op = "open" /\ c \in InFlight /\ asked \in Calls
      /\ Tested(r) /\ DOMAIN request = Clients /\ Shape /\ Booked
  BY AtSave DEF OpenSave, At, Orderly
<1>2. asked.terminal \in Uses(r) \cap Terminals /\ asked.operator \in Uses(r) \cap Operators
  BY <1>1, UsedRows
<1>3. PICK b \in Boxes : box[b] = NoBox /\ box' = [box EXCEPT ![b] = new]
  BY DEF OpenSave
<1>6. /\ customer \in [Customers -> Customer]
      /\ box \in [Boxes -> Box \cup {NoBox}] /\ drawer \in [Boxes -> Int]
  BY <1>1 DEF Shape
<1>w. /\ product' = product /\ moved' = moved /\ sale' = sale /\ taken' = taken
      /\ drawer' = drawer /\ terminals' = terminals /\ customer' = customer /\ owed' = owed
      /\ request' = [request EXCEPT ![c] = [step |-> "idle"]]
  BY DEF OpenSave, Done, stock, tabs
<1>7. /\ box'[b] = new /\ \A x \in Boxes \ {b} : box'[x] = box[x]
      /\ new \in Box /\ new # NoBox
      /\ box' \in [Boxes -> Box \cup {NoBox}]
  <2>1. new \in Box /\ new # NoBox
    BY <1>2 DEF Box, NoBox
  <2> HIDE DEF new
  <2> QED BY <1>3, <1>6, <2>1
<1>8. Spares(Uses(r))
  <2>1. \A t \in Terminals \ Uses(r) : OpenAt(t)' \subseteq OpenAt(t)
    BY <1>2, <1>7 DEF OpenAt
  <2>2. \A o \in Operators \ Uses(r) : OpenBy(o)' \subseteq OpenBy(o)
    BY <1>2, <1>7 DEF OpenBy
  <2>3. \A x \in Boxes : box[x] # NoBox => box'[x] = box[x]
    BY <1>3, <1>7
  <2> QED BY <1>w, <2>1, <2>2, <2>3 DEF Spares
<1>g. \A x : x \in raced => x \in raced'
  OBVIOUS
<1>9. Booked'
  <2>1. /\ asked.terminal \notin raced' => OpenAt(asked.terminal) \subseteq raced
        /\ asked.operator \notin raced' => OpenBy(asked.operator) \subseteq raced
    BY <1>1, <1>g DEF Tested
  <2>2. \A x, y \in Boxes \ raced' :
          /\ box'[x].status = "aberto" /\ box'[y].status = "aberto"
          /\ \/ box'[x].terminal = box'[y].terminal /\ box'[x].terminal \notin raced'
             \/ box'[x].operator = box'[y].operator /\ box'[x].operator \notin raced'
          => x = y
    <3> SUFFICES ASSUME NEW x \in Boxes \ raced', NEW y \in Boxes \ raced',
                        box'[x].status = "aberto", box'[y].status = "aberto",
                        \/ box'[x].terminal = box'[y].terminal /\ box'[x].terminal \notin raced'
                        \/ box'[x].operator = box'[y].operator /\ box'[x].operator \notin raced'
                 PROVE  x = y
      OBVIOUS
    <3>1. CASE x # b /\ y # b
      BY <1>1, <1>7, <1>g, <3>1 DEF Booked
    <3>2. CASE x = b /\ y # b
      <4>1. y \in OpenAt(asked.terminal) \/ y \in OpenBy(asked.operator)
        BY <1>7, <3>2 DEF OpenAt, OpenBy
      <4> QED BY <1>7, <1>g, <2>1, <3>2, <4>1 DEF OpenAt, OpenBy
    <3>3. CASE x # b /\ y = b
      <4>1. x \in OpenAt(asked.terminal) \/ x \in OpenBy(asked.operator)
        BY <1>7, <3>3 DEF OpenAt, OpenBy
      <4> QED BY <1>7, <1>g, <2>1, <3>3, <4>1 DEF OpenAt, OpenBy
    <3> QED BY <3>1, <3>2, <3>3
  <2>3. StockMatches' /\ DebtMatches' /\ GoodsTakenOnce'
    BY <1>1, <1>g, <1>w DEF Booked, TotalsMatchRows, StockMatches, Doubled, DebtMatches, GoodsTakenOnce
  <2>4. DrawerMatches' /\ \A x \in Boxes : box'[x] = NoBox => drawer'[x] = 0
    <3>1. drawer[b] = 0 /\ new.balance = 0
      BY <1>1, <1>3 DEF Booked
    <3> QED BY <1>1, <1>7, <1>g, <1>w, <3>1 DEF Booked, TotalsMatchRows, DrawerMatches
  <2>5. "terminals" \notin raced' => terminals' <= MaxTerminals
    BY <1>1, <1>g, <1>w DEF Booked
  <2> QED BY <2>2, <2>3, <2>4, <2>5 DEF Booked, TotalsMatchRows
<1>10. Orderly'
  <2>1. \A d \in Clients \ {c} : request'[d] = request[d]
    BY <1>1, <1>w
  <2>2. DOMAIN request' = Clients /\ request'[c].step = "idle"
    BY <1>1, <1>w
  <2> QED BY <1>1, <1>7, <1>8, <1>9, <1>w, <2>1, <2>2, StepKeeps DEF Shape
<1> QED BY <1>3, <1>6, <1>7, <1>10, <1>w DEF StaysClosed, FitsLimit, Customer, NoBox

\* a box that is closed was open when it was read
LEMMA CloseSaveKeeps ==
  ASSUME Orderly, NEW c \in Clients, CloseSave(c), raced' = raced \cup Contended'
  PROVE  Orderly' /\ StaysClosed /\ FitsLimit
<1> DEFINE r == request[c]
           asked == r.call
<1>1. /\ r.step = "save" /\ asked.op = "close" /\ c \in InFlight /\ asked \in Calls
      /\ CopiesInHand(r) /\ InHand(r) /\ DOMAIN request = Clients /\ Shape /\ Booked
  BY AtSave DEF CloseSave, At, Orderly
<1>2. PICK b \in Boxes : DOMAIN r.box = {b}
  BY <1>1 DEF CopiesInHand
<1>3. /\ r.box[b] \in Box /\ r.box[b].status = "aberto" /\ box[b] # NoBox
      /\ b \in Uses(r) /\ (b \notin raced => r.box[b] = box[b])
  BY <1>1, <1>2, UsedRows DEF CopiesInHand, InHand
<1>6. /\ customer \in [Customers -> Customer]
      /\ box \in [Boxes -> Box \cup {NoBox}] /\ drawer \in [Boxes -> Int]
  BY <1>1 DEF Shape
<1>w. /\ box' = Written(box, [x \in DOMAIN r.box |-> [r.box[x] EXCEPT !.status = "fechado"]])
      /\ product' = product /\ moved' = moved /\ sale' = sale /\ taken' = taken
      /\ drawer' = drawer /\ terminals' = terminals /\ customer' = customer /\ owed' = owed
      /\ request' = [request EXCEPT ![c] = [step |-> "idle"]]
  BY DEF CloseSave, Done, stock, tabs
<1>7. /\ \A x \in Boxes \ {b} : box'[x] = box[x]
      /\ box'[b] \in Box /\ box'[b].status = "fechado" /\ box'[b].balance = r.box[b].balance
      /\ box' \in [Boxes -> Box \cup {NoBox}]
  <2>1. box' = [x \in Boxes |-> IF x \in {b} THEN [r.box[x] EXCEPT !.status = "fechado"] ELSE box[x]]
    BY <1>2, <1>6, <1>w DEF Written
  <2>2. box'[b] = [r.box[b] EXCEPT !.status = "fechado"]
    BY <2>1
  <2>3. box'[b] \in Box /\ box'[b].status = "fechado" /\ box'[b].balance = r.box[b].balance
    BY <1>3, <2>2 DEF Box
  <2> QED BY <1>6, <2>1, <2>3
<1>n. NoBox \notin Box
  BY DEF NoBox, Box
<1>8. Spares(Uses(r))
  <2>1. \A t : OpenAt(t)' \subseteq OpenAt(t) /\ OpenBy(t)' \subseteq OpenBy(t)
    BY <1>7 DEF OpenAt, OpenBy
  <2> QED BY <1>3, <1>7, <1>n, <1>w, <2>1 DEF Spares
<1>g. \A x : x \in raced => x \in raced'
  OBVIOUS
<1>9. Booked'
  <2>2. \A x, y \in Boxes \ raced' :
          /\ box'[x].status = "aberto" /\ box'[y].status = "aberto"
          /\ \/ box'[x].terminal = box'[y].terminal /\ box'[x].terminal \notin raced'
             \/ box'[x].operator = box'[y].operator /\ box'[x].operator \notin raced'
          => x = y
    BY <1>1, <1>7, <1>g DEF Booked
  <2>3. StockMatches' /\ DebtMatches' /\ GoodsTakenOnce'
    BY <1>1, <1>g, <1>w DEF Booked, TotalsMatchRows, StockMatches, Doubled, DebtMatches, GoodsTakenOnce
  <2>4. DrawerMatches'
    BY <1>1, <1>3, <1>7, <1>g, <1>w DEF Booked, TotalsMatchRows, DrawerMatches
  <2>5. /\ "terminals" \notin raced' => terminals' <= MaxTerminals
        /\ \A x \in Boxes : box'[x] = NoBox => drawer'[x] = 0
    BY <1>1, <1>3, <1>7, <1>g, <1>n, <1>w DEF Booked
  <2> QED BY <2>2, <2>3, <2>4, <2>5 DEF Booked, TotalsMatchRows
<1>10. Orderly'
  <2>1. \A d \in Clients \ {c} : request'[d] = request[d]
    BY <1>1, <1>w
  <2>2. DOMAIN request' = Clients /\ request'[c].step = "idle"
    BY <1>1, <1>w
  <2> QED BY <1>1, <1>7, <1>8, <1>9, <1>w, <2>1, <2>2, StepKeeps DEF Shape
<1>11. StaysClosed
  BY <1>3, <1>7, <1>g DEF StaysClosed
<1> QED BY <1>6, <1>10, <1>11, <1>w DEF FitsLimit, Customer

\* a terminal that is registered fits the plan
LEMMA RegisterSaveKeeps ==
  ASSUME Orderly, NEW c \in Clients, RegisterSave(c), raced' = raced \cup Contended'
  PROVE  Orderly' /\ StaysClosed /\ FitsLimit
<1> DEFINE r == request[c]
<1>1. /\ r.step = "save" /\ r.call.op = "register" /\ c \in InFlight /\ r.call \in Calls
      /\ Tested(r) /\ DOMAIN request = Clients /\ Shape /\ Booked
  BY AtSave DEF RegisterSave, At, Orderly
<1>6. customer \in [Customers -> Customer] /\ terminals \in Nat /\ MaxTerminals \in Nat
  BY <1>1, SalesAssumption DEF Shape, SalesAssumption
<1>w. /\ product' = product /\ moved' = moved /\ sale' = sale /\ taken' = taken
      /\ box' = box /\ drawer' = drawer /\ customer' = customer /\ owed' = owed
      /\ terminals' = terminals + 1
      /\ request' = [request EXCEPT ![c] = [step |-> "idle"]]
  BY DEF RegisterSave, Done, stock, tabs
<1>8. Spares(Uses(r))
  <2>1. "terminals" \in Uses(r)
    BY <1>1, UsedRows
  <2> QED BY <1>w, <2>1 DEF Spares, OpenAt, OpenBy
<1>g. \A x : x \in raced => x \in raced'
  OBVIOUS
<1>9. Booked'
  <2>1. "terminals" \notin raced' => terminals' <= MaxTerminals
    BY <1>1, <1>6, <1>g, <1>w DEF Tested
  <2>2. TotalsMatchRows' /\ GoodsTakenOnce'
    BY <1>1, <1>g, <1>w DEF Booked, TotalsMatchRows, StockMatches, Doubled, DebtMatches, DrawerMatches, GoodsTakenOnce
  <2>3. \A x, y \in Boxes \ raced' :
          /\ box'[x].status = "aberto" /\ box'[y].status = "aberto"
          /\ \/ box'[x].terminal = box'[y].terminal /\ box'[x].terminal \notin raced'
             \/ box'[x].operator = box'[y].operator /\ box'[x].operator \notin raced'
          => x = y
    BY <1>1, <1>g, <1>w DEF Booked
  <2>4. \A x \in Boxes : box'[x] = NoBox => drawer'[x] = 0
    BY <1>1, <1>w DEF Booked
  <2> QED BY <2>1, <2>2, <2>3, <2>4 DEF Booked
<1>10. Orderly'
  <2>1. \A d \in Clients \ {c} : request'[d] = request[d]
    BY <1>1, <1>w
  <2>2. DOMAIN request' = Clients /\ request'[c].step = "idle"
    BY <1>1, <1>w
  <2>3. terminals' \in Nat
    BY <1>6, <1>w
  <2> QED BY <1>1, <1>8, <1>9, <1>w, <2>1, <2>2, <2>3, StepKeeps DEF Shape
<1> QED BY <1>6, <1>10, <1>w DEF StaysClosed, FitsLimit, Customer

\* every step that commits keeps the invariant, the closed boxes and the limits
LEMMA WriteSteps ==
  ASSUME Orderly, NEW c \in Clients, raced' = raced \cup Contended',
         \/ SyncSave(c) \/ CancelSave(c) \/ OpenSave(c) \/ CloseSave(c) \/ RegisterSave(c)
         \/ MoveSave(c) \/ EditSave(c) \/ DeleteSave(c) \/ PaySave(c) \/ LimitSave(c)
  PROVE  Orderly' /\ StaysClosed /\ FitsLimit
<1> DEFINE asked == request[c].call
           step == request[c].step
           p == request[c].product[asked.product]
           k == request[c].customer[asked.customer]
<1>1. CASE SyncSave(c) \/ CancelSave(c) \/ OpenSave(c) \/ CloseSave(c) \/ RegisterSave(c)
  BY <1>1, SyncSaveKeeps, CancelSaveKeeps, OpenSaveKeeps, CloseSaveKeeps, RegisterSaveKeeps
<1>2. ASSUME step = "save", asked.op \in {"move", "edit", "delete"}
      PROVE  asked \in Calls /\ p \in Product
  BY <1>2, AtSave DEF Calls, ProductsOf, CopiesInHand
<1>3. ASSUME step = "save", asked.op \in {"pay", "limit"}
      PROVE  asked \in Calls /\ k \in Customer /\ asked.customer \in Customers
  BY <1>3, AtSave DEF Calls, CustomersOf, CopiesInHand
<1>4. CASE MoveSave(c)
  <2> DEFINE row == [p EXCEPT !.stock = @ + asked.delta]
  <2>1. step = "save" /\ asked.op = "move" /\ SaveProduct(c, asked.product, row, asked.delta)
    BY <1>4 DEF MoveSave, At
  <2>2. asked.delta \in Int /\ p \in Product
    BY <1>2, <2>1, SalesAssumption DEF Calls, SalesAssumption
  <2> HIDE DEF p
  <2>3. row \in Product /\ row.stock = p.stock + asked.delta
    BY <2>2 DEF Product
  <2> HIDE DEF row
  <2> QED BY <2>1, <2>2, <2>3, SaveProductKeeps DEF p
<1>5. CASE EditSave(c)
  <2> DEFINE row == [p EXCEPT !.price = IF asked.price = 0 THEN @ ELSE asked.price]
  <2>1. step = "save" /\ asked.op = "edit" /\ SaveProduct(c, asked.product, row, 0)
    BY <1>5 DEF EditSave, At
  <2>2. asked.price \in Nat /\ p \in Product
    BY <1>2, <2>1, SalesAssumption DEF Calls, SalesAssumption
  <2> HIDE DEF p
  <2>3. row \in Product /\ row.stock = p.stock + 0
    BY <2>2 DEF Product
  <2> HIDE DEF row
  <2> QED BY <2>1, <2>2, <2>3, SaveProductKeeps DEF p
<1>6. CASE DeleteSave(c)
  <2> DEFINE row == [p EXCEPT !.active = FALSE]
  <2>1. step = "save" /\ asked.op = "delete" /\ SaveProduct(c, asked.product, row, 0)
    BY <1>6 DEF DeleteSave, At
  <2>2. p \in Product
    BY <1>2, <2>1
  <2> HIDE DEF p
  <2>3. row \in Product /\ row.stock = p.stock + 0
    <3>1. row \in Product /\ row.stock = p.stock /\ p.stock \in Int
      BY <2>2 DEF Product
    <3> HIDE DEF row
    <3> QED BY <3>1
  <2> HIDE DEF row
  <2> QED BY <2>1, <2>2, <2>3, SaveProductKeeps DEF p
<1>7. CASE PaySave(c)
  <2> DEFINE row == [k EXCEPT !.debt = @ - asked.amount]
  <2>1. /\ step = "save" /\ asked.op = "pay" /\ Done(c) /\ UNCHANGED <<stock, tills>>
        /\ customer' = Written(customer, [j \in {asked.customer} |-> row])
        /\ owed' = [owed EXCEPT ![asked.customer] = @ - asked.amount]
    BY <1>7 DEF PaySave, At
  <2>2. /\ asked.amount \in Nat /\ k \in Customer /\ asked.customer \in Customers
        /\ owed \in [Customers -> Int]
    BY <1>3, <2>1, SalesAssumption DEF Calls, SalesAssumption, Orderly, Shape
  <2> HIDE DEF k
  <2>3. row \in Customer /\ row.debt = k.debt + (0 - asked.amount)
    BY <2>2 DEF Customer
  <2>4. owed' = [owed EXCEPT ![asked.customer] = @ + (0 - asked.amount)]
    <3>1. owed[asked.customer] - asked.amount = owed[asked.customer] + (0 - asked.amount)
      BY <2>2
    <3> QED BY <2>1, <3>1
  <2>5. 0 - asked.amount \in Int /\ 0 - asked.amount <= 0
    BY <2>2
  <2> HIDE DEF row
  <2> QED BY <2>1, <2>3, <2>4, <2>5, SaveCustomerKeeps DEF k
<1>8. CASE LimitSave(c)
  <2> DEFINE row == [k EXCEPT !.limit = asked.limit]
  <2>1. /\ step = "save" /\ asked.op = "limit" /\ Done(c) /\ UNCHANGED <<stock, tills>>
        /\ customer' = Written(customer, [j \in {asked.customer} |-> row])
        /\ owed' = owed
    BY <1>8 DEF LimitSave, At
  <2>2. /\ asked.limit \in Nat /\ k \in Customer /\ asked.customer \in Customers
        /\ owed \in [Customers -> Int]
    BY <1>3, <2>1, SalesAssumption DEF Calls, SalesAssumption, Orderly, Shape
  <2> HIDE DEF k
  <2>3. row \in Customer /\ row.debt = k.debt + 0
    BY <2>2 DEF Customer
  <2>4. owed' = [owed EXCEPT ![asked.customer] = @ + 0]
    BY <2>1, <2>2
  <2>5. 0 \in Int /\ 0 <= 0
    OBVIOUS
  <2> HIDE DEF row
  <2> QED BY <2>1, <2>3, <2>4, <2>5, SaveCustomerKeeps DEF k
<1> QED BY <1>1, <1>4, <1>5, <1>6, <1>7, <1>8

-----------------------------------------------------------------------------
(* Requests that arrive, and the theorems *)

\* a request that arrives may use the rows of others: these are raced for then
LEMMA AskKeeps ==
  ASSUME Orderly, NEW c \in Clients, NEW asked \in Calls, Ask(c, asked), raced' = raced \cup Contended'
  PROVE  Orderly'
<1>1. /\ UNCHANGED <<stock, tills, tabs>>
      /\ request' = [request EXCEPT ![c] = [step |-> "ask", call |-> asked]]
      /\ c \notin InFlight /\ DOMAIN request = Clients /\ Shape /\ raced \subseteq raced'
  BY DEF Ask, InFlight, Orderly, Shape
<1>2. /\ DOMAIN request' = Clients /\ request'[c] = [step |-> "ask", call |-> asked]
      /\ \A d \in Clients \ {c} : request'[d] = request[d]
  BY <1>1
<1>3. InFlight' = InFlight \cup {c}
  BY <1>1, <1>2 DEF InFlight
<1>4. Spares({})
  BY <1>1 DEF Spares, OpenAt, OpenBy, stock, tills, tabs
<1>5. \A d \in InFlight : Sound(request[d])' /\ (request[d].step = "save" => CopiesInHand(request[d])')
  <2> TAKE d \in InFlight
  <2>1. request'[d] = request[d]
    BY <1>1, <1>2 DEF InFlight
  <2> QED BY <1>1, <1>4, <2>1, OthersSound DEF Orderly
<1>6. Sound(request[c])' /\ request'[c].call = asked /\ request'[c].step = "ask"
  BY <1>2 DEF Sound, InHand, Tested
<1>7. Booked'
  BY <1>1, RacedGrows DEF Orderly
<1>8. \A d \in InFlight' : /\ request'[d].call \in Calls /\ request'[d].step \in {"ask", "load", "save"}
                           /\ request'[d].step = "save" => CopiesInHand(request[d])'
  BY <1>1, <1>2, <1>3, <1>5, <1>6 DEF InFlight, Shape
<1>9. raced' \subseteq Rows
  BY <1>1 DEF Contended, Shape
<1>10. Shape'
  BY <1>1, <1>2, <1>8, <1>9 DEF Shape, stock, tills, tabs
<1> QED BY <1>3, <1>5, <1>6, <1>7, <1>10 DEF Orderly

\* a shop before its first request
LEMMA InitOrderly == Init => Orderly
<1> SUFFICES ASSUME Init PROVE Orderly
  OBVIOUS
<1>1. InFlight = {}
  BY DEF Init, InFlight
<1>2. product \in [Products -> Product] /\ \A p \in Products : product[p].stock = 0
  BY SalesAssumption DEF Init, Product, SalesAssumption
<1>3. customer \in [Customers -> Customer] /\ \A k \in Customers : customer[k].debt = 0
  <2>1. Limits \subseteq Nat
    BY SalesAssumption DEF SalesAssumption
  <2>2. customer \in [Customers -> [debt : {0}, limit : Limits]]
    BY DEF Init
  <2>3. ASSUME NEW k \in Customers PROVE customer[k] \in Customer /\ customer[k].debt = 0
    <3>1. customer[k] \in [debt : {0}, limit : Limits]
      BY <2>2
    <3>2. customer[k].debt = 0 /\ customer[k].limit \in Limits
          /\ customer[k] = [debt |-> customer[k].debt, limit |-> customer[k].limit]
      BY <3>1
    <3>3. customer[k].limit \in Nat
      BY <2>1, <3>2, Zenon
    <3>4. customer[k].debt \in Int
      BY <3>2
    <3> QED BY <3>2, <3>3, <3>4 DEF Customer
  <2> QED BY <2>2, <2>3
<1>4. box \in [Boxes -> Box \cup {NoBox}] /\ \A b \in Boxes : box[b] = NoBox /\ box[b].status # "aberto"
  BY DEF Init, NoBox
<1>5. Shape
  <2>1. /\ moved \in [Products -> Int] /\ owed \in [Customers -> Int]
        /\ sale \in [Sales -> {"none", "concluida", "cancelada"}] /\ taken \in [Sales -> Int]
        /\ drawer \in [Boxes -> Int] /\ terminals \in Nat /\ raced \subseteq Rows
        /\ DOMAIN request = Clients
    BY DEF Init
  <2> QED BY <1>1, <1>2, <1>3, <1>4, <2>1 DEF Shape
<1>6. Booked
  <2>1. MaxTerminals \in Nat
    BY SalesAssumption DEF SalesAssumption
  <2> QED BY <1>2, <1>3, <1>4, <2>1 DEF Init, Booked, TotalsMatchRows, StockMatches, DebtMatches,
                                        DrawerMatches, GoodsTakenOnce
<1>7. Contended = {}
  BY <1>1 DEF Contended
<1> QED BY <1>1, <1>5, <1>6, <1>7 DEF Orderly

\* a step, or a stutter
LEMMA NextKeeps ==
  ASSUME Orderly, [Next]_vars
  PROVE  Orderly' /\ StaysClosed /\ FitsLimit
<1>1. ASSUME UNCHANGED <<stock, tills, tabs>>
      PROVE  StaysClosed /\ FitsLimit
  BY <1>1 DEF StaysClosed, FitsLimit, stock, tills, tabs, Orderly, Shape, Customer
<1>2. ASSUME NEW c \in Clients, NEW asked \in Calls, Ask(c, asked), raced' = raced \cup Contended'
      PROVE  Orderly' /\ StaysClosed /\ FitsLimit
  BY <1>1, <1>2, AskKeeps DEF Ask
<1>3. ASSUME NEW c \in Clients, Step(c), raced' = raced \cup Contended'
      PROVE  Orderly' /\ StaysClosed /\ FitsLimit
  <2>1. CASE \/ SyncCheck(c) \/ SyncLoad(c) \/ CancelLoad(c) \/ OpenCheck(c) \/ CloseLoad(c)
             \/ RegisterCheck(c) \/ LoadProduct(c) \/ LoadCustomer(c) \/ RollBack(c)
    <3>1. UNCHANGED <<stock, tills, tabs>>
      BY <2>1 DEF SyncCheck, SyncLoad, CancelLoad, OpenCheck, CloseLoad, RegisterCheck,
                  LoadProduct, LoadCustomer, RollBack
    <3> QED BY <1>1, <1>3, <2>1, <3>1, ReadSteps
  <2>2. CASE \/ SyncSave(c) \/ CancelSave(c) \/ OpenSave(c) \/ CloseSave(c) \/ RegisterSave(c)
             \/ MoveSave(c) \/ EditSave(c) \/ DeleteSave(c) \/ PaySave(c) \/ LimitSave(c)
    BY <1>3, <2>2, WriteSteps
  <2> QED BY <1>3, <2>1, <2>2 DEF Step
<1>4. ASSUME UNCHANGED vars
      PROVE  Orderly' /\ StaysClosed /\ FitsLimit
  <2>1. /\ UNCHANGED <<stock, tills, tabs>> /\ request' = request /\ raced' = raced
    BY <1>4 DEF vars
  <2>2. InFlight' = InFlight /\ Contended' = Contended /\ Spares({})
    BY <2>1 DEF InFlight, Contended, Spares, OpenAt, OpenBy, stock, tills, tabs, Uses
  <2>3. Shape /\ Booked /\ Contended \subseteq raced /\ \A d \in InFlight : Sound(request[d])
    BY DEF Orderly
  <2>4. \A d \in InFlight : Sound(request[d])' /\ (request[d].step = "save" => CopiesInHand(request[d])')
    BY <2>1, <2>2, <2>3, OthersSound
  <2>5. Booked'
    BY <2>1, <2>3, RacedGrows
  <2>6. Shape'
    BY <2>1, <2>2, <2>3, <2>4 DEF Shape, stock, tills, tabs
  <2> QED BY <1>1, <2>1, <2>2, <2>3, <2>4, <2>5, <2>6 DEF Orderly
<1> QED BY <1>2, <1>3, <1>4 DEF Next

\* the open boxes of a terminal, or of an operator, that nobody raced for are one
LEMMA OpenBoxes == ASSUME Orderly PROVE OneOpenBox
<1>1. ASSUME NEW S, \A a, b \in S : a = b
      PROVE  Cardinality(S) <= 1
  <2>1. CASE S = {}
    BY <2>1, FS_EmptySet
  <2>2. CASE S # {}
    <3>1. PICK a : S = {a}
      BY <1>1, <2>2
    <3>2. Cardinality({a}) = 1
      BY FS_Singleton
    <3> QED BY <3>1, <3>2
  <2> QED BY <2>1, <2>2
<1>2. \A t \in Terminals \ raced : \A a, b \in OpenAt(t) \ raced : a = b
  BY DEF Orderly, Booked, OpenAt
<1>3. \A o \in Operators \ raced : \A a, b \in OpenBy(o) \ raced : a = b
  BY DEF Orderly, Booked, OpenBy
<1> QED BY <1>1, <1>2, <1>3 DEF Orderly, Booked, OneOpenBox

\* Whatever races, the rows nobody raced for have true copies and true tests in
\* the requests that use them: the invariant the other theorems rest on.
THEOREM StaysOrderly == Spec => []Orderly
<1>1. Orderly /\ [Next]_vars => Orderly'
  BY NextKeeps
<1> QED BY InitOrderly, <1>1, PTL DEF Spec

\* However often a sale is sent again by a till and canceled in between, it has
\* taken its goods once when it is completed and has none out when it is not,
\* unless two requests for it were under way at the same time.
THEOREM GoodsTaken == Spec => []GoodsTakenOnce
<1>1. Orderly => GoodsTakenOnce
  BY DEF Orderly, Booked
<1> QED BY StaysOrderly, <1>1, PTL

\* The stock in a product's row is the sum of its movements, the debt in a
\* customer's row that of the ledger, the balance of a box the cash of its
\* sales, whatever prices are edited meanwhile and whatever rows others race
\* for: a total that differs belongs to a row that two requests used at once,
\* or to a product on two lines of a receipt.
THEOREM TotalsStay == Spec => []TotalsMatchRows
<1>1. Orderly => TotalsMatchRows
  BY DEF Orderly, Booked
<1> QED BY StaysOrderly, <1>1, PTL

\* A terminal or an operator with two open boxes had two openings under way at
\* once, or a sale under way while one of these boxes was closed.
THEOREM BoxesApart == Spec => []OneOpenBox
<1>1. Orderly => OneOpenBox
  BY OpenBoxes
<1> QED BY StaysOrderly, <1>1, PTL

\* A closed box changes only if another request was at it when it was closed.
THEOREM ClosedStays == Spec => ClosedBoxIsFinal
<1>1. Orderly /\ [Next]_vars
        => [\A b \in Boxes \ raced' : box[b].status = "fechado" => box'[b] = box[b]]_vars
  BY NextKeeps DEF StaysClosed
<1> QED BY StaysOrderly, <1>1, PTL DEF Spec, ClosedBoxIsFinal

\* A sale put on a tab fits in the limit the tab has when the sale is saved,
\* unless two requests were at that tab at the same time.
THEOREM TabsWithinLimit == Spec => WithinLimit
<1>1. Orderly /\ [Next]_vars
        => [\A k \in Customers \ raced' : customer'[k].debt > customer[k].debt
                                            => customer'[k].debt <= customer[k].limit]_vars
  BY NextKeeps DEF FitsLimit
<1> QED BY StaysOrderly, <1>1, PTL DEF Spec, WithinLimit

-----------------------------------------------------------------------------
(* The sessions of a browser *)

\* what a tab has in hand
Hands ==
  {Quiet} \cup [pc : {"session", "user", "create"}, token : Tokens]
    \cup [pc : {"revoke"}, token : Tokens, cookie : Tokens]
    \cup [pc : {"answered"}, token : Tokens \cup {NoCookie}, cookie : Tokens \cup {NoCookie}]

SessionTypes ==
  /\ token \in [Tokens -> {"none", "live", "revoked", "expired"}]
  /\ cookie \in Tokens \cup {NoCookie} /\ tab \in [Tabs -> Hands]

\* the new token a request is to put into the cookie; the one it presented
Brings(p) == tab[p].pc \in {"revoke", "answered"} /\ tab[p].cookie # NoCookie
Presents(p) == tab[p].pc # "quiet" /\ tab[p].token # NoCookie

\* no token is known to anybody before its row is there
Handed ==
  /\ cookie # NoCookie => token[cookie] # "none"
  /\ \A p \in Tabs : Presents(p) => token[tab[p].token] # "none"
  /\ \A p \in Tabs : Brings(p) => token[tab[p].cookie] # "none"

\* a new token is known to the request that brings it and to nobody else, so
\* that nothing revokes it before it is in the cookie
Fresh ==
  \A p \in Tabs : Brings(p) =>
    /\ token[tab[p].cookie] # "revoked" /\ cookie # tab[p].cookie
    /\ \A q \in Tabs : Presents(q) => tab[q].token # tab[p].cookie
    /\ \A q \in Tabs \ {p} : Brings(q) => tab[q].cookie # tab[p].cookie

\* the invariant: the property, and what keeps it when an answer arrives
SessionInv == SessionTypes /\ Handed /\ Fresh /\ ClientKeepsSession

LEMMA SessionsStep ==
  ASSUME SessionInv, [SessionsNext]_sessionVars
  PROVE  SessionInv'
<1> USE SessionsAssumption DEF SessionInv
<1>0. NoCookie \notin Tokens
  BY DEF Tokens
<1>1. CASE Expires
  BY <1>0, <1>1 DEF Expires, Active, SessionTypes, Handed, Fresh, ClientKeepsSession, Brings, Presents
<1>2. CASE ToggleUser
  BY <1>0, <1>2 DEF ToggleUser, SessionTypes, Handed, Fresh, ClientKeepsSession, Brings, Presents
<1>3. ASSUME NEW p \in Tabs, Login(p) PROVE SessionInv'
  BY <1>0, <1>3 DEF Login, Created, Go, Unused, Quiet, Hands, SessionTypes, Handed, Fresh, ClientKeepsSession, Brings, Presents
<1>4. ASSUME NEW p \in Tabs, Refresh(p) PROVE SessionInv'
  BY <1>0, <1>4 DEF Refresh, Go, Quiet, Hands, SessionTypes, Handed, Fresh, ClientKeepsSession, Brings, Presents
<1>5. ASSUME NEW p \in Tabs, ReadSession(p) PROVE SessionInv'
  BY <1>0, <1>5 DEF ReadSession, Go, Quiet, Hands, SessionTypes, Handed, Fresh, ClientKeepsSession, Brings, Presents
<1>6. ASSUME NEW p \in Tabs, ReadUser(p) PROVE SessionInv'
  BY <1>0, <1>6 DEF ReadUser, Revoked, Active, Go, Quiet, Hands, SessionTypes, Handed, Fresh, ClientKeepsSession, Brings, Presents
<1>7. ASSUME NEW p \in Tabs, CreateSession(p) PROVE SessionInv'
  BY <1>0, <1>7 DEF CreateSession, Created, Unused, Go, Quiet, Hands, SessionTypes, Handed, Fresh, ClientKeepsSession, Brings, Presents
<1>8. ASSUME NEW p \in Tabs, RevokeOld(p) PROVE SessionInv'
  BY <1>0, <1>8 DEF RevokeOld, Revoked, Active, Go, Quiet, Hands, SessionTypes, Handed, Fresh, ClientKeepsSession, Brings, Presents
<1>9. ASSUME NEW p \in Tabs, Logout(p) PROVE SessionInv'
  BY <1>0, <1>9 DEF Logout, Revoked, Active, Go, Quiet, Hands, SessionTypes, Handed, Fresh, ClientKeepsSession, Brings, Presents
<1>10. ASSUME NEW p \in Tabs, Answer(p) PROVE SessionInv'
  BY <1>0, <1>10 DEF Answer, Go, Quiet, Hands, SessionTypes, Handed, Fresh, ClientKeepsSession, Brings, Presents
<1>11. ASSUME NEW p \in Tabs, LoseAnswer(p) PROVE SessionInv'
  BY <1>0, <1>11 DEF LoseAnswer, Go, Quiet, Hands, SessionTypes, Handed, Fresh, ClientKeepsSession, Brings, Presents
<1>12. ASSUME NEW p \in Tabs, Die(p) PROVE SessionInv'
  BY <1>0, <1>12 DEF Die, Go, Quiet, Hands, SessionTypes, Handed, Fresh, ClientKeepsSession, Brings, Presents
<1>13. CASE UNCHANGED sessionVars
  BY <1>13 DEF sessionVars, SessionTypes, Handed, Fresh, ClientKeepsSession, Brings, Presents
<1> QED
  BY <1>1, <1>2, <1>3, <1>4, <1>5, <1>6, <1>7, <1>8, <1>9, <1>10, <1>11, <1>12, <1>13 DEF SessionsNext

\* A refresh costs the user his session only when its own answer is lost,
\* however many tabs refresh, log in and out at the same time, whichever
\* answers are lost and wherever a handler dies.
THEOREM ClientKept == SessionsSpec => []ClientKeepsSession
<1>1. SessionsInit => SessionInv
  BY SessionsAssumption
  DEF SessionsInit, SessionInv, SessionTypes, Handed, Fresh, ClientKeepsSession, Brings, Presents,
      Hands, Quiet, Tokens
<1>2. SessionInv /\ [SessionsNext]_sessionVars => SessionInv'
  BY SessionsStep
<1>3. SessionInv => ClientKeepsSession
  BY DEF SessionInv
<1> QED
  BY <1>1, <1>2, <1>3, PTL DEF SessionsSpec

-----------------------------------------------------------------------------
(* The connection to the Pix provider *)

\* what a request of the connection has in hand
LinkHeld ==
  {Shut} \cup [op : {"exchange"}, consent : Consents]
    \cup [op : {"renew"}, copy : {r \in LinkRows \ {Null} : r.status = "connected"}]
    \cup [op : {"save"}, copy : LinkRows \cup {Null}, revokes : BOOLEAN, new : LinkRows]

LinkTypes ==
  /\ link \in LinkRows \cup {Null} /\ granted \in [Consents -> Nat]
  /\ session \in [Sessions -> LinkHeld] /\ state \in [Consents -> {"none", "open", "expired", "used"}]

\* it has a copy of the row; it is to write the account of a new consent; it
\* is the request that fulfils consent k
Copied(w) == session[w].op \in {"renew", "save"} /\ session[w].copy # Null
Fulfils(w) == session[w].op = "save" /\ (session[w].copy = Null \/ session[w].new.account # session[w].copy.account)
Connects(w, k) ==
  \/ session[w].op = "exchange" /\ session[w].consent = k
  \/ Fulfils(w) /\ session[w].new.account = k

\* a consent under way is not revoked, is nobody else's and in nobody's copy
Unspent ==
  \A w \in Sessions, k \in Consents : Connects(w, k) =>
    /\ state[k] = "used" /\ k \notin revoked
    /\ link # Null => link.account # k
    /\ \A v \in Sessions : Copied(v) => session[v].copy.account # k
    /\ \A v \in Sessions \ {w} : ~Connects(v, k)

\* nor is one the owner has not given yet
Virgin ==
  \A k \in Consents : state[k] # "used" =>
    /\ k \notin revoked
    /\ link # Null => link.account # k
    /\ \A v \in Sessions : Copied(v) => session[v].copy.account # k

\* a copy of the account that is connected says that it is connected
Copies ==
  \A w \in Sessions : Copied(w) =>
    /\ link # Null
    /\ link.account = session[w].copy.account /\ link.status = "connected" =>
         session[w].copy.status = "connected"

\* who writes another status than his copy's does not connect, unless he
\* fulfils a consent
Intents ==
  \A w \in Sessions : session[w].op = "save" =>
    /\ Fulfils(w) => session[w].new.status = "connected" /\ ~session[w].revokes
    /\ ~Fulfils(w) /\ session[w].new.status = "connected" => session[w].copy.status = "connected"
    /\ session[w].revokes => session[w].new.status = "not_connected"

\* the invariant
LinkInv == LinkTypes /\ Unspent /\ Virgin /\ Copies /\ Intents /\ ConsentOnce

LEMMA LinkStep ==
  ASSUME LinkInv, [LinkNext]_linkVars
  PROVE  LinkInv'
<1> USE ConnectionAssumption DEF LinkInv
<1>1. ASSUME NEW k \in Consents, BuildAuthorization(k) \/ StateExpires(k) PROVE LinkInv'
  BY <1>1 DEF BuildAuthorization, StateExpires, LinkTypes, Unspent, Virgin, Copies, Intents, ConsentOnce, Copied, Fulfils, Connects
<1>2. ASSUME NEW w \in Sessions, NEW k \in Consents, Callback(w, k) PROVE LinkInv'
  BY <1>2 DEF Callback, Open, Shut, LinkHeld, LinkTypes, Unspent, Virgin, Copies, Intents, ConsentOnce, Copied, Fulfils, Connects
<1>3. ASSUME NEW w \in Sessions, ExchangeCode(w) PROVE LinkInv'
  BY <1>3 DEF ExchangeCode, Keeps, Shut, LinkHeld, LinkRows, LinkTypes, Unspent, Virgin, Copies, Intents, ConsentOnce, Copied, Fulfils, Connects
<1>4. ASSUME NEW w \in Sessions, Disconnect(w) PROVE LinkInv'
  BY <1>4 DEF Disconnect, Open, NoLink, Shut, LinkHeld, LinkRows, LinkTypes, Unspent, Virgin, Copies, Intents, ConsentOnce, Copied, Fulfils, Connects
<1>5. ASSUME NEW w \in Sessions, Renewal(w) PROVE LinkInv'
  BY <1>5 DEF Renewal, Open, Shut, LinkHeld, LinkRows, LinkTypes, Unspent, Virgin, Copies, Intents, ConsentOnce, Copied, Fulfils, Connects
<1>6. ASSUME NEW w \in Sessions, RefreshCredentials(w) PROVE LinkInv'
  <2> DEFINE copy == session[w].copy
             k == copy.token[1]
             Reply(new) == [op |-> "save", copy |-> copy, revokes |-> FALSE, new |-> new]
  <2>1. session[w].op = "renew" /\ copy \in LinkRows \ {Null} /\ copy.status = "connected"
    BY <1>6 DEF RefreshCredentials, LinkTypes, LinkHeld, Shut
  <2>2. PICK h \in LinkHeld :
          /\ session' = [session EXCEPT ![w] = h] /\ granted' \in [Consents -> Nat]
          /\ \/ h = Shut
             \/ /\ h.op = "save" /\ h.copy = copy /\ ~h.revokes
                /\ h.new.account = copy.account /\ h.new.status # "not_connected"
    <3>1. CASE copy.token # Null /\ copy.token = <<k, granted[k]>> /\ \E rotated \in {0, 1} :
                 /\ granted' = [granted EXCEPT ![k] = @ + rotated]
                 /\ \/ Keeps(w, Reply(Renewed(copy, <<k, granted[k] + rotated>>)))
                    \/ Keeps(w, Shut)
      <4>1. PICK rotated \in {0, 1} :
              /\ granted' = [granted EXCEPT ![k] = @ + rotated]
              /\ \/ Keeps(w, Reply(Renewed(copy, <<k, granted[k] + rotated>>)))
                 \/ Keeps(w, Shut)
        BY <3>1
      <4>2. k \in Consents /\ granted[k] \in Nat
        BY <2>1, <3>1 DEF LinkRows, LinkTypes
      <4>3. granted' \in [Consents -> Nat]
        BY <4>1, <4>2 DEF LinkTypes
      <4>6. <<k, granted[k] + rotated>> \in {Null} \cup (Consents \X Nat)
        BY <4>2
      <4> DEFINE fresh == <<k, granted[k] + rotated>>
      <4> HIDE DEF fresh, copy
      <4>7. fresh \in {Null} \cup (Consents \X Nat)
        BY <4>6 DEF fresh
      <4>4. /\ Renewed(copy, fresh) \in LinkRows
            /\ Renewed(copy, fresh).account = copy.account
            /\ Renewed(copy, fresh).status = "connected"
        BY <2>1, <4>7 DEF Renewed, LinkRows
      <4>5. Reply(Renewed(copy, fresh)) \in LinkHeld
        BY <2>1, <4>4 DEF LinkHeld
      <4> QED
        BY <4>1, <4>3, <4>4, <4>5 DEF Keeps, LinkHeld, fresh
    <3>2. CASE Keeps(w, Reply(Refused(copy))) /\ UNCHANGED granted
      <4> HIDE DEF copy
      <4>1. /\ Refused(copy) \in LinkRows /\ Refused(copy).account = copy.account
            /\ Refused(copy).status = "reauthorization_required"
        BY <2>1 DEF Refused, LinkRows
      <4>2. Reply(Refused(copy)) \in LinkHeld
        BY <2>1, <4>1 DEF LinkHeld
      <4> QED
        BY <3>2, <4>1, <4>2 DEF Keeps, LinkTypes
    <3> QED
      BY <1>6, <3>1, <3>2 DEF RefreshCredentials
  <2>3. UNCHANGED <<link, state, revoked>>
    BY <1>6 DEF RefreshCredentials
  <2> HIDE DEF copy
  <2>4. session[w].op = "renew" /\ session[w].copy = copy
    BY <2>1 DEF copy
  <2>5. LinkTypes'
    BY <2>2, <2>3 DEF LinkTypes
  <2>6. Unspent' /\ Virgin'
    BY <2>1, <2>2, <2>3, <2>4 DEF LinkTypes, Shut, Unspent, Virgin, Copied, Fulfils, Connects
  <2>7. Copies' /\ Intents' /\ ConsentOnce'
    BY <2>1, <2>2, <2>3, <2>4 DEF LinkTypes, Shut, Copies, Intents, ConsentOnce, Copied, Fulfils
  <2> QED
    BY <2>5, <2>6, <2>7
<1>7. ASSUME NEW w \in Sessions, SaveLink(w) PROVE LinkInv'
  <2> DEFINE held == session[w]
  <2>1. /\ held.op = "save" /\ held.copy \in LinkRows \cup {Null} /\ held.new \in LinkRows
        /\ held.copy = Null => link = Null
        /\ held.copy # Null => link # Null /\ link \in LinkRows
    BY <1>7 DEF SaveLink, LinkTypes, LinkHeld, Shut, Copies, Copied
  <2>2. /\ link' \in LinkRows
        /\ link'.account = IF Fulfils(w) THEN held.new.account ELSE link.account
        /\ link'.status = IF held.copy = Null THEN held.new.status
                         ELSE IF held.new.status = held.copy.status THEN link.status
                         ELSE held.new.status
    BY <1>7, <2>1 DEF SaveLink, Stored, LinkRows, Fulfils
  <2>3. /\ session' = [session EXCEPT ![w] = Shut] /\ UNCHANGED <<state, granted>>
        /\ revoked' = IF held.revokes THEN revoked \cup {held.copy.account} ELSE revoked
    BY <1>7 DEF SaveLink, Keeps
  <2>4. LinkTypes'
    BY <2>2, <2>3 DEF LinkTypes, LinkHeld
  <2>5. Unspent'
    BY <2>1, <2>2, <2>3 DEF Unspent, LinkTypes, Shut, Intents, Copied, Fulfils, Connects
  <2>6. Virgin'
    BY <2>1, <2>2, <2>3 DEF Virgin, Unspent, LinkTypes, Shut, Intents, Copied, Fulfils, Connects
  <2>7. Copies'
    <3> SUFFICES ASSUME NEW v \in Sessions, Copied(v)'
                 PROVE  /\ link' # Null
                        /\ link'.account = session'[v].copy.account /\ link'.status = "connected" =>
                             session'[v].copy.status = "connected"
      BY DEF Copies
    <3>1. v # w /\ session'[v] = session[v] /\ Copied(v)
      BY <2>3 DEF LinkTypes, Copied, Shut
    <3>2. link # Null /\ link' # Null
      BY <2>2, <3>1 DEF Copies
    <3>3. CASE Fulfils(w)
      BY <2>2, <3>1, <3>2, <3>3 DEF Unspent, Connects, LinkRows
    <3>4. CASE ~Fulfils(w)
      BY <2>1, <2>2, <3>1, <3>2, <3>4 DEF Copies, Intents, Fulfils
    <3> QED
      BY <3>3, <3>4
  <2>8. Intents'
    BY <2>1, <2>2, <2>3 DEF LinkTypes, Shut, Intents, Fulfils
  <2>9. ConsentOnce'
    <3>1. CASE Fulfils(w)
      BY <2>1, <2>2, <2>3, <3>1 DEF Unspent, Connects, Intents, ConsentOnce, LinkRows
    <3>2. CASE ~Fulfils(w)
      <4>1. held.copy # Null /\ Copied(w) /\ held.new.account = held.copy.account
        BY <2>1, <3>2 DEF Fulfils, Copied
      <4>2. link' # Null /\ link'.status = "connected" =>
              link # Null /\ link.status = "connected" /\ held.new.status = held.copy.status
        BY <2>1, <2>2, <3>2, <4>1 DEF Intents, Copies
      <4>3. held.revokes /\ link'.status = "connected" => link.account # held.copy.account
        BY <2>1, <2>2, <4>1, <4>2 DEF Intents, Copies
      <4> QED
        BY <2>1, <2>2, <2>3, <3>2, <4>1, <4>2, <4>3 DEF ConsentOnce
    <3> QED
      BY <3>1, <3>2
  <2> QED
    BY <2>4, <2>5, <2>6, <2>7, <2>8, <2>9
<1>8. ASSUME NEW w \in Sessions, Shuts(w) PROVE LinkInv'
  BY <1>8 DEF Shuts, Keeps, Shut, LinkHeld, LinkTypes, Unspent, Virgin, Copies, Intents, ConsentOnce, Copied, Fulfils, Connects
<1>9. CASE UNCHANGED linkVars
  BY <1>9 DEF linkVars, LinkTypes, Unspent, Virgin, Copies, Intents, ConsentOnce, Copied, Fulfils, Connects
<1> QED
  BY <1>1, <1>2, <1>3, <1>4, <1>5, <1>6, <1>7, <1>8, <1>9 DEF LinkNext

\* An account the owner has disconnected is connected again only by another
\* consent, for any number of callbacks, renewals and disconnections under way.
THEOREM ConnectsOnce == LinkSpec => []ConsentOnce
<1>1. LinkInit => LinkInv
  BY ConnectionAssumption
  DEF LinkInit, LinkInv, LinkTypes, Unspent, Virgin, Copies, Intents, ConsentOnce, Copied, Fulfils,
      Connects, Shut, LinkHeld
<1>2. LinkInv /\ [LinkNext]_linkVars => LinkInv'
  BY LinkStep
<1>3. LinkInv => ConsentOnce
  BY DEF LinkInv
<1> QED
  BY <1>1, <1>2, <1>3, PTL DEF LinkSpec

-----------------------------------------------------------------------------
(* The store the provider shows *)

\* what a request of the market has in hand
AtDesk ==
  {Closed} \cup [pc : {"place"}, street : Streets, same : BOOLEAN, version : Nat]
    \cup [pc : {"version"}, till : Tills, street : Streets]
    \cup [pc : {"till"}, till : Tills, street : Streets, version : Nat]
    \cup [pc : {"create"}, till : Tills, street : Streets, version : Nat, first : BOOLEAN,
          store : {Unset}]
    \cup [pc : {"update", "shop", "pos"}, till : Tills, street : Streets, version : Nat,
          first : BOOLEAN, store : Nat]

PointsTypes ==
  /\ place \in Places \cup {Unset} /\ shop \in Shops \cup {Unset}
  /\ posOf \in [Tills -> Nat \cup {Unset}] /\ stores \in Seq(Streets)
  /\ desk \in [Desks -> AtDesk] /\ newest \in Nat

\* a location is left as it is only where there is one; of the versions saved
\* once, it has the newest
PlaceTold ==
  /\ \A q \in Desks : desk[q].pc = "place" => (desk[q].same => place # Unset)
  /\ place # Unset => /\ place.version <= newest
                      /\ place.version \notin unsure => place.version = newest

\* a registration has a street and the version of it, or of an earlier one
PlaceRead ==
  \A q \in Desks :
    /\ desk[q].pc \in Registering => place # Unset
    /\ desk[q].pc \in Registering \ {"version"} =>
         /\ desk[q].version <= newest
         /\ desk[q].version = place.version /\ desk[q].version \notin unsure =>
              desk[q].street = place.street

\* the store it has in hand is the market's, unless it is making the first; the
\* one that is to be saved shows its street, unless another has written it over
ShopRead ==
  \A q \in Desks :
    /\ desk[q].pc = "create" => desk[q].first
    /\ desk[q].pc \in {"update", "pos"} => shop # Unset /\ desk[q].store = shop.store
    /\ desk[q].pc = "shop" =>
         /\ desk[q].store \in DOMAIN stores
         /\ desk[q].version \notin unsure => stores[desk[q].store] = desk[q].street
         /\ ~desk[q].first => shop # Unset /\ desk[q].store = shop.store

\* the registration names a store that is there, and no version to come
ShopKnown ==
  shop # Unset => /\ place # Unset /\ shop.synced <= newest
                  /\ shop.store \in DOMAIN stores

\* the invariant
PointsInv == PointsTypes /\ PlaceTold /\ PlaceRead /\ ShopRead /\ ShopKnown /\ StoreIsAsShown

LEMMA PointsStep ==
  ASSUME PointsInv, [PointsNext]_pointsVars
  PROVE  PointsInv'
<1> USE PointsAssumption DEF PointsInv
<1>1. ASSUME NEW q \in Desks, NEW street \in Streets, ReadPlace(q, street) PROVE PointsInv'
  <2> DEFINE h == [pc |-> "place", street |-> street, same |-> place # Unset /\ street = place.street,
                   version |-> IF place = Unset THEN 1 ELSE place.version + 1]
  <2>1. /\ desk' = [desk EXCEPT ![q] = h] /\ UNCHANGED <<place, shop, posOf, stores, newest, unsure>>
        /\ desk[q] = Closed
    BY <1>1 DEF ReadPlace, Holding
  <2>2. h \in AtDesk /\ h.pc = "place" /\ (h.same => place # Unset)
    <3>1. (IF place = Unset THEN 1 ELSE place.version + 1) \in Nat
      BY DEF PointsTypes, Places
    <3>2. (place # Unset /\ street = place.street) \in BOOLEAN
      OBVIOUS
    <3>3. h \in [pc : {"place"}, street : Streets, same : BOOLEAN, version : Nat]
      BY <3>1, <3>2
    <3>4. h.same = (place # Unset /\ street = place.street)
      BY Zenon
    <3> QED
      BY <3>3, <3>4 DEF AtDesk
  <2> HIDE DEF h
  <2>3. PointsTypes' /\ PlaceTold'
    BY <2>1, <2>2 DEF PointsTypes, PlaceTold
  <2>4. PlaceRead' /\ ShopRead' /\ ShopKnown' /\ StoreIsAsShown'
    BY <2>1, <2>2 DEF PointsTypes, Registering, PlaceRead, ShopRead, ShopKnown, StoreIsAsShown
  <2> QED
    BY <2>3, <2>4
<1>2. ASSUME NEW q \in Desks, SavePlace(q) PROVE PointsInv'
  <2> DEFINE held == desk[q]
  <2>1. /\ held.pc = "place" /\ held.street \in Streets /\ held.version \in Nat
        /\ held.same => place # Unset /\ place \in Places
    BY <1>2 DEF SavePlace, PointsTypes, AtDesk, Closed, PlaceTold
  <2>2. /\ place' = [version |-> held.version,
                     street |-> IF held.same THEN place.street ELSE held.street]
        /\ newest' = (IF held.version > newest THEN held.version ELSE newest)
        /\ unsure' = (IF held.version > newest THEN unsure ELSE unsure \cup {held.version})
        /\ desk' = [desk EXCEPT ![q] = Closed] /\ UNCHANGED <<shop, posOf, stores>>
    BY <1>2 DEF SavePlace, Holding
  <2>3. /\ place' \in Places /\ place' # Unset /\ place'.version = held.version
        /\ newest \in Nat /\ newest' \in Nat /\ newest <= newest' /\ unsure \subseteq unsure'
        /\ held.version \notin unsure' => held.version > newest /\ held.version = newest'
        /\ held.version <= newest'
    BY <2>1, <2>2 DEF Places, PointsTypes
  <2>4. PointsTypes' /\ PlaceTold'
    BY <2>1, <2>2, <2>3 DEF PointsTypes, AtDesk, Closed, PlaceTold
  <2>5. ASSUME NEW o \in Desks, desk'[o].pc \in Registering \ {"version"}
        PROVE  desk[o] = desk'[o] /\ desk[o].version <= newest /\ desk[o].version \in Nat
    <3>1. o # q /\ desk[o] = desk'[o]
      BY <2>2, <2>5 DEF PointsTypes, Closed, Registering
    <3> QED
      BY <2>5, <3>1 DEF PointsTypes, AtDesk, Closed, Registering, PlaceRead
  <2>6. PlaceRead'
    BY <2>3, <2>5 DEF PlaceRead, Registering
  <2>7. ShopRead'
    BY <2>2, <2>3 DEF PointsTypes, Closed, ShopRead
  <2>8. shop # Unset => shop.synced \in Nat /\ shop.synced <= newest
    BY DEF ShopKnown, PointsTypes, Shops
  <2>9. ShopKnown' /\ StoreIsAsShown'
    BY <2>2, <2>3, <2>8 DEF ShopKnown, StoreIsAsShown
  <2> QED
    BY <2>4, <2>6, <2>7, <2>9
<1>3. ASSUME NEW q \in Desks, NEW t \in Tills, GetLocation(q, t) PROVE PointsInv'
  <2>1. PointsTypes'
    BY <1>3 DEF GetLocation, PointsTypes, AtDesk, Places, Shops, Holding, To, Closed
  <2>2. PlaceTold' /\ PlaceRead'
    BY <1>3 DEF GetLocation, PointsTypes, AtDesk, Places, Shops, Holding, To, Closed, PlaceTold, PlaceRead, Registering
  <2>3. ShopRead' /\ ShopKnown' /\ StoreIsAsShown'
    BY <1>3 DEF GetLocation, PointsTypes, AtDesk, Places, Shops, Holding, To, Closed, PlaceRead, ShopRead, ShopKnown, StoreIsAsShown, Registering
  <2> QED
    BY <2>1, <2>2, <2>3
<1>4. ASSUME NEW q \in Desks, GetLocationVersion(q) PROVE PointsInv'
  <2> DEFINE h == [pc |-> "till", till |-> desk[q].till, street |-> desk[q].street, version |-> place.version]
  <2>1. /\ desk' = [desk EXCEPT ![q] = h] /\ desk[q].pc = "version"
        /\ UNCHANGED <<place, shop, posOf, stores, newest>> /\ unsure \subseteq unsure'
        /\ desk[q].street # place.street => place.version \in unsure'
    BY <1>4 DEF GetLocationVersion, Holding
  <2>2. h \in AtDesk /\ h.pc = "till" /\ h.version = place.version /\ h.street = desk[q].street /\ place # Unset
    BY <2>1 DEF PointsTypes, AtDesk, Closed, Places, PlaceRead, Registering
  <2> HIDE DEF h
  <2>3. PointsTypes' /\ PlaceTold'
    BY <2>1, <2>2 DEF PointsTypes, PlaceTold
  <2>4. PlaceRead'
    BY <2>1, <2>2 DEF PointsTypes, PlaceRead, PlaceTold, Registering
  <2>5. ShopRead' /\ ShopKnown' /\ StoreIsAsShown'
    BY <2>1, <2>2 DEF PointsTypes, ShopRead, ShopKnown, StoreIsAsShown
  <2> QED
    BY <2>3, <2>4, <2>5
<1>5. ASSUME NEW q \in Desks, EnsurePosRegistered(q) PROVE PointsInv'
  <2> DEFINE held == desk[q]
             Goes(pc, store) ==
               [pc |-> pc, till |-> held.till, street |-> held.street,
                version |-> held.version, first |-> shop = Unset, store |-> store]
  <2>1. held.pc = "till" /\ UNCHANGED <<place, shop, posOf, stores, newest, unsure>>
    BY <1>5 DEF EnsurePosRegistered
  <2>2. held.till \in Tills /\ held.street \in Streets /\ held.version \in Nat
    BY <2>1 DEF PointsTypes, AtDesk, Closed
  <2>3. shop # Unset => shop \in Shops /\ shop.store \in Nat /\ shop.synced \in Nat
    BY DEF PointsTypes, Shops
  <2>4. PICK h \in AtDesk :
          /\ desk' = [desk EXCEPT ![q] = h]
          /\ \/ h = Closed
             \/ shop # Unset /\ shop.synced < held.version /\ h = Goes("update", shop.store)
             \/ shop # Unset /\ h = Goes("pos", shop.store)
             \/ shop = Unset /\ h = Goes("create", Unset)
    <3>1. Closed \in AtDesk
      BY DEF AtDesk
    <3>2. shop # Unset => Goes("update", shop.store) \in AtDesk /\ Goes("pos", shop.store) \in AtDesk
      BY <2>2, <2>3 DEF AtDesk
    <3>3. Goes("create", Unset) \in AtDesk
      BY <2>2 DEF AtDesk
    <3> QED
      BY <1>5, <3>1, <3>2, <3>3 DEF EnsurePosRegistered, Holding
  <2>5. PointsTypes'
    BY <2>1, <2>4 DEF PointsTypes
  <2>6. PlaceTold'
    BY <2>1, <2>4 DEF PointsTypes, PlaceTold, Closed
  <2>7. PlaceRead'
    BY <2>1, <2>4 DEF PointsTypes, PlaceRead, Closed, Registering
  <2>8. ShopRead'
    <3>0. desk' = [desk EXCEPT ![q] = h] /\ desk \in [Desks -> AtDesk]
      BY <2>4 DEF PointsTypes
    <3>1. ASSUME NEW o \in Desks, o # q PROVE desk'[o] = desk[o]
      BY ONLY <3>0, <3>1
    <3>2. desk'[q] = h
      BY ONLY <3>0, q \in Desks
    <3>3. CASE h = Closed
      BY <2>1, <3>1, <3>2, <3>3 DEF ShopRead, Closed
    <3>4. CASE shop # Unset /\ shop.synced < held.version /\ h = Goes("update", shop.store)
      BY <2>1, <3>1, <3>2, <3>4 DEF ShopRead
    <3>5. CASE shop # Unset /\ h = Goes("pos", shop.store)
      BY <2>1, <3>1, <3>2, <3>5 DEF ShopRead
    <3>6. CASE shop = Unset /\ h = Goes("create", Unset)
      <4>1. h.pc = "create" /\ h.first
        BY <3>6
      <4> QED
        BY <2>1, <3>1, <3>2, <3>6, <4>1 DEF ShopRead
    <3> QED
      BY <2>4, <3>3, <3>4, <3>5, <3>6
  <2>9. ShopKnown' /\ StoreIsAsShown'
    BY <2>1 DEF ShopKnown, StoreIsAsShown
  <2> QED
    BY <2>5, <2>6, <2>7, <2>8, <2>9
<1>6. ASSUME NEW q \in Desks, UpdateStore(q) PROVE PointsInv'
  <2> DEFINE held == desk[q]
             made == [held EXCEPT !.pc = "shop"]
  <2>1. /\ held.pc = "update" /\ UNCHANGED <<place, shop, posOf, newest>>
        /\ stores' = [stores EXCEPT ![held.store] = held.street] /\ unsure \subseteq unsure'
        /\ \A o \in Desks \ {q} : desk[o].pc = "shop" => desk[o].version \in unsure'
        /\ ~(shop.synced < held.version) => shop.synced \in unsure'
    BY <1>6 DEF UpdateStore
  <2>2. PICK h \in {made, Closed} : desk' = [desk EXCEPT ![q] = h]
    BY <1>6 DEF UpdateStore, Holding, To
  <2>3. /\ held \in [pc : {"update"}, till : Tills, street : Streets, version : Nat,
                      first : BOOLEAN, store : Nat]
        /\ shop # Unset /\ held.store = shop.store /\ held.store \in DOMAIN stores
    BY <2>1 DEF PointsTypes, AtDesk, Closed, ShopRead, ShopKnown
  <2>4. /\ made \in AtDesk /\ made.pc = "shop" /\ made.street = held.street /\ made.store = held.store
        /\ made.version = held.version /\ made.first = held.first /\ Closed \in AtDesk
    BY <2>3 DEF AtDesk
  <2> HIDE DEF made
  <2>5. /\ stores' \in Seq(Streets) /\ DOMAIN stores' = DOMAIN stores
        /\ stores'[held.store] = held.street
    BY <2>1, <2>3 DEF PointsTypes
  <2>6. PointsTypes' /\ PlaceTold'
    BY <2>1, <2>2, <2>4, <2>5 DEF PointsTypes, PlaceTold, Closed
  <2>7. PlaceRead'
    BY <2>1, <2>2, <2>4 DEF PointsTypes, PlaceRead, Closed, Registering
  <2>8. ShopRead'
    <3>1. \A o \in Desks \ {q} : desk'[o] = desk[o]
      BY <2>2 DEF PointsTypes
    <3>2. desk'[q] = h
      BY <2>2 DEF PointsTypes
    <3> QED
      <4>1. ASSUME NEW o \in Desks, o # q
            PROVE  /\ desk'[o].pc = "create" => desk'[o].first
                   /\ desk'[o].pc \in {"update", "pos"} =>
                        shop' # Unset /\ desk'[o].store = shop'.store
                   /\ desk'[o].pc = "shop" =>
                        /\ desk'[o].store \in DOMAIN stores'
                        /\ desk'[o].version \notin unsure' =>
                             stores'[desk'[o].store] = desk'[o].street
                        /\ ~desk'[o].first => shop' # Unset /\ desk'[o].store = shop'.store
        <5>1. desk'[o] = desk[o]
          BY <3>1, <4>1
        <5>2. desk[o].pc = "shop" => desk[o].version \in unsure'
          BY <2>1, <4>1
        <5>3. DOMAIN stores' = DOMAIN stores /\ shop' = shop
          BY <2>1, <2>5
        <5> QED
          BY <5>1, <5>2, <5>3 DEF ShopRead
      <4>2. /\ desk'[q].pc = "create" => desk'[q].first
            /\ desk'[q].pc \in {"update", "pos"} =>
                 shop' # Unset /\ desk'[q].store = shop'.store
            /\ desk'[q].pc = "shop" =>
                 /\ desk'[q].store \in DOMAIN stores'
                 /\ desk'[q].version \notin unsure' =>
                      stores'[desk'[q].store] = desk'[q].street
                 /\ ~desk'[q].first => shop' # Unset /\ desk'[q].store = shop'.store
        <5>1. CASE h = made
          BY <2>1, <2>3, <2>4, <2>5, <3>2, <5>1
        <5>2. CASE h = Closed
          BY <3>2, <5>2 DEF Closed
        <5> QED
          BY <5>1, <5>2
      <4> QED
        BY <4>1, <4>2 DEF ShopRead
  <2>9. ShopKnown'
    BY <2>1, <2>5 DEF ShopKnown
  <2>10. StoreIsAsShown'
    <3>1. held.version \in Nat /\ held.version <= newest /\ newest \in Nat
      BY <2>1, <2>3 DEF PlaceRead, PointsTypes, Registering
    <3>2. ~(shop.synced = place.version /\ place.version \notin unsure')
      <4> SUFFICES ASSUME shop.synced = place.version, place.version \notin unsure' PROVE FALSE
        OBVIOUS
      <4>1. place # Unset /\ place.version = newest
        BY <2>1, <2>3 DEF PlaceTold, ShopKnown
      <4> QED
        BY <2>1, <3>1, <4>1
    <3> QED
      BY <2>1, <3>2 DEF StoreIsAsShown
  <2> QED
    BY <2>6, <2>7, <2>8, <2>9, <2>10
<1>7. ASSUME NEW q \in Desks, CreateStore(q) PROVE PointsInv'
  <2> DEFINE held == desk[q]
             made == [held EXCEPT !.pc = "shop", !.store = Len(stores')]
  <2>1. /\ held.pc = "create" /\ UNCHANGED <<place, shop, posOf, newest, unsure>>
        /\ stores' = Append(stores, held.street)
    BY <1>7 DEF CreateStore
  <2>2. /\ held.till \in Tills /\ held.street \in Streets /\ held.version \in Nat
        /\ held.first \in BOOLEAN
        /\ held = [pc |-> "create", till |-> held.till, street |-> held.street,
                   version |-> held.version, first |-> held.first, store |-> Unset]
    BY <2>1 DEF PointsTypes, AtDesk, Closed
  <2>3. /\ stores' \in Seq(Streets) /\ Len(stores') = Len(stores) + 1 /\ Len(stores) \in Nat
        /\ DOMAIN stores = 1 .. Len(stores) /\ DOMAIN stores' = 1 .. Len(stores')
        /\ stores'[Len(stores')] = held.street
        /\ \A i \in DOMAIN stores : stores'[i] = stores[i]
    BY <2>1, <2>2 DEF PointsTypes
  <2>4. /\ made \in AtDesk /\ made.pc = "shop" /\ made.street = held.street
        /\ made.version = held.version /\ made.store = Len(stores') /\ made.first = held.first
    <3>1. held \in [pc : {"create"}, till : Tills, street : Streets, version : Nat,
                    first : BOOLEAN, store : {Unset}]
      BY <2>2
    <3>2. DOMAIN held = {"pc", "till", "street", "version", "first", "store"}
      BY <3>1
    <3>3. /\ DOMAIN made = {"pc", "till", "street", "version", "first", "store"}
          /\ made = [f \in DOMAIN held |-> IF f = "store" THEN Len(stores')
                                           ELSE IF f = "pc" THEN "shop" ELSE held[f]]
      BY <3>2
    <3> HIDE DEF made
    <3>4. /\ made.pc = "shop" /\ made.street = held.street /\ made.till = held.till
          /\ made.version = held.version /\ made.store = Len(stores')
      BY <3>2, <3>3
    <3>5. made["first"] = held["first"]
      BY <3>2, <3>3
    <3> QED
      BY <2>2, <2>3, <3>3, <3>4, <3>5 DEF AtDesk
  <2>5. PICK h \in {made, Closed} : desk' = [desk EXCEPT ![q] = h]
    BY <1>7 DEF CreateStore, Holding
  <2>6. made \in AtDesk /\ Closed \in AtDesk
    BY <2>4 DEF AtDesk
  <2> HIDE DEF made
  <2>7. PointsTypes'
    BY <2>1, <2>3, <2>5, <2>6 DEF PointsTypes
  <2>8. PlaceTold' /\ PlaceRead'
    BY <2>1, <2>2, <2>4, <2>5 DEF PointsTypes, PlaceTold, PlaceRead, Closed, Registering
  <2>9. held.first
    BY <2>1 DEF ShopRead
  <2>10. ShopRead'
    <3>1. \A o \in Desks \ {q} : desk'[o] = desk[o]
      BY <2>5 DEF PointsTypes
    <3>2. desk'[q] = h
      BY <2>5 DEF PointsTypes
    <3>3. Len(stores') \in DOMAIN stores' /\ DOMAIN stores \subseteq DOMAIN stores'
      BY <2>3
    <3> QED
      <4>1. ASSUME NEW o \in Desks, o # q
            PROVE  /\ desk'[o].pc = "create" => desk'[o].first
                   /\ desk'[o].pc \in {"update", "pos"} =>
                        shop' # Unset /\ desk'[o].store = shop'.store
                   /\ desk'[o].pc = "shop" =>
                        /\ desk'[o].store \in DOMAIN stores'
                        /\ desk'[o].version \notin unsure' =>
                             stores'[desk'[o].store] = desk'[o].street
                        /\ ~desk'[o].first => shop' # Unset /\ desk'[o].store = shop'.store
        <5>1. desk'[o] = desk[o]
          BY <3>1, <4>1
        <5>2. shop' = shop /\ unsure' = unsure
          BY <2>1
        <5> QED
          BY <2>3, <3>3, <5>1, <5>2 DEF ShopRead
      <4>2. /\ desk'[q].pc = "create" => desk'[q].first
            /\ desk'[q].pc \in {"update", "pos"} =>
                 shop' # Unset /\ desk'[q].store = shop'.store
            /\ desk'[q].pc = "shop" =>
                 /\ desk'[q].store \in DOMAIN stores'
                 /\ desk'[q].version \notin unsure' =>
                      stores'[desk'[q].store] = desk'[q].street
                 /\ ~desk'[q].first => shop' # Unset /\ desk'[q].store = shop'.store
        <5>1. CASE h = made
          BY <2>3, <2>4, <2>9, <3>2, <3>3, <5>1
        <5>2. CASE h = Closed
          BY <3>2, <5>2 DEF Closed
        <5> QED
          BY <5>1, <5>2
      <4> QED
        BY <4>1, <4>2 DEF ShopRead
  <2>11. ShopKnown' /\ StoreIsAsShown'
    BY <2>1, <2>3 DEF ShopKnown, StoreIsAsShown
  <2> QED
    BY <2>7, <2>8, <2>10, <2>11
<1>8. ASSUME NEW q \in Desks, SaveShop(q) PROVE PointsInv'
  <2> DEFINE held == desk[q]
             made == [held EXCEPT !.pc = "pos"]
  <2>1. /\ held.pc = "shop" /\ (held.first => shop = Unset)
        /\ shop' = [store |-> held.store, synced |-> held.version]
        /\ desk' = [desk EXCEPT ![q] = made] /\ UNCHANGED <<place, posOf, stores, newest, unsure>>
    BY <1>8 DEF SaveShop, Synced, To, Holding
  <2>2. held \in [pc : {"shop"}, till : Tills, street : Streets, version : Nat,
                  first : BOOLEAN, store : Nat]
    BY <2>1 DEF PointsTypes, AtDesk, Closed
  <2>3. /\ made \in AtDesk /\ made.pc = "pos" /\ made.street = held.street /\ made.store = held.store
        /\ made.version = held.version
    BY <2>2 DEF AtDesk
  <2> HIDE DEF made
  <2>4. /\ shop' \in Shops /\ shop' # Unset /\ shop'.store = held.store /\ shop'.synced = held.version
        /\ shop # Unset => shop'.store = shop.store
    BY <2>1, <2>2 DEF Shops, ShopRead
  <2>5. PointsTypes' /\ PlaceTold'
    BY <2>1, <2>3, <2>4 DEF PointsTypes, PlaceTold
  <2>6. PlaceRead'
    BY <2>1, <2>3 DEF PointsTypes, PlaceRead, Registering
  <2>7. ShopRead'
    <3>1. \A o \in Desks \ {q} : desk'[o] = desk[o]
      BY <2>1 DEF PointsTypes
    <3>2. desk'[q] = made
      BY <2>1 DEF PointsTypes
    <3> QED
      BY <2>1, <2>3, <2>4, <3>1, <3>2 DEF ShopRead
  <2>8. ShopKnown'
    BY <2>1, <2>4 DEF ShopKnown, ShopRead, PlaceRead, Registering
  <2>9. StoreIsAsShown'
    BY <2>1, <2>4 DEF StoreIsAsShown, ShopRead, PlaceRead, Registering
  <2> QED
    BY <2>5, <2>6, <2>7, <2>8, <2>9
<1>9. ASSUME NEW q \in Desks, SavePos(q) PROVE PointsInv'
  <2>1. PointsTypes'
    BY <1>9 DEF SavePos, PointsTypes, AtDesk, Places, Shops, Holding, To, Closed
  <2>2. PlaceTold' /\ PlaceRead'
    BY <1>9 DEF SavePos, PointsTypes, AtDesk, Places, Shops, Holding, To, Closed, PlaceTold, PlaceRead, Registering
  <2>3. ShopRead' /\ ShopKnown' /\ StoreIsAsShown'
    BY <1>9 DEF SavePos, PointsTypes, AtDesk, Places, Shops, Holding, To, Closed, PlaceRead, ShopRead, ShopKnown, StoreIsAsShown, Registering
  <2> QED
    BY <2>1, <2>2, <2>3
<1>10. ASSUME NEW q \in Desks, GivesUp(q) PROVE PointsInv'
  <2>1. PointsTypes'
    BY <1>10 DEF GivesUp, PointsTypes, AtDesk, Places, Shops, Holding, To, Closed
  <2>2. PlaceTold' /\ PlaceRead'
    BY <1>10 DEF GivesUp, PointsTypes, AtDesk, Places, Shops, Holding, To, Closed, PlaceTold, PlaceRead, Registering
  <2>3. ShopRead' /\ ShopKnown' /\ StoreIsAsShown'
    BY <1>10 DEF GivesUp, PointsTypes, AtDesk, Places, Shops, Holding, To, Closed, PlaceRead, ShopRead, ShopKnown, StoreIsAsShown, Registering
  <2> QED
    BY <2>1, <2>2, <2>3
<1>11. CASE UNCHANGED pointsVars
  BY <1>11 DEF pointsVars, PointsTypes, PlaceTold, PlaceRead, ShopRead, ShopKnown, StoreIsAsShown
<1> QED
  BY <1>1, <1>2, <1>3, <1>4, <1>5, <1>6, <1>7, <1>8, <1>9, <1>10, <1>11 DEF PointsNext

\* A location called ready is the one the provider shows, but for the versions
\* saved twice or read or written across another QR code, and every till with
\* Pix belongs to that store, for any number of desks and tills, however first
\* QR codes and savings of the location overlap.
THEOREM ShownAsSaved == PointsSpec => []StoreIsAsShown
<1>1. PointsInit => PointsInv
  BY PointsAssumption
  DEF PointsInit, PointsInv, PointsTypes, PlaceTold, PlaceRead, ShopRead, ShopKnown,
      StoreIsAsShown, Closed, AtDesk, Registering
<1>2. PointsInv /\ [PointsNext]_pointsVars => PointsInv'
  BY PointsStep
<1>3. PointsInv => StoreIsAsShown
  BY DEF PointsInv
<1> QED
  BY <1>1, <1>2, <1>3, PTL DEF PointsSpec

-----------------------------------------------------------------------------
(* The plan of an owner *)

\* the plans an owner may be granted; what a handler has in hand
Grantable == Plans \cup {TrialPlan}
UserRows == [plan : Grantable \cup {NoPlan}, until : Int]
Requests ==
  {Waiting} \cup [op : {"edit", "reconcile", "trial"}, user : UserRows]
    \cup [op : {"assign"}, plan : Plans] \cup [op : {"checked"}] \cup [op : {"counted"}, of : Nat]

AccountTypes ==
  /\ today \in Nat /\ user \in UserRows /\ markets \in Nat /\ overtaken \in Nat
  /\ entitled \subseteq Grantable
  /\ contract \in [Plans -> [status : {"none", "pending", "active"}, until : Int]]
  /\ latest \in Seq(Plans) /\ serving \in [Handlers -> Requests]

\* whatever a row or a copy of it calls paid was granted
Granted ==
  /\ user.plan # NoPlan => user.plan \in entitled
  /\ \A s \in Handlers :
       serving[s].op = "edit" /\ serving[s].user.plan # NoPlan => serving[s].user.plan \in entitled
  /\ \A p \in Plans : contract[p].status = "active" => p \in entitled

\* what a creation has counted fits in a plan he was granted
Counted ==
  \A s \in Handlers : serving[s].op = "counted" =>
    \E p \in entitled : serving[s].of + 1 <= MaxMarkets[p]

\* the invariant
AccountInv == AccountTypes /\ Granted /\ Counted /\ MarketsWithinPlan

\* the plans in the order they were last touched stay a sequence of plans
LEMMA UpdatedType ==
  ASSUME latest \in Seq(Plans), NEW p \in Plans
  PROVE  Updated(p) \in Seq(Plans)
<1> DEFINE at == {i \in DOMAIN latest : latest[i] = p}
           n == Len(latest)
           k == CHOOSE i \in at : TRUE
<1>1. CASE at = {}
  BY <1>1 DEF Updated
<1>2. CASE at # {}
  <2>1. k \in at
    BY <1>2
  <2>2. n \in Nat /\ k \in 1 .. n /\ latest \in [1 .. n -> Plans]
    BY <2>1
  <2> HIDE DEF n, k
  <2>3. \A i \in 1 .. n : (IF i = n THEN p ELSE latest[IF i < k THEN i ELSE i + 1]) \in Plans
    BY <2>2
  <2>4. Updated(p) = [i \in 1 .. n |-> IF i = n THEN p ELSE latest[IF i < k THEN i ELSE i + 1]]
    BY <1>2 DEF Updated, n, k
  <2> QED
    <3>1. Updated(p) \in [1 .. n -> Plans]
      BY <2>3, <2>4
    <3> QED
      BY <2>2, <3>1
<1> QED
  BY <1>1, <1>2

LEMMA AccountsStep ==
  ASSUME AccountInv, [AccountsNext]_accountVars
  PROVE  AccountInv'
<1> USE AccountsAssumption DEF AccountInv
<1>1. CASE Midnight
  BY <1>1 DEF Midnight, AccountTypes, Granted, Counted, MarketsWithinPlan
<1>2. ASSUME NEW p \in Plans, Subscribe(p) PROVE AccountInv'
  <2>1. Updated(p) \in Seq(Plans)
    BY UpdatedType DEF AccountTypes
  <2> QED
    BY <1>2, <2>1 DEF Subscribe, Never, Grantable, UserRows, AccountTypes, Granted, Counted, MarketsWithinPlan
<1>3. ASSUME NEW p \in Plans, PaymentReceived(p) PROVE AccountInv'
  <2>1. Updated(p) \in Seq(Plans)
    BY UpdatedType DEF AccountTypes
  <2> QED
    BY <1>3, <2>1 DEF PaymentReceived, Never, Grantable, UserRows, AccountTypes, Granted, Counted, MarketsWithinPlan
<1>4. ASSUME NEW p \in Plans, LockImmediately(p) PROVE AccountInv'
  <2>1. Updated(p) \in Seq(Plans)
    BY UpdatedType DEF AccountTypes
  <2> QED
    BY <1>4, <2>1 DEF LockImmediately, Never, Grantable, UserRows, AccountTypes, Granted, Counted, MarketsWithinPlan
<1>5. ASSUME NEW s \in Handlers, LoadUser(s) PROVE AccountInv'
  BY <1>5 DEF LoadUser, Takes, Waiting, Never, Grantable, Requests, UserRows, AccountTypes, Granted, Counted, MarketsWithinPlan
<1>6. ASSUME NEW s \in Handlers, TrialLoad(s) PROVE AccountInv'
  BY <1>6 DEF TrialLoad, Takes, Waiting, Never, Grantable, Requests, UserRows, AccountTypes, Granted, Counted, MarketsWithinPlan
<1>7. ASSUME NEW s \in Handlers, AssignLoad(s) PROVE AccountInv'
  BY <1>7 DEF AssignLoad, Takes, Waiting, Never, Grantable, Requests, UserRows, AccountTypes, Granted, Counted, MarketsWithinPlan
<1>8. ASSUME NEW s \in Handlers, ReconcileLoad(s) PROVE AccountInv'
  BY <1>8 DEF ReconcileLoad, Takes, Newest, Waiting, Never, Grantable, Requests, UserRows, AccountTypes, Granted, Counted, MarketsWithinPlan
<1>9. ASSUME NEW s \in Handlers, SaveUser(s) PROVE AccountInv'
  <2> DEFINE r == serving[s]
  <2>1. /\ serving' = [serving EXCEPT ![s] = Waiting]
        /\ UNCHANGED <<today, markets, overtaken, calls, contract, latest>>
        /\ r \in Requests /\ r.op \in {"edit", "reconcile", "trial", "assign"}
    BY <1>9 DEF SaveUser, Frees, AccountTypes
  <2>2. /\ user' \in UserRows /\ entitled' \subseteq Grantable /\ entitled \subseteq entitled'
        /\ user'.plan # NoPlan => user'.plan \in entitled'
    <3>1. CASE r.op \in {"edit", "reconcile"}
      <4>1. user' = r.user /\ r.user \in UserRows
        BY <1>9, <2>1, <3>1 DEF SaveUser, Requests, Waiting, UserRows
      <4>2. entitled' = IF r.op = "edit" THEN entitled ELSE entitled \cup ({r.user.plan} \ {NoPlan})
        BY <1>9, <3>1 DEF SaveUser
      <4> QED
        BY <2>1, <3>1, <4>1, <4>2 DEF UserRows, AccountTypes, Granted
    <3>2. CASE r.op \in {"trial", "assign"}
      <4> DEFINE plan == IF r.op = "trial" THEN TrialPlan ELSE r.plan
      <4>1. plan \in Grantable
        BY <2>1, <3>2 DEF Requests, Waiting, Grantable
      <4>2. user' = [plan |-> plan, until |-> today + Term] /\ entitled' = entitled \cup ({plan} \ {NoPlan})
        <5>1. CASE r.op = "trial"
          BY <1>9, <5>1 DEF SaveUser
        <5>2. CASE r.op = "assign"
          BY <1>9, <5>2 DEF SaveUser
        <5> QED
          BY <3>2, <5>1, <5>2
      <4> QED
        BY <4>1, <4>2 DEF UserRows, AccountTypes
    <3> QED
      BY <2>1, <3>1, <3>2
  <2>3. AccountTypes'
    BY <2>1, <2>2 DEF AccountTypes, Requests
  <2>4. Granted'
    BY <2>1, <2>2 DEF AccountTypes, Granted, Waiting
  <2>5. Counted' /\ MarketsWithinPlan'
    BY <2>1, <2>2 DEF AccountTypes, Counted, MarketsWithinPlan, Waiting
  <2> QED
    BY <2>3, <2>4, <2>5
<1>10. ASSUME NEW s \in Handlers, CheckLimit(s) PROVE AccountInv'
  BY <1>10 DEF CheckLimit, Takes, Waiting, Never, Grantable, Requests, UserRows, AccountTypes, Granted, Counted, MarketsWithinPlan
<1>11. ASSUME NEW s \in Handlers, CreateMarket(s) PROVE AccountInv'
  BY <1>11 DEF CreateMarket, CountMarkets, Waiting, Never, Grantable, Requests, UserRows, AccountTypes, Granted, Counted, MarketsWithinPlan
<1>12. ASSUME NEW s \in Handlers, InsertMarket(s) PROVE AccountInv'
  <2>0. serving[s] \in Requests /\ serving[s].op = "counted"
    BY <1>12 DEF InsertMarket, AccountTypes
  <2>1. /\ serving[s] \in [op : {"counted"}, of : Nat] /\ markets' = markets + 1
        /\ overtaken' = (IF markets = serving[s].of THEN overtaken ELSE overtaken + 1)
        /\ serving' = [serving EXCEPT ![s] = Waiting]
        /\ UNCHANGED <<today, user, contract, latest, entitled>>
    <3>1. serving[s] \in [op : {"counted"}, of : Nat]
      BY <2>0 DEF Requests, Waiting
    <3> QED
      BY <1>12, <3>1 DEF InsertMarket
  <2>2. AccountTypes' /\ Granted' /\ Counted'
    BY <2>1 DEF Waiting, Requests, AccountTypes, Granted, Counted
  <2>3. \A p \in entitled : MaxMarkets[p] \in Nat
    BY DEF AccountTypes, Grantable
  <2>4. MarketsWithinPlan'
    <3>1. markets \in Nat /\ overtaken \in Nat
      BY DEF AccountTypes
    <3>2. CASE markets = serving[s].of
      <4>1. PICK q \in entitled : markets + 1 <= MaxMarkets[q]
        BY <2>0, <3>2 DEF Counted
      <4>2. q \in entitled' /\ markets' <= MaxMarkets[q] + overtaken'
        BY <2>1, <2>3, <3>1, <3>2, <4>1
      <4> QED
        BY <4>2 DEF MarketsWithinPlan
    <3>3. CASE markets # serving[s].of
      BY <2>1, <2>3, <3>1, <3>3 DEF MarketsWithinPlan
    <3> QED
      BY <3>2, <3>3
  <2> QED
    BY <2>2, <2>4
<1>13. CASE UNCHANGED accountVars
  BY <1>13 DEF accountVars, AccountTypes, Granted, Counted, MarketsWithinPlan
<1> QED
  BY <1>1, <1>2, <1>3, <1>4, <1>5, <1>6, <1>7, <1>8, <1>9, <1>10, <1>11, <1>12, <1>13 DEF AccountsNext

\* Nobody has more markets than the largest plan he was granted allows and
\* those another creation overtook, for any plans and number of requests and
\* however trials, payments, edits, assignments, reconciliations and creations
\* overlap.
THEOREM WithinPlan == AccountsSpec => []MarketsWithinPlan
<1>1. AccountsInit => AccountInv
  BY AccountsAssumption
  DEF AccountsInit, AccountInv, AccountTypes, Granted, Counted, MarketsWithinPlan,
      Waiting, Requests, UserRows, NoContract, Never
<1>2. AccountInv /\ [AccountsNext]_accountVars => AccountInv'
  BY AccountsStep
<1>3. AccountInv => MarketsWithinPlan
  BY DEF AccountInv
<1> QED
  BY <1>1, <1>2, <1>3, PTL DEF AccountsSpec

-----------------------------------------------------------------------------
(* Sales funnels *)

\* Min finds the least of a set of naturals that is not empty; Max finds the
\* greatest of one with a bound

LEMMA MinOf ==
  ASSUME NEW S \in SUBSET Nat, S # {}
  PROVE  Min(S) \in S /\ \A x \in S : Min(S) <= x
BY LeastOf DEF Min

LEMMA MaxOf ==
  ASSUME NEW n \in Nat, NEW S \in SUBSET (0 .. n), S # {}
  PROVE  Max(S) \in S /\ \A x \in S : x <= Max(S)
<1> DEFINE T == {n - x : x \in S}
<1>0. \A x \in S : n - x \in Nat
  OBVIOUS
<1>1. T \in SUBSET Nat /\ T # {}
  BY <1>0
<1>2. PICK t \in T : \A y \in T : t <= y
  BY <1>1, LeastOf
<1>3. PICK m \in S : t = n - m
  BY <1>2
<1>4. \A x \in S : x <= m
  BY <1>2, <1>3
<1> QED
  BY <1>3, <1>4 DEF Max

\* the rows of a funnel and what its requests have in hand
Stamps == Tracked \cup {"registered", "completed"}
Statuses == {"draft", "published", "archived"}
VariantRows == [weight : {0, 1}, active : BOOLEAN]
KeptVisits ==
  [state : {"kept"}, variant : Variants, user : People \cup {NoOne}, last : Nat \cup {NoOne},
   stamps : SUBSET Stamps]
EditRows ==
  {Rest} \cup [op : {"publish"}] \cup [op : {"add"}, variant : Variants, position : Nat]
    \cup [op : {"renumber"}, variant : Variants, old : (SUBSET Nat) \ {{}}, gone : SUBSET Nat]
CallRows ==
  {Rest} \cup [op : {"link"}, visit : Visits, user : People, stamps : SUBSET {"registered"}]
    \cup [op : {"mark"}, visit : Visits, user : People, milestone : Tracked]

FunnelTypes ==
  /\ funnel \in [status : Statuses, plan : BOOLEAN]
  /\ Live \subseteq Variants /\ variant \in [Live -> VariantRows]
  /\ steps \in [Variants -> SUBSET Nat]
  /\ \A v \in Variants : \E n \in Nat : steps[v] \subseteq 0 .. n
  /\ visit \in [Visits -> {NoVisit, Erased} \cup KeptVisits]
  /\ edit \in [Admins -> EditRows] /\ call \in [Callers -> CallRows]
  /\ reached \subseteq People \X Stamps /\ late \subseteq People
  /\ \A s \in Kept : visit[s].variant \in Live

\* types are kept by every step, and a session is kept as long as its variant
LEMMA FunnelTypesStep ==
  ASSUME FunnelTypes, [FunnelNext]_funnelVars
  PROVE  FunnelTypes'
<1> USE FunnelsAssumption
<1>1. ASSUME NEW a \in Admins, UpdateFunnel(a) PROVE FunnelTypes'
  BY <1>1 DEF UpdateFunnel, FunnelTypes, Live, Kept, EditRows, CallRows, KeptVisits, VariantRows, Statuses, Stamps, Tracked, Rest, NoVisit, Erased, Begins, Once, Ends, NewIds, Reading, Visit, Variant
<1>2. ASSUME NEW a \in Admins, Publish(a) PROVE FunnelTypes'
  BY <1>2 DEF Publish, FunnelTypes, Live, Kept, EditRows, CallRows, KeptVisits, VariantRows, Statuses, Stamps, Tracked, Rest, NoVisit, Erased, Begins, Once, Ends, NewIds, Reading, Visit, Variant
<1>3. ASSUME NEW a \in Admins, PublishSave(a) PROVE FunnelTypes'
  BY <1>3 DEF PublishSave, FunnelTypes, Live, Kept, EditRows, CallRows, KeptVisits, VariantRows, Statuses, Stamps, Tracked, Rest, NoVisit, Erased, Begins, Once, Ends, NewIds, Reading, Visit, Variant
<1>4. ASSUME NEW a \in Admins, Withdraw(a) PROVE FunnelTypes'
  BY <1>4 DEF Withdraw, FunnelTypes, Live, Kept, EditRows, CallRows, KeptVisits, VariantRows, Statuses, Stamps, Tracked, Rest, NoVisit, Erased, Begins, Once, Ends, NewIds, Reading, Visit, Variant
<1>5. ASSUME NEW a \in Admins, AddVariant(a) PROVE FunnelTypes'
  BY <1>5 DEF AddVariant, FunnelTypes, Live, Kept, EditRows, CallRows, KeptVisits, VariantRows, Statuses, Stamps, Tracked, Rest, NoVisit, Erased, Begins, Once, Ends, NewIds, Reading, Visit, Variant
<1>6. ASSUME NEW a \in Admins, AddStepSave(a) PROVE FunnelTypes'
  BY <1>6 DEF AddStepSave, FunnelTypes, Live, Kept, EditRows, CallRows, KeptVisits, VariantRows, Statuses, Stamps, Tracked, Rest, NoVisit, Erased, Begins, Once, Ends, NewIds, Reading, Visit, Variant
<1>7. ASSUME NEW a \in Admins, RenumberSave(a) PROVE FunnelTypes'
  <2> DEFINE r == edit[a]
             new == (steps[r.variant] \ r.old) \cup Renumbered(r)
  <2>1. r.op = "renumber" /\ r.variant \in Variants
    BY <1>7 DEF RenumberSave, FunnelTypes, EditRows, Rest
  <2>2. /\ edit' = [edit EXCEPT ![a] = Rest] /\ steps' \in {steps, [steps EXCEPT ![r.variant] = new]}
        /\ UNCHANGED <<funnel, variant, visit, call, reached, late>>
    BY <1>7 DEF RenumberSave, Ends
  <2>3. PICK n \in Nat : steps[r.variant] \subseteq 0 .. n
    BY <2>1 DEF FunnelTypes
  <2>4. new \subseteq 0 .. (n + MaxSteps) /\ n + MaxSteps \in Nat
    BY <2>3 DEF Renumbered
  <2> HIDE DEF new, r
  <2>5. /\ steps' \in [Variants -> SUBSET Nat]
        /\ \A v \in Variants : \E k \in Nat : steps'[v] \subseteq 0 .. k
    <3>1. new \in SUBSET Nat
      BY <2>4
    <3>2. CASE steps' = steps
      BY <3>2 DEF FunnelTypes
    <3>3. CASE steps' = [steps EXCEPT ![r.variant] = new]
      <4>1. steps' \in [Variants -> SUBSET Nat]
        BY <3>1, <3>3 DEF FunnelTypes
      <4>2. ASSUME NEW v \in Variants PROVE \E k \in Nat : steps'[v] \subseteq 0 .. k
        <5>1. CASE v = r.variant
          BY <2>1, <2>4, <3>3, <5>1 DEF FunnelTypes
        <5>2. CASE v # r.variant
          BY <3>3, <5>2 DEF FunnelTypes
        <5> QED
          BY <5>1, <5>2
      <4> QED
        BY <4>1, <4>2
    <3> QED
      BY <2>2, <3>2, <3>3
  <2> QED
    BY <2>2, <2>5 DEF FunnelTypes, Live, Kept, EditRows
<1>8. ASSUME NEW a \in Admins, NEW v \in Live, DuplicateVariant(a, v) PROVE FunnelTypes'
  BY <1>8 DEF DuplicateVariant, FunnelTypes, Live, Kept, EditRows, CallRows, KeptVisits, VariantRows, Statuses, Stamps, Tracked, Rest, NoVisit, Erased, Begins, Once, Ends, NewIds, Reading, Visit, Variant
<1>9. ASSUME NEW a \in Admins, NEW v \in Live, UpdateVariant(a, v) PROVE FunnelTypes'
  BY <1>9 DEF UpdateVariant, FunnelTypes, Live, Kept, EditRows, CallRows, KeptVisits, VariantRows, Statuses, Stamps, Tracked, Rest, NoVisit, Erased, Begins, Once, Ends, NewIds, Reading, Visit, Variant
<1>10. ASSUME NEW a \in Admins, NEW v \in Live, DeleteVariant(a, v) PROVE FunnelTypes'
  BY <1>10 DEF DeleteVariant, FunnelTypes, Live, Kept, EditRows, CallRows, KeptVisits, VariantRows, Statuses, Stamps, Tracked, Rest, NoVisit, Erased, Begins, Once, Ends, NewIds, Reading, Visit, Variant
<1>11. ASSUME NEW a \in Admins, NEW v \in Live, AddStep(a, v) PROVE FunnelTypes'
  <2>1. v \in Variants /\ steps[v] \subseteq Nat
    BY DEF FunnelTypes
  <2>2. NextPosition(v) \in Nat
    <3>1. CASE steps[v] = {}
      BY <3>1 DEF NextPosition
    <3>2. CASE steps[v] # {}
      <4>1. PICK n \in Nat : steps[v] \subseteq 0 .. n
        BY <2>1 DEF FunnelTypes
      <4>2. Max(steps[v]) \in Nat
        BY <2>1, <3>2, <4>1, MaxOf
      <4> QED
        BY <3>2, <4>2 DEF NextPosition
    <3> QED
      BY <3>1, <3>2
  <2> QED
    BY <1>11, <2>1, <2>2 DEF AddStep, Reading, FunnelTypes, Live, Kept, EditRows, Begins
<1>12. ASSUME NEW a \in Admins, NEW v \in Live, DeleteOrReorder(a, v) PROVE FunnelTypes'
  <2>1. v \in Variants /\ steps[v] \in SUBSET Nat
    BY DEF FunnelTypes
  <2>2. PICK gone \in SUBSET steps[v] :
          /\ steps[v] # {}
          /\ Reading(a, v, [op |-> "renumber", variant |-> v, old |-> steps[v], gone |-> gone])
    BY <1>12 DEF DeleteOrReorder
  <2>3. [op |-> "renumber", variant |-> v, old |-> steps[v], gone |-> gone] \in EditRows
    BY <2>1, <2>2 DEF EditRows
  <2> QED
    BY <2>2, <2>3 DEF Reading, Begins, FunnelTypes, Live, Kept
<1>13. CASE StartSession
  BY <1>13 DEF StartSession, Visits, Eligible, FunnelTypes, Live, Kept, EditRows, CallRows, KeptVisits, VariantRows, Statuses, Stamps, Tracked, Rest, NoVisit, Erased, Begins, Once, Ends, NewIds, Reading, Visit, Variant
<1>14. CASE RecordEvent
  <2>1. PICK s \in Kept :
          \/ \E position \in steps[visit[s].variant] : visit' = [visit EXCEPT ![s].last = position]
          \/ visit' = [visit EXCEPT ![s].stamps = @ \cup {"completed"}]
    BY <1>14 DEF RecordEvent
  <2>2. s \in Visits /\ visit[s] \in KeptVisits /\ visit[s].variant \in Variants
    BY <2>1 DEF FunnelTypes, Kept, NoVisit, Erased, KeptVisits
  <2>3. \A position \in steps[visit[s].variant] : [visit[s] EXCEPT !.last = position] \in KeptVisits
    BY <2>2 DEF FunnelTypes, KeptVisits
  <2>4. [visit[s] EXCEPT !.stamps = @ \cup {"completed"}] \in KeptVisits
    BY <2>2 DEF KeptVisits, Stamps
  <2>5. PICK new \in KeptVisits : visit' = [visit EXCEPT ![s] = new] /\ new.variant = visit[s].variant
    BY <2>1, <2>2, <2>3, <2>4 DEF FunnelTypes, KeptVisits
  <2> QED
    BY <1>14, <2>1, <2>2, <2>5 DEF RecordEvent, FunnelTypes, Live, Kept
<1>15. ASSUME NEW p \in Callers, LinkSave(p) PROVE FunnelTypes'
  <2> DEFINE r == call[p]
             new == [visit[r.visit] EXCEPT !.user = r.user, !.stamps = @ \cup r.stamps]
  <2>1. r.op = "link" /\ r.visit \in Visits /\ r.user \in People /\ r.stamps \subseteq Stamps
    BY <1>15 DEF LinkSave, FunnelTypes, CallRows, Rest, Stamps
  <2>2. /\ visit' = IF visit[r.visit].state = "kept" THEN [visit EXCEPT ![r.visit] = new] ELSE visit
        /\ call' = [call EXCEPT ![p] = Rest]
        /\ UNCHANGED <<funnel, variant, steps, edit, reached, edits, late>>
    BY <1>15 DEF LinkSave, Writes
  <2>3. CASE visit[r.visit].state = "kept"
    <3>1. visit[r.visit] \in KeptVisits
      BY <2>1, <2>3 DEF FunnelTypes, NoVisit, Erased
    <3>2. new \in KeptVisits /\ new.variant = visit[r.visit].variant /\ new.state = "kept"
      BY <2>1, <3>1 DEF KeptVisits
    <3> HIDE DEF new, r
    <3> QED
      BY <2>1, <2>2, <2>3, <3>1, <3>2 DEF FunnelTypes, Live, Kept, CallRows
  <2>4. CASE visit[r.visit].state # "kept"
    BY <2>2, <2>4 DEF FunnelTypes, Live, Kept, CallRows
  <2> QED
    BY <2>3, <2>4
<1>16. ASSUME NEW p \in Callers, MarkSave(p) PROVE FunnelTypes'
  <2> DEFINE r == call[p]
             new == [visit[r.visit] EXCEPT !.stamps = @ \cup {r.milestone}]
  <2>1. r.op = "mark" /\ r.visit \in Visits /\ r.milestone \in Stamps
    BY <1>16 DEF MarkSave, FunnelTypes, CallRows, Rest, Stamps
  <2>2. /\ visit' = IF visit[r.visit].state = "kept" THEN [visit EXCEPT ![r.visit] = new] ELSE visit
        /\ call' = [call EXCEPT ![p] = Rest]
        /\ UNCHANGED <<funnel, variant, steps, edit, reached, edits, late>>
    BY <1>16 DEF MarkSave, Writes
  <2>3. CASE visit[r.visit].state = "kept"
    <3>1. visit[r.visit] \in KeptVisits
      BY <2>1, <2>3 DEF FunnelTypes, NoVisit, Erased
    <3>2. new \in KeptVisits /\ new.variant = visit[r.visit].variant /\ new.state = "kept"
      BY <2>1, <3>1 DEF KeptVisits
    <3> HIDE DEF new, r
    <3> QED
      BY <2>1, <2>2, <2>3, <3>1, <3>2 DEF FunnelTypes, Live, Kept, CallRows
  <2>4. CASE visit[r.visit].state # "kept"
    BY <2>2, <2>4 DEF FunnelTypes, Live, Kept, CallRows
  <2> QED
    BY <2>3, <2>4
<1>17. ASSUME NEW p \in Callers, NEW s \in Visits, NEW u \in People, Link(p, s, u) PROVE FunnelTypes'
  BY <1>17 DEF Link, Reads, Milestone, FunnelTypes, Live, Kept, EditRows, CallRows, KeptVisits, VariantRows, Statuses, Stamps, Tracked, Rest, NoVisit, Erased, Begins, Once, Ends, NewIds, Reading, Visit, Variant
<1>18. ASSUME NEW p \in Callers, NEW u \in People, NEW m \in Tracked, Mark(p, u, m) PROVE FunnelTypes'
  BY <1>18 DEF Mark, Reads, Latest, Of, FunnelTypes, Live, Kept, EditRows, CallRows, KeptVisits, VariantRows, Statuses, Stamps, Tracked, Rest, NoVisit, Erased, Begins, Once, Ends, NewIds, Reading, Visit, Variant
<1>19. CASE UNCHANGED funnelVars
  BY <1>19 DEF funnelVars, FunnelTypes, Live, Kept
<1> QED
  BY <1>1, <1>2, <1>3, <1>4, <1>5, <1>6, <1>7, <1>8, <1>9, <1>10, <1>11, <1>12, <1>13, <1>14, <1>15, <1>16, <1>17, <1>18, <1>19 DEF FunnelNext, AdminNext, AttributionNext

\* positions without a gap from 0 on; what publication tests
Gapless(S) == \E n \in 0 .. MaxSteps : S = {i \in 0 .. MaxSteps : i < n}
Served ==
  /\ rewritten = {} => Eligible # {}
  /\ \A v \in Live \ rewritten : variant[v].active => steps[v] # {}

\* of a variant whose steps no two requests edit at a time, what a request has
\* read is still so
Pending ==
  \A v \in Live \ crossed :
    /\ \A a, b \in Stepping(v) : a = b
    /\ \A a \in Stepping(v) :
         LET r == edit[a]
         IN  /\ r.op = "add" => /\ Cardinality(steps[v]) < MaxSteps
                                /\ r.position = NextPosition(v)
             /\ r.op = "renumber" => r.old = steps[v]

\* the invariant of VisitorIsServed
ServedInv ==
  /\ FunnelTypes /\ Served /\ Pending
  /\ \A v \in Variants \ Live : steps[v] = {}
  /\ \A v \in Live \ crossed : Gapless(steps[v])

\* a set without gaps is an interval: how many there are, and the last of them
LEMMA GaplessSize ==
  ASSUME NEW S, NEW n \in 0 .. MaxSteps, S = {i \in 0 .. MaxSteps : i < n}
  PROVE  /\ S = 0 .. (n - 1) /\ IsFiniteSet(S) /\ Cardinality(S) = n
         /\ S # {} => Max(S) = n - 1
<1> USE FunnelsAssumption
<1>1. S = 0 .. (n - 1)
  <2>1. \A i : i \in S <=> i \in 0 .. (n - 1)
    OBVIOUS
  <2> QED
    BY <2>1
<1>2. IsFiniteSet(S) /\ Cardinality(S) = n
  BY <1>1, FS_Interval
<1>3. ASSUME S # {} PROVE Max(S) = n - 1
  <2>1. n \in Nat /\ S \in SUBSET (0 .. n) /\ n - 1 \in S
    BY <1>1, <1>3
  <2>2. Max(S) \in S /\ n - 1 <= Max(S)
    BY <1>3, <2>1, MaxOf
  <2> QED
    BY <1>1, <2>2
<1> QED
  BY <1>1, <1>2, <1>3

LEMMA GaplessEmpty == Gapless({})
BY FunnelsAssumption DEF Gapless

\* the next position leaves no gap, nor does a new numbering
LEMMA GaplessAdded ==
  ASSUME NEW v \in Variants, Gapless(steps[v]), Cardinality(steps[v]) < MaxSteps
  PROVE  Gapless(steps[v] \cup {NextPosition(v)})
<1> USE FunnelsAssumption
<1>1. PICK n \in 0 .. MaxSteps : steps[v] = {i \in 0 .. MaxSteps : i < n}
  BY DEF Gapless
<1>2. /\ steps[v] = 0 .. (n - 1) /\ Cardinality(steps[v]) = n
      /\ steps[v] # {} => Max(steps[v]) = n - 1
  BY <1>1, GaplessSize
<1>3. NextPosition(v) = n
  <2>1. CASE n = 0
    <3>1. steps[v] = {}
      BY <1>2, <2>1
    <3> QED
      BY <2>1, <3>1 DEF NextPosition
  <2>2. CASE n # 0
    <3>1. 0 \in steps[v] /\ n \in Int
      BY <1>2, <2>2
    <3>2. steps[v] # {} /\ Max(steps[v]) = n - 1
      BY <1>2, <3>1
    <3> QED
      BY <3>1, <3>2 DEF NextPosition
  <2> QED
    BY <2>1, <2>2
<1>4. n + 1 \in 0 .. MaxSteps /\ steps[v] \cup {n} = {i \in 0 .. MaxSteps : i < n + 1}
  BY <1>1, <1>2
<1> QED
  BY <1>3, <1>4 DEF Gapless

LEMMA GaplessRenumbered ==
  ASSUME NEW S, Gapless(S), NEW gone
  PROVE  Gapless({i \in 0 .. MaxSteps : i < Cardinality(S \ gone)})
<1> USE FunnelsAssumption
<1>1. PICK n \in 0 .. MaxSteps : S = {i \in 0 .. MaxSteps : i < n}
  BY DEF Gapless
<1>2. IsFiniteSet(S) /\ Cardinality(S) = n
  BY <1>1, GaplessSize
<1>3. IsFiniteSet(S \ gone) /\ Cardinality(S \ gone) <= n
  BY <1>2, FS_Subset
<1>4. Cardinality(S \ gone) \in Nat
  BY <1>3, FS_CardinalityType
<1> QED
  BY <1>3, <1>4 DEF Gapless

\* a request that edits no step
LEMMA ServedQuiet ==
  ASSUME ServedInv, FunnelTypes', UNCHANGED <<steps, crossed>>, Served', Live' = Live,
         \A v \in Live : Stepping(v)' = Stepping(v),
         \A v \in Live : \A a \in Stepping(v) : edit'[a] = edit[a]
  PROVE  ServedInv'
<1>1. \A v \in Live : NextPosition(v)' = NextPosition(v)
  BY DEF NextPosition
<1> QED
  BY <1>1 DEF ServedInv, Pending, Stepping

LEMMA ServedStep ==
  ASSUME ServedInv, [FunnelNext]_funnelVars
  PROVE  ServedInv'
<1> USE FunnelsAssumption DEF ServedInv
<1>0. FunnelTypes'
  BY FunnelTypesStep
<1>1. ASSUME NEW a \in Admins, UpdateFunnel(a) PROVE ServedInv'
  BY <1>0, <1>1, ServedQuiet DEF UpdateFunnel, FunnelTypes, Pending, Stepping, Served, Live, Eligible, Rest, Begins, Once, Ends, NextPosition
<1>2. ASSUME NEW a \in Admins, Publish(a) PROVE ServedInv'
  BY <1>0, <1>2, ServedQuiet DEF Publish, Publishable, FunnelTypes, Pending, Stepping, Served, Live, Eligible, Rest, Begins, Once, Ends, NextPosition
<1>3. ASSUME NEW a \in Admins, PublishSave(a) PROVE ServedInv'
  BY <1>0, <1>3, ServedQuiet DEF PublishSave, FunnelTypes, Pending, Stepping, Served, Live, Eligible, Rest, Begins, Once, Ends, NextPosition
<1>4. ASSUME NEW a \in Admins, Withdraw(a) PROVE ServedInv'
  BY <1>0, <1>4, ServedQuiet DEF Withdraw, FunnelTypes, Pending, Stepping, Served, Live, Eligible, Rest, Begins, Once, Ends, NextPosition
<1>5. ASSUME NEW a \in Admins, AddVariant(a) PROVE ServedInv'
  <2>1. PICK v \in NewIds, weight \in {0, 1} :
          /\ variant' = [u \in Live \cup {v} |-> IF u = v THEN Variant(weight) ELSE variant[u]]
          /\ rewritten' = rewritten \cup {v} /\ crossed' = crossed \ {v}
    BY <1>5 DEF AddVariant, Rewrites
  <2>2. /\ Live' = Live \cup {v} /\ v \notin Live /\ v \in Variants /\ Stepping(v) = {}
        /\ steps[v] = {} /\ UNCHANGED steps
        /\ \A u \in Variants : Stepping(u)' = Stepping(u)
        /\ \A b \in Admins : b # a => edit'[b] = edit[b]
        /\ \A u \in Variants : a \notin Stepping(u)
    BY <1>5, <2>1 DEF AddVariant, NewIds, Once, Begins, Live, Stepping, FunnelTypes, Rest
  <2>3. Served'
    BY <2>1, <2>2 DEF Served
  <2>4. \A u \in Variants : NextPosition(u)' = NextPosition(u)
    BY <2>2 DEF NextPosition
  <2>5. Pending'
    <3>1. \A u \in Live' \ crossed' : u = v \/ u \in Live \ crossed
      BY <2>1, <2>2
    <3>2. Live \subseteq Variants /\ \A u \in Variants : \A b \in Stepping(u) : edit'[b] = edit[b]
      BY <2>2 DEF FunnelTypes, Stepping
    <3> QED
      BY <2>2, <2>4, <3>1, <3>2 DEF Pending
  <2>6. /\ \A u \in Variants \ Live' : steps'[u] = {}
        /\ \A u \in Live' \ crossed' : Gapless(steps'[u])
    BY <2>1, <2>2, GaplessEmpty
  <2> QED
    BY <1>0, <2>3, <2>5, <2>6
<1>6. ASSUME NEW a \in Admins, AddStepSave(a) PROVE ServedInv'
  <2> DEFINE r == edit[a]
  <2>1. /\ r.op = "add" /\ r.variant \in Variants /\ edit' = [edit EXCEPT ![a] = Rest]
        /\ UNCHANGED <<funnel, variant, crossed>> /\ rewritten' = rewritten \cup {r.variant}
        /\ steps' = IF r.variant \in Live THEN [steps EXCEPT ![r.variant] = @ \cup {r.position}] ELSE steps
    BY <1>6 DEF AddStepSave, FunnelTypes, EditRows, Rest, Ends, Rewrites
  <2>2. /\ Live' = Live /\ a \in Stepping(r.variant)
        /\ \A v \in Variants : Stepping(v)' \subseteq Stepping(v) \ {a}
        /\ \A b \in Admins \ {a} : edit'[b] = edit[b]
        /\ \A v \in Variants \ {r.variant} : steps'[v] = steps[v] /\ NextPosition(v)' = NextPosition(v)
    BY <2>1 DEF Live, Stepping, NextPosition, FunnelTypes, Rest
  <2>3. Served'
    BY <2>1, <2>2 DEF Served, Eligible, FunnelTypes
  <2>4. Pending'
    <3>1. ASSUME NEW v \in Live \ crossed, v = r.variant PROVE Stepping(v)' = {}
      <4>1. \A b \in Stepping(v) : b = a
        BY <2>2, <3>1 DEF Pending
      <4> QED
        BY <2>1, <2>2, <3>1, <4>1
    <3> QED
      BY <2>1, <2>2, <3>1 DEF Pending, FunnelTypes, Stepping
  <2>5. ASSUME NEW v \in Live \ crossed PROVE Gapless(steps'[v])
    <3>1. v = r.variant => Gapless(steps[v] \cup {r.position})
      BY <2>1, <2>2, GaplessAdded DEF Pending, FunnelTypes
    <3> QED
      BY <2>1, <2>2, <3>1 DEF FunnelTypes
  <2>6. \A v \in Variants \ Live : steps'[v] = {}
    BY <2>1
  <2> QED
    BY <1>0, <2>1, <2>2, <2>3, <2>4, <2>5, <2>6
<1>7. ASSUME NEW a \in Admins, RenumberSave(a) PROVE ServedInv'
  <2> DEFINE r == edit[a]
             new == (steps[r.variant] \ r.old) \cup Renumbered(r)
  <2>1. /\ r.op = "renumber" /\ r.variant \in Variants /\ edit' = [edit EXCEPT ![a] = Rest]
        /\ UNCHANGED <<funnel, variant, crossed>> /\ rewritten' = rewritten \cup {r.variant}
        /\ steps' \in {steps, [steps EXCEPT ![r.variant] = new]} /\ r.old # {}
        /\ steps' = steps \/ r.old \subseteq steps[r.variant]
    BY <1>7 DEF RenumberSave, FunnelTypes, EditRows, Rest, Ends, Rewrites
  <2>2. /\ Live' = Live /\ a \in Stepping(r.variant)
        /\ \A v \in Variants : Stepping(v)' \subseteq Stepping(v) \ {a}
        /\ \A b \in Admins \ {a} : edit'[b] = edit[b]
        /\ \A v \in Variants \ {r.variant} : steps'[v] = steps[v] /\ NextPosition(v)' = NextPosition(v)
    BY <2>1 DEF Live, Stepping, NextPosition, FunnelTypes, Rest
  <2>3. Served'
    BY <2>1, <2>2 DEF Served, Eligible, FunnelTypes
  <2>4. Pending'
    <3>1. ASSUME NEW v \in Live \ crossed, v = r.variant PROVE Stepping(v)' = {}
      <4>1. \A b \in Stepping(v) : b = a
        BY <2>2, <3>1 DEF Pending
      <4> QED
        BY <2>1, <2>2, <3>1, <4>1
    <3> QED
      BY <2>1, <2>2, <3>1 DEF Pending, FunnelTypes, Stepping
  <2>5. ASSUME NEW v \in Live \ crossed PROVE Gapless(steps'[v])
    <3>1. CASE v = r.variant
      <4>1. r.old = steps[v]
        BY <2>1, <2>2, <3>1 DEF Pending
      <4>2. Gapless({i \in 0 .. MaxSteps : i < Cardinality(r.old \ r.gone)})
        BY <4>1, GaplessRenumbered
      <4>3. Gapless(Renumbered(r)) /\ new = Renumbered(r)
        BY <3>1, <4>1, <4>2 DEF Renumbered
      <4> QED
        BY <2>1, <3>1, <4>3 DEF FunnelTypes
    <3> QED
      BY <2>1, <2>2, <3>1 DEF FunnelTypes
  <2>6. \A v \in Variants \ Live : steps'[v] = {}
    BY <2>1, <2>2
  <2> QED
    BY <1>0, <2>1, <2>2, <2>3, <2>4, <2>5, <2>6
<1>8. ASSUME NEW a \in Admins, NEW v \in Live, DuplicateVariant(a, v) PROVE ServedInv'
  BY <1>0, <1>8 DEF DuplicateVariant, Rewrites, NewIds, FunnelTypes, Pending, Stepping, Served, Live, Eligible, Rest, Begins, Once, Ends, NextPosition
<1>9. ASSUME NEW a \in Admins, NEW v \in Live, UpdateVariant(a, v) PROVE ServedInv'
  BY <1>0, <1>9, ServedQuiet DEF UpdateVariant, Rewrites, FunnelTypes, Pending, Stepping, Served, Live, Eligible, Rest, Begins, Once, Ends, NextPosition
<1>10. ASSUME NEW a \in Admins, NEW v \in Live, DeleteVariant(a, v) PROVE ServedInv'
  BY <1>0, <1>10 DEF DeleteVariant, Rewrites, FunnelTypes, Pending, Stepping, Served, Live, Eligible, Rest, Begins, Once, Ends, NextPosition
<1>11. ASSUME NEW a \in Admins, NEW v \in Live, AddStep(a, v) PROVE ServedInv'
  BY <1>0, <1>11 DEF AddStep, Reading, FunnelTypes, Pending, Stepping, Served, Live, Eligible, Rest, Begins, Once, Ends, NextPosition
<1>12. ASSUME NEW a \in Admins, NEW v \in Live, DeleteOrReorder(a, v) PROVE ServedInv'
  BY <1>0, <1>12 DEF DeleteOrReorder, Reading, FunnelTypes, Pending, Stepping, Served, Live, Eligible, Rest, Begins, Once, Ends, NextPosition
<1>13. ASSUME UNCHANGED <<funnel, variant, steps, edit, rewritten, crossed>> PROVE ServedInv'
  BY <1>0, <1>13, ServedQuiet DEF Served, Live, Eligible, Stepping
<1> QED
  BY <1>1, <1>2, <1>3, <1>4, <1>5, <1>6, <1>7, <1>8, <1>9, <1>10, <1>11, <1>12, <1>13 DEF FunnelNext, AdminNext, AttributionNext, StartSession,
     RecordEvent, LinkSave, MarkSave, Link, Mark, Reads, Writes, funnelVars

\* with steps without a gap everybody is put on one of them
LEMMA ServedEnough ==
  ASSUME ServedInv
  PROVE  VisitorIsServed
<1> USE FunnelsAssumption DEF ServedInv
<1>1. \A v \in Live \ crossed : \A i \in steps[v] : \A j \in 0 .. i : j \in steps[v]
  BY DEF FunnelTypes, Gapless
<1>2. ASSUME NEW s \in Kept, visit[s].variant \notin rewritten, variant[visit[s].variant].active
      PROVE  Resume(s) \in steps[visit[s].variant]
  <2> DEFINE there == steps[visit[s].variant]
  <2>1. visit[s].variant \in Live /\ there # {} /\ there \subseteq Nat
    BY <1>2 DEF FunnelTypes, Served
  <2>2. Min(there) \in there
    BY <2>1, MinOf
  <2> QED
    BY <2>1, <2>2 DEF Resume
<1> QED
  BY <1>1, <1>2 DEF Served, VisitorIsServed

\* the stamps a report counts
Milestones == Tracked \cup {"registered"}
Stamped(s, m) == s \in Kept /\ m \in visit[s].stamps

\* calls that are to tie a session to a user, and those that stamp it
Linking(p) == call[p].op = "link"
Registers(p) == Linking(p) /\ call[p].stamps # {}

\* a session is being tied to one user, and has stamps once it is
Tied ==
  /\ \A p, q \in Callers :
       Linking(p) /\ Linking(q) /\ call[p].visit = call[q].visit => call[p].user = call[q].user
  /\ \A p \in Callers :
       Linking(p) /\ visit[call[p].visit].state = "kept" =>
         visit[call[p].visit].user \in {NoOne, call[p].user}
  /\ \A p \in Callers : call[p].op # "rest" => visit[call[p].visit].state # "none"
  /\ \A s \in Visits, m \in Milestones : Stamped(s, m) => visit[s].user # NoOne

\* a registration is stamped, or to be stamped, on one session of its user
RegisteredOnce ==
  LET m == "registered"
  IN  /\ \A s \in Visits : Stamped(s, m) => <<visit[s].user, m>> \in reached
      /\ \A p \in Callers : Registers(p) => <<call[p].user, m>> \in reached
      /\ \A s, t \in Visits : Stamped(s, m) /\ Stamped(t, m) /\ visit[s].user = visit[t].user => s = t
      /\ \A p, q \in Callers :
           Registers(p) /\ Registers(q) /\ call[p].user = call[q].user => p = q
      /\ \A p \in Callers, s \in Visits :
           ~(Registers(p) /\ Stamped(s, m) /\ call[p].user = visit[s].user)

\* the other milestones are stamped on the last session of their user, and
\* nothing is tied to him from then on, unless he is a late one
MarkedLast ==
  \A m \in Tracked :
    /\ \A u \in People \ late : <<u, m>> \in reached => LinksOf(u) = {}
    /\ \A s \in Visits : Stamped(s, m) /\ visit[s].user \notin late =>
         /\ <<visit[s].user, m>> \in reached
         /\ \A t \in Kept : visit[t].user = visit[s].user => t <= s
    /\ \A p \in Callers : call[p].op = "mark" /\ call[p].milestone = m =>
         /\ visit[call[p].visit].state = "kept" => visit[call[p].visit].user = call[p].user
         /\ call[p].user \notin late =>
              /\ <<call[p].user, m>> \in reached
              /\ \A t \in Kept : visit[t].user = call[p].user => t <= call[p].visit

\* the invariant of ConvertedOnce
ConvertedInv == FunnelTypes /\ Tied /\ RegisteredOnce /\ MarkedLast

\* a step that ties, stamps and reaches nothing keeps it
LEMMA ConvertedQuiet ==
  ASSUME ConvertedInv, UNCHANGED <<call, reached, late>>, FunnelTypes',
         \A s \in Visits :
           /\ visit'[s].state = "none" => visit[s].state = "none"
           /\ visit'[s].state = "kept" =>
                \/ /\ visit[s].state = "kept" /\ visit'[s].user = visit[s].user
                   /\ visit'[s].stamps \subseteq visit[s].stamps \cup {"completed"}
                \/ /\ visit[s].state = "none" /\ visit'[s].user = NoOne
                   /\ visit'[s].stamps = {}
  PROVE  ConvertedInv'
<1> USE DEF ConvertedInv
<1>0. NoOne \notin People
  BY FunnelsAssumption
<1>1. \A s \in Visits, m \in Milestones :
        Stamped(s, m)' => Stamped(s, m) /\ visit'[s].user = visit[s].user
  BY DEF Stamped, Kept, Milestones, Tracked
<1>2. \A p \in Callers : Linking(p)' = Linking(p) /\ Registers(p)' = Registers(p)
  BY DEF Linking, Registers
<1>3. /\ \A u \in People : LinksOf(u)' = LinksOf(u)
      /\ \A t \in Kept' : visit'[t].user = NoOne \/ (t \in Kept /\ visit'[t].user = visit[t].user)
  <2>1. \A u \in People : LinksOf(u)' = LinksOf(u)
    BY DEF LinksOf
  <2>2. ASSUME NEW t \in Kept'
        PROVE  visit'[t].user = NoOne \/ (t \in Kept /\ visit'[t].user = visit[t].user)
    <3>1. t \in Visits /\ visit'[t].state = "kept"
      BY DEF Kept
    <3> QED
      BY <3>1 DEF Kept
  <2> QED
    BY <2>1, <2>2
<1>4. \A p \in Callers : call[p].op \in {"link", "mark"} =>
        call[p].visit \in Visits /\ call[p].user \in People
  BY DEF FunnelTypes, CallRows, Rest
<1>5. \A p \in Callers : call[p].op \in {"rest", "link", "mark"}
  BY DEF FunnelTypes, CallRows, Rest
<1>6. Tied'
  BY <1>1, <1>2, <1>4, <1>5 DEF Tied, Linking
<1>7. RegisteredOnce'
  BY <1>1, <1>2 DEF RegisteredOnce, Milestones
<1>8. ASSUME NEW m \in Tracked, NEW s \in Visits, Stamped(s, m)
      PROVE  visit[s].user \in People
  BY <1>8 DEF Tied, Milestones, Stamped, Kept, FunnelTypes, KeptVisits, NoVisit, Erased
<1>9. MarkedLast'
  BY <1>0, <1>1, <1>3, <1>4, <1>5, <1>8 DEF MarkedLast, Milestones, Tied
<1> QED
  BY <1>6, <1>7, <1>9

LEMMA ConvertedStep ==
  ASSUME ConvertedInv, [FunnelNext]_funnelVars
  PROVE  ConvertedInv'
<1> USE FunnelsAssumption DEF ConvertedInv
<1>0. FunnelTypes'
  BY FunnelTypesStep
<1>1. CASE AdminNext
  <2>1. UNCHANGED <<call, reached, late>> /\ \A s \in Visits : visit'[s] = visit[s] \/ visit'[s] = Erased
    BY <1>1 DEF AdminNext, UpdateFunnel, Publish, PublishSave, Withdraw, AddVariant, AddStepSave,
         RenumberSave, DuplicateVariant, UpdateVariant, DeleteVariant, AddStep, DeleteOrReorder,
         Reading, Begins, Once, Ends
  <2> QED
    BY <1>0, <2>1, ConvertedQuiet DEF Erased, NoVisit, KeptVisits, FunnelTypes
<1>2. CASE StartSession
  BY <1>0, <1>2, ConvertedQuiet
  DEF StartSession, Visit, FunnelTypes, Erased, NoVisit, KeptVisits
<1>3. CASE RecordEvent
  BY <1>0, <1>3, ConvertedQuiet
  DEF RecordEvent, FunnelTypes, Kept, Erased, NoVisit, KeptVisits
<1>4. ASSUME NEW p \in Callers, LinkSave(p) PROVE ConvertedInv'
  <2> DEFINE r == call[p]
             s == r.visit
  <2>1. /\ r.op = "link" /\ s \in Visits /\ r.user \in People /\ r.stamps \subseteq {"registered"}
        /\ Linking(p)
    BY <1>4 DEF LinkSave, FunnelTypes, CallRows, Rest, Linking
  <2>2. /\ call'[p] = Rest /\ \A q \in Callers \ {p} : call'[q] = call[q]
        /\ UNCHANGED <<reached, late>>
        /\ \A t \in Visits \ {s} : visit'[t] = visit[t]
        /\ visit[s].state # "kept" => visit'[s] = visit[s]
        /\ visit[s].state = "kept" =>
             visit'[s] = [visit[s] EXCEPT !.user = r.user, !.stamps = @ \cup r.stamps]
    BY <1>4, <2>1 DEF LinkSave, Writes, FunnelTypes
  <2>3. visit[s].state = "kept" =>
          /\ visit'[s].state = "kept" /\ visit'[s].user = r.user
          /\ visit'[s].stamps = visit[s].stamps \cup r.stamps
          /\ visit[s].user \in {NoOne, r.user}
    <3>1. visit[s].state = "kept" => visit[s] \in KeptVisits
      BY <2>1 DEF FunnelTypes, NoVisit, Erased
    <3> QED
      BY <2>1, <2>2, <3>1 DEF KeptVisits, Tied
  <2>4. \A t \in Visits : visit'[t].state = visit[t].state
    BY <2>2, <2>3
  <2>5. \A q \in Callers : /\ Linking(q)' => Linking(q) /\ q # p
                           /\ Registers(q)' => Registers(q) /\ q # p
                           /\ call'[q].op # "rest" => q # p
    BY <2>2 DEF Linking, Registers, Rest
  <2>6. \A t \in Visits, m \in Milestones :
          Stamped(t, m)' => /\ Stamped(t, m) \/ (t = s /\ m = "registered" /\ Registers(p))
                            /\ t # s => visit'[t].user = visit[t].user
                            /\ t = s => visit'[t].user = r.user
    <3>1. ASSUME NEW t \in Visits, t # s, NEW m \in Milestones, Stamped(t, m)'
          PROVE  Stamped(t, m) /\ visit'[t].user = visit[t].user
      BY <2>2, <3>1 DEF Stamped, Kept
    <3>2. ASSUME NEW t \in Visits, t = s, NEW m \in Milestones, Stamped(t, m)'
          PROVE  /\ visit'[t].user = r.user
                 /\ Stamped(t, m) \/ (m = "registered" /\ Registers(p))
      <4>1. visit[t].state = "kept" /\ m \in visit[t].stamps \cup r.stamps
        BY <2>2, <2>3, <3>2 DEF Stamped, Kept
      <4> QED
        BY <2>1, <2>3, <3>2, <4>1 DEF Stamped, Kept, Registers
    <3> QED
      BY <3>1, <3>2
  <2>7. \A m \in Milestones : Stamped(s, m) => visit[s].user = r.user
    BY <2>3 DEF Tied, Stamped, Kept
  <2>8. Tied'
    <3>1. \A q \in Callers \ {p} : Linking(q) /\ call[q].visit = s => call[q].user = r.user
      BY <2>1 DEF Tied
    <3>2. \A q \in Callers : Linking(q)' => call'[q] = call[q] /\ q # p /\ call[q].visit \in Visits
      BY <2>2, <2>5 DEF FunnelTypes, CallRows, Rest, Linking
    <3>3. \A q \in Callers : call'[q].op # "rest" => call'[q] = call[q] /\ call[q].visit \in Visits
      BY <2>2, <2>5 DEF FunnelTypes, CallRows, Rest
    <3>4. \A q \in Callers : Linking(q)' /\ visit'[call'[q].visit].state = "kept" =>
            visit'[call'[q].visit].user \in {NoOne, call'[q].user}
      BY <2>2, <2>3, <2>4, <2>5, <3>1, <3>2 DEF Tied
    <3>5. \A t \in Visits, m \in Milestones : Stamped(t, m)' => visit'[t].user # NoOne
      BY <2>1, <2>6 DEF Tied
    <3> QED
      BY <2>4, <2>5, <3>2, <3>3, <3>4, <3>5 DEF Tied
  <2>9. RegisteredOnce'
    <3>1. \A q \in Callers : Registers(q)' => Registers(q) /\ q # p /\ call'[q] = call[q]
      BY <2>2, <2>5
    <3>2. \A t \in Visits : Stamped(t, "registered")' =>
            \/ Stamped(t, "registered") /\ visit'[t].user = visit[t].user
            \/ t = s /\ Registers(p) /\ visit'[t].user = r.user
      BY <2>6, <2>7 DEF Milestones
    <3> QED
      BY <2>1, <2>2, <3>1, <3>2 DEF RegisteredOnce
  <2>10. MarkedLast'
    <3>1. p \in LinksOf(r.user)
      BY <2>1 DEF LinksOf
    <3>2. r.user \notin late => \A m \in Tracked : <<r.user, m>> \notin reached
      BY <2>1, <3>1 DEF MarkedLast
    <3>3. /\ \A u \in People : LinksOf(u)' \subseteq LinksOf(u)
          /\ \A o \in Kept' : o \in Kept /\ (visit'[o].user = visit[o].user \/ visit'[o].user = r.user)
      BY <2>1, <2>2, <2>3, <2>4, <2>5 DEF LinksOf, Kept, Linking
    <3>4. ASSUME NEW m \in Tracked, NEW t \in Visits, Stamped(t, m)', visit'[t].user \notin late'
          PROVE  /\ <<visit'[t].user, m>> \in reached'
                 /\ \A o \in Kept' : visit'[o].user = visit'[t].user => o <= t
      <4>1. Stamped(t, m) /\ visit'[t].user = visit[t].user
        BY <2>6, <2>7, <3>4 DEF Milestones, Tracked
      <4>2. /\ <<visit[t].user, m>> \in reached
            /\ \A o \in Kept : visit[o].user = visit[t].user => o <= t
        BY <2>2, <3>4, <4>1 DEF MarkedLast
      <4>3. visit[t].user # r.user
        BY <2>2, <3>2, <3>4, <4>1, <4>2
      <4> QED
        BY <2>2, <3>3, <4>1, <4>2, <4>3
    <3>5. ASSUME NEW m \in Tracked, NEW q \in Callers, call'[q].op = "mark", call'[q].milestone = m
          PROVE  /\ visit'[call'[q].visit].state = "kept" =>
                      visit'[call'[q].visit].user = call'[q].user
                 /\ call'[q].user \notin late' =>
                      /\ <<call'[q].user, m>> \in reached'
                      /\ \A o \in Kept' : visit'[o].user = call'[q].user => o <= call'[q].visit
      <4>1. call'[q] = call[q] /\ call[q].visit \in Visits /\ call[q].user \in People
        BY <2>2, <2>5, <3>5 DEF FunnelTypes, CallRows, Rest
      <4>2. /\ visit[call[q].visit].state = "kept" => visit[call[q].visit].user = call[q].user
            /\ call[q].user \notin late =>
                 /\ <<call[q].user, m>> \in reached
                 /\ \A o \in Kept : visit[o].user = call[q].user => o <= call[q].visit
        BY <3>5, <4>1 DEF MarkedLast
      <4>3. call[q].user \notin late => call[q].user # r.user
        BY <3>2, <4>2
      <4>4. visit'[call[q].visit].state = "kept" => visit'[call[q].visit].user = call[q].user
        <5>1. CASE call[q].visit = s
          <6>1. visit[s].state = "kept" => call[q].user = r.user
            BY <2>3, <4>1, <4>2, <5>1, FunnelsAssumption
          <6> QED
            BY <2>3, <2>4, <4>1, <5>1, <6>1
        <5>2. CASE call[q].visit # s
          BY <2>2, <4>1, <4>2, <5>2
        <5> QED
          BY <5>1, <5>2
      <4> QED
        BY <2>2, <3>3, <4>1, <4>2, <4>3, <4>4
    <3>6. \A m \in Tracked, u \in People \ late' : <<u, m>> \in reached' => LinksOf(u)' = {}
      BY <2>2, <3>3 DEF MarkedLast
    <3> QED
      BY <3>4, <3>5, <3>6 DEF MarkedLast
  <2> QED
    BY <1>0, <2>8, <2>9, <2>10
<1>5. ASSUME NEW p \in Callers, MarkSave(p) PROVE ConvertedInv'
  <2> DEFINE r == call[p]
             s == r.visit
             m == r.milestone
  <2>1. r.op = "mark" /\ s \in Visits /\ r.user \in People /\ m \in Tracked
    BY <1>5 DEF MarkSave, FunnelTypes, CallRows, Rest
  <2>2. /\ call'[p] = Rest /\ \A q \in Callers \ {p} : call'[q] = call[q]
        /\ UNCHANGED <<reached, late>>
        /\ \A t \in Visits \ {s} : visit'[t] = visit[t]
        /\ visit[s].state # "kept" => visit'[s] = visit[s]
        /\ visit[s].state = "kept" => visit'[s] = [visit[s] EXCEPT !.stamps = @ \cup {m}]
    BY <1>5, <2>1 DEF MarkSave, Writes, FunnelTypes
  <2>3. visit[s].state = "kept" =>
          /\ visit'[s].state = "kept" /\ visit'[s].user = visit[s].user
          /\ visit'[s].stamps = visit[s].stamps \cup {m} /\ visit[s].user = r.user
    <3>1. visit[s].state = "kept" => visit[s] \in KeptVisits
      BY <2>1 DEF FunnelTypes, NoVisit, Erased
    <3> QED
      BY <2>1, <2>2, <3>1 DEF KeptVisits, MarkedLast
  <2>4. \A t \in Visits : visit'[t].state = visit[t].state /\
                          (visit'[t].state = "kept" => visit'[t].user = visit[t].user)
    BY <2>2, <2>3
  <2>5. \A q \in Callers : call'[q].op # "rest" => q # p /\ call'[q] = call[q]
    BY <2>2 DEF Rest
  <2>6. \A q \in Callers : (Linking(q)' => Linking(q)) /\ (Registers(q)' => Registers(q))
    BY <2>2 DEF Linking, Registers, Rest
  <2>7. \A t \in Visits, n \in Milestones : Stamped(t, n)' =>
          /\ Stamped(t, n) \/ (t = s /\ n = m)
          /\ visit'[t].user = visit[t].user /\ (t = s => visit[t].user = r.user)
    <3>1. ASSUME NEW t \in Visits, t # s, NEW n \in Milestones, Stamped(t, n)'
          PROVE  Stamped(t, n) /\ visit'[t].user = visit[t].user
      BY <2>2, <3>1 DEF Stamped, Kept
    <3>2. ASSUME NEW t \in Visits, t = s, NEW n \in Milestones, Stamped(t, n)'
          PROVE  /\ visit'[t].user = visit[t].user /\ visit[t].user = r.user
                 /\ Stamped(t, n) \/ n = m
      <4>1. visit[t].state = "kept" /\ n \in visit[t].stamps \cup {m}
        BY <2>2, <2>3, <3>2 DEF Stamped, Kept
      <4> QED
        BY <2>1, <2>3, <3>2, <4>1 DEF Stamped, Kept
    <3> QED
      BY <3>1, <3>2
  <2>8. m # "registered"
    BY <2>1 DEF Tracked
  <2>9. \A q \in Callers : call[q].op # "rest" => call[q].visit \in Visits /\ call[q].user \in People
    BY DEF FunnelTypes, CallRows, Rest
  <2>10. Tied'
    BY <2>1, <2>4, <2>5, <2>6, <2>7, <2>9 DEF Tied, Linking
  <2>11. RegisteredOnce'
    BY <2>1, <2>2, <2>5, <2>6, <2>7, <2>8 DEF RegisteredOnce, Milestones, Registers, Linking
  <2>12. MarkedLast'
    <3>1. /\ \A u \in People : LinksOf(u)' \subseteq LinksOf(u)
          /\ \A o \in Kept' : o \in Kept /\ visit'[o].user = visit[o].user
      BY <2>4, <2>5 DEF LinksOf, Kept
    <3>2. ASSUME NEW n \in Tracked, NEW t \in Visits, Stamped(t, n)', visit'[t].user \notin late'
          PROVE  /\ <<visit'[t].user, n>> \in reached'
                 /\ \A o \in Kept' : visit'[o].user = visit'[t].user => o <= t
      <4>0. visit'[t].user = visit[t].user /\ visit[t].user \notin late
        BY <2>2, <2>7, <3>2 DEF Milestones
      <4>1. CASE Stamped(t, n)
        <5>1. /\ <<visit[t].user, n>> \in reached
              /\ \A o \in Kept : visit[o].user = visit[t].user => o <= t
          BY <4>0, <4>1 DEF MarkedLast
        <5> QED
          BY <2>2, <3>1, <4>0, <5>1
      <4>2. CASE t = s /\ n = m
        <5>1. visit[t].user = r.user
          BY <2>7, <3>2, <4>2 DEF Milestones
        <5>2. <<r.user, m>> \in reached /\ \A o \in Kept : visit[o].user = r.user => o <= s
          BY <2>1, <4>0, <5>1 DEF MarkedLast
        <5> QED
          BY <2>2, <3>1, <4>0, <4>2, <5>1, <5>2
      <4> QED
        BY <2>7, <3>2, <4>1, <4>2 DEF Milestones
    <3>3. ASSUME NEW n \in Tracked, NEW q \in Callers, call'[q].op = "mark", call'[q].milestone = n
          PROVE  /\ visit'[call'[q].visit].state = "kept" =>
                      visit'[call'[q].visit].user = call'[q].user
                 /\ call'[q].user \notin late' =>
                      /\ <<call'[q].user, n>> \in reached'
                      /\ \A o \in Kept' : visit'[o].user = call'[q].user => o <= call'[q].visit
      BY <2>2, <2>4, <2>5, <2>9, <3>1, <3>3 DEF MarkedLast
    <3>4. \A n \in Tracked, u \in People \ late' : <<u, n>> \in reached' => LinksOf(u)' = {}
      BY <2>2, <3>1 DEF MarkedLast
    <3> QED
      BY <3>2, <3>3, <3>4 DEF MarkedLast
  <2> QED
    BY <1>0, <2>10, <2>11, <2>12
<1>6. ASSUME NEW p \in Callers, NEW s \in Visits, NEW u \in People, Link(p, s, u) PROVE ConvertedInv'
  <2>1. /\ s \in Kept /\ visit[s].user = NoOne
        /\ \A q \in Callers : Linking(q) /\ call[q].visit = s => call[q].user = u
        /\ late' = (IF \E m \in Tracked : <<u, m>> \in reached THEN late \cup {u} ELSE late)
        /\ call[p] = Rest /\ visit' = visit
    BY <1>6 DEF Link, Linking, Reads
  <2>2. PICK registers \in BOOLEAN :
          /\ registers => <<u, "registered">> \notin reached
          /\ call' = [call EXCEPT ![p] = [op |-> "link", visit |-> s, user |-> u,
                                         stamps |-> IF registers THEN {"registered"} ELSE {}]]
          /\ reached' = IF registers THEN reached \cup {<<u, "registered">>} ELSE reached
    BY <1>6 DEF Link, Reads, Milestone
  <2>3. /\ call'[p].op = "link" /\ call'[p].visit = s /\ call'[p].user = u
        /\ call'[p].stamps = IF registers THEN {"registered"} ELSE {}
        /\ \A q \in Callers \ {p} : call'[q] = call[q]
    BY <2>2 DEF FunnelTypes
  <2>4. \A t \in Visits, m \in Milestones : Stamped(t, m)' = Stamped(t, m)
    BY <2>1 DEF Stamped, Kept
  <2>5. Kept' = Kept /\ \A w \in People : w # u => LinksOf(w)' = LinksOf(w)
    BY <2>1, <2>3 DEF LinksOf, Kept, Rest
  <2>6. \A q \in Callers : /\ q # p => (Linking(q)' <=> Linking(q)) /\ (Registers(q)' <=> Registers(q))
                           /\ Registers(p)' <=> registers
    BY <2>3 DEF Linking, Registers
  <2>7. Tied'
    <3>1. \A q, o \in Callers : Linking(q)' /\ Linking(o)' /\ call'[q].visit = call'[o].visit =>
                                call'[q].user = call'[o].user
      BY <2>1, <2>3, <2>6 DEF Tied
    <3>2. \A q \in Callers : /\ Linking(q)' /\ visit'[call'[q].visit].state = "kept" =>
                                 visit'[call'[q].visit].user \in {NoOne, call'[q].user}
                             /\ call'[q].op # "rest" => visit'[call'[q].visit].state # "none"
      BY <2>1, <2>3, <2>6 DEF Tied, Kept
    <3> QED
      BY <2>1, <2>4, <3>1, <3>2 DEF Tied
  <2>8. RegisteredOnce'
    <3>1. \A t \in Visits : Stamped(t, "registered")' = Stamped(t, "registered") /\ visit'[t] = visit[t]
      BY <2>1, <2>4 DEF Milestones
    <3>2. registers => /\ \A t \in Visits : Stamped(t, "registered") => visit[t].user # u
                       /\ \A q \in Callers : Registers(q) => call[q].user # u
      BY <2>2 DEF RegisteredOnce
    <3>3. reached \subseteq reached' /\ (registers => <<u, "registered">> \in reached')
      BY <2>2
    <3> QED
      BY <2>3, <2>6, <3>1, <3>2, <3>3 DEF RegisteredOnce
  <2>9. MarkedLast'
    <3>1. \A m \in Tracked, w \in People : <<w, m>> \in reached' <=> <<w, m>> \in reached
      BY <2>2 DEF Tracked
    <3>2. \A m \in Tracked, w \in People \ late' : <<w, m>> \in reached' => LinksOf(w)' = {}
      BY <2>1, <2>5, <3>1 DEF MarkedLast
    <3>3. ASSUME NEW m \in Tracked, NEW t \in Visits, Stamped(t, m)', visit'[t].user \notin late'
          PROVE  /\ <<visit'[t].user, m>> \in reached'
                 /\ \A o \in Kept' : visit'[o].user = visit'[t].user => o <= t
      <4>1. Stamped(t, m) /\ visit[t].user \notin late
        BY <2>1, <2>4, <3>3 DEF Milestones
      <4>2. /\ <<visit[t].user, m>> \in reached
            /\ \A o \in Kept : visit[o].user = visit[t].user => o <= t
        BY <4>1 DEF MarkedLast
      <4> QED
        BY <2>1, <2>2, <2>5, <4>2
    <3>4. ASSUME NEW m \in Tracked, NEW q \in Callers, call'[q].op = "mark", call'[q].milestone = m
          PROVE  /\ visit'[call'[q].visit].state = "kept" =>
                      visit'[call'[q].visit].user = call'[q].user
                 /\ call'[q].user \notin late' =>
                      /\ <<call'[q].user, m>> \in reached'
                      /\ \A o \in Kept' : visit'[o].user = call'[q].user => o <= call'[q].visit
      <4>1. q # p /\ call'[q] = call[q]
        BY <2>3, <3>4
      <4> QED
        BY <2>1, <2>2, <2>5, <3>4, <4>1 DEF MarkedLast
    <3> QED
      BY <3>2, <3>3, <3>4 DEF MarkedLast
  <2> QED
    BY <1>0, <2>7, <2>8, <2>9
<1>7. ASSUME NEW p \in Callers, NEW u \in People, NEW m \in Tracked, Mark(p, u, m) PROVE ConvertedInv'
  <2>1. PICK s \in Latest(u, m) :
          /\ call[p] = Rest /\ visit' = visit
          /\ call' = [call EXCEPT ![p] = [op |-> "mark", visit |-> s, user |-> u, milestone |-> m]]
          /\ reached' = reached \cup {<<u, m>>}
          /\ late' = (IF LinksOf(u) = {} THEN late ELSE late \cup {u})
    BY <1>7 DEF Mark, Reads
  <2>2. s \in Kept /\ s \in Visits /\ visit[s].user = u /\ \A t \in Kept : visit[t].user = u => t <= s
    BY DEF Latest, Of, Kept
  <2>3. /\ call'[p] = [op |-> "mark", visit |-> s, user |-> u, milestone |-> m]
        /\ \A q \in Callers \ {p} : call'[q] = call[q]
        /\ \A q \in Callers : /\ Linking(q)' = Linking(q) /\ Registers(q)' = Registers(q)
                              /\ Linking(q) => q # p /\ call'[q] = call[q]
                              /\ Registers(q) => q # p /\ call'[q] = call[q]
        /\ \A w \in People : LinksOf(w)' = LinksOf(w)
        /\ \A t \in Visits, n \in Milestones : Stamped(t, n)' = Stamped(t, n)
    BY <2>1 DEF FunnelTypes, Linking, Registers, LinksOf, Stamped, Kept, Rest
  <2>4. m # "registered" /\ reached \subseteq reached' /\ Kept' = Kept
    BY <2>1 DEF Tracked, Kept
  <2>5. Tied'
    BY <2>1, <2>2, <2>3 DEF Tied, Kept
  <2>6. RegisteredOnce'
    BY <2>1, <2>3, <2>4 DEF RegisteredOnce, Milestones
  <2>7. MarkedLast'
    <3>1. ASSUME NEW n \in Tracked, NEW w \in People \ late', <<w, n>> \in reached' PROVE LinksOf(w)' = {}
      BY <2>1, <2>3, <3>1 DEF MarkedLast
    <3>2. ASSUME NEW n \in Tracked, NEW t \in Visits, Stamped(t, n)', visit'[t].user \notin late'
          PROVE  /\ <<visit'[t].user, n>> \in reached'
                 /\ \A o \in Kept' : visit'[o].user = visit'[t].user => o <= t
      BY <2>1, <2>3, <2>4, <3>2 DEF MarkedLast, Milestones
    <3>3. ASSUME NEW n \in Tracked, NEW q \in Callers, call'[q].op = "mark", call'[q].milestone = n
          PROVE  /\ visit'[call'[q].visit].state = "kept" =>
                      visit'[call'[q].visit].user = call'[q].user
                 /\ call'[q].user \notin late' =>
                      /\ <<call'[q].user, n>> \in reached'
                      /\ \A o \in Kept' : visit'[o].user = call'[q].user => o <= call'[q].visit
      <4>1. CASE q = p
        BY <2>1, <2>2, <2>3, <2>4, <3>3, <4>1
      <4>2. CASE q # p
        BY <2>1, <2>3, <2>4, <3>3, <4>2 DEF MarkedLast
      <4> QED
        BY <4>1, <4>2
    <3> QED
      BY <3>1, <3>2, <3>3 DEF MarkedLast
  <2> QED
    BY <1>0, <2>5, <2>6, <2>7
<1>8. CASE UNCHANGED funnelVars
  BY <1>0, <1>8, ConvertedQuiet DEF funnelVars, FunnelTypes, Erased, NoVisit, KeptVisits
<1> QED
  BY <1>1, <1>2, <1>3, <1>4, <1>5, <1>6, <1>7, <1>8 DEF FunnelNext, AttributionNext

LEMMA ConvertedEnough ==
  ASSUME ConvertedInv
  PROVE  ConvertedOnce
<1>1. \A s \in Kept, m \in Milestones : m \in visit[s].stamps => visit[s].user # NoOne
  BY DEF ConvertedInv, Tied, Stamped, Kept
<1>2. \A u \in People, m \in Milestones : \A s \in Conversions(u, m) :
        s \in Visits /\ s \in Kept /\ Stamped(s, m) /\ visit[s].user = u
  BY DEF Conversions, Of, Stamped, Kept
<1>3. ASSUME NEW u \in People
      PROVE  LET m == "registered"
             IN  /\ \A s, t \in Conversions(u, m) : s = t
                 /\ Conversions(u, m) # {} => <<u, m>> \in reached
  BY <1>2 DEF ConvertedInv, RegisteredOnce, Milestones
<1>4. ASSUME NEW u \in People \ late, NEW m \in Tracked
      PROVE  /\ \A s, t \in Conversions(u, m) : s = t
             /\ Conversions(u, m) # {} => <<u, m>> \in reached
  <2>0. m \in Milestones /\ \A s \in Visits : s \in Nat
    BY FunnelsAssumption DEF Milestones, Visits
  <2>1. ASSUME NEW s \in Conversions(u, m), NEW t \in Conversions(u, m)
        PROVE  s \in Nat /\ t \in Nat /\ s <= t /\ t <= s
    <3>0. \A o \in {s, t} : o \in Visits /\ o \in Kept /\ Stamped(o, m) /\ visit[o].user = u
      BY <1>2, <2>0
    <3>1. \A o \in Kept : visit[o].user = u => o <= t
      BY <3>0 DEF ConvertedInv, MarkedLast
    <3>2. \A o \in Kept : visit[o].user = u => o <= s
      BY <3>0 DEF ConvertedInv, MarkedLast
    <3> QED
      BY <2>0, <3>0, <3>1, <3>2
  <2>2. Conversions(u, m) # {} => <<u, m>> \in reached
    BY <1>2 DEF ConvertedInv, MarkedLast, Milestones
  <2>3. \A s, t \in Nat : s <= t /\ t <= s => s = t
    OBVIOUS
  <2> QED
    BY <2>1, <2>2, <2>3
<1> QED
  BY <1>1, <1>3, <1>4 DEF ConvertedOnce, Milestones

LEMMA FunnelsBegin ==
  ASSUME FunnelInit
  PROVE  ServedInv /\ ConvertedInv
<1> USE FunnelsAssumption
<1>1. FunnelTypes
  BY DEF FunnelInit, FunnelTypes, Live, Kept, EditRows, CallRows, VariantRows, Statuses, Variant, NoVisit, Rest
<1>2. ServedInv
  BY <1>1, GaplessEmpty DEF FunnelInit, ServedInv, Served, Pending, Stepping, Live, Rest
<1>3. ConvertedInv
  BY <1>1 DEF FunnelInit, ConvertedInv, Tied, RegisteredOnce, MarkedLast, Stamped, Linking, Registers, LinksOf, Kept, NoVisit, Rest
<1> QED
  BY <1>2, <1>3

\* Whoever comes to a published funnel is given a variant with steps, but for
\* the variants written since the publication was tested, and steps leave no gap
\* unless two requests edited them at a time, for any number of variants, steps,
\* sessions and administrators, who also edit while the funnel is published.
THEOREM FunnelServes == FunnelSpec => []VisitorIsServed
<1>1. FunnelInit => ServedInv
  BY FunnelsBegin
<1>2. ServedInv /\ [FunnelNext]_funnelVars => ServedInv'
  BY ServedStep
<1>3. ServedInv => VisitorIsServed
  BY ServedEnough
<1> QED
  BY <1>1, <1>2, <1>3, PTL DEF FunnelSpec

\* No milestone of a user is counted twice or before he reaches it, for any
\* number of sessions, users and overlapping calls of attribution, but for the
\* trial and the payment of a user given a session at that time or later.
THEOREM ConvertsOnce == FunnelSpec => []ConvertedOnce
<1>1. FunnelInit => ConvertedInv
  BY FunnelsBegin
<1>2. ConvertedInv /\ [FunnelNext]_funnelVars => ConvertedInv'
  BY ConvertedStep
<1>3. ConvertedInv => ConvertedOnce
  BY ConvertedEnough
<1> QED
  BY <1>1, <1>2, <1>3, PTL DEF FunnelSpec
=============================================================================
