------------------------------- MODULE Sales -------------------------------
(***************************************************************************)
(* The shop floor: process_sync, cancel_sale, the cash boxes, terminals,   *)
(* stock movements and the customers' tabs. A request reads rows into      *)
(* entities, changes the entities, and saves them whole, every column, in  *)
(* one commit. No row is locked in between: what a request saves may rest  *)
(* on a copy that is stale by then and undo what others have saved. The    *)
(* rows that two requests in flight used at the same time are remembered   *)
(* in raced: the code promises nothing about them, and everything about    *)
(* the others. The totals kept in rows (current_stock, current_debt,       *)
(* current_balance) stand beside what they sum up: stock_movements,        *)
(* customer_ledger and the cash of completed sales, whose sums are moved,  *)
(* owed and drawer here. Definitions named after a slip (PaySave_Floors)   *)
(* are broken variants no specification uses.                              *)
(***************************************************************************)
EXTENDS Integers, FiniteSetsExt

CONSTANTS
  Clients,    \* requests the API serves at a time
  Sales,      \* sale ids, generated by the tills
  Products, Boxes, Terminals, Operators, Customers,
  NoCustomer,
  Order,      \* per sale, what the till sends
  Price,      \* the prices of the products at first
  NewPrices, Deltas, Payments, Limits, \* inputs of the other requests
  MaxTerminals, \* terminals the owner's plan allows
  MaxRequests \* bound: requests ever made

\* the quantity of each product, and that of its last line on the receipt;
\* what was paid in cash, on the tab, by other means
OrderType ==
  [box : Boxes, customer : Customers \cup {NoCustomer},
   quantity : [Products -> Nat], last : [Products -> Nat],
   cash : Nat, fiado : Nat, card : Nat]

ASSUME SalesAssumption ==
  /\ NoCustomer \notin Customers /\ IsFiniteSet(Products)
  /\ Order \in [Sales -> OrderType] /\ Price \in [Products -> Nat]
  /\ \A s \in Sales :
       /\ Order[s].fiado > 0 => Order[s].customer \in Customers
       /\ \A p \in Products : Order[s].last[p] <= Order[s].quantity[p]
  /\ NewPrices \subseteq Nat /\ Deltas \subseteq Int
  /\ Payments \subseteq Nat \ {0} /\ Limits \subseteq Nat
  /\ MaxTerminals \in Nat /\ MaxRequests \in Nat

VARIABLES
  product,  \* rows of products
  moved,    \* per product, the sum of its stock_movements
  sale,     \* status of the row of each sale, "none" while there is no row
  taken,    \* per sale, its SALE movements less its RETURN movements
  box,      \* rows of boxes
  drawer,   \* per box, the cash each completion of a sale left in the till, less the change
  customer, \* rows of customers
  owed,     \* per customer, the sum of its customer_ledger
  terminals, \* number of rows of terminals
  request,  \* the request of each client: "ask", nothing read yet; "load",
            \* tests passed; "save", entities in hand
  requests, \* requests made so far
  raced     \* history: rows that two requests in flight used at the same time

stock == <<product, moved, sale, taken>>
tills == <<box, drawer, terminals>>
tabs == <<customer, owed>>
vars == <<stock, tills, tabs, request, requests, raced>>

Product == [stock : Int, price : Nat, active : BOOLEAN]
NoBox == [status |-> "none"]
Box == [status : {"aberto", "fechado"}, terminal : Terminals,
        operator : Operators, balance : Int]
Customer == [debt : Int, limit : Nat]

Calls ==
  [op : {"sync", "cancel"}, sale : Sales]
    \cup [op : {"open"}, terminal : Terminals, operator : Operators]
    \cup [op : {"close"}, terminal : Terminals]
    \cup [op : {"move"}, product : Products, delta : Deltas]
    \cup [op : {"edit"}, product : Products, price : NewPrices]
    \cup [op : {"delete"}, product : Products]
    \cup [op : {"pay"}, customer : Customers, amount : Payments]
    \cup [op : {"limit"}, customer : Customers, limit : Limits]
    \cup [op : {"register"}]

Init ==
  /\ product = [p \in Products |-> [stock |-> 0, price |-> Price[p], active |-> TRUE]]
  /\ moved = [p \in Products |-> 0]
  /\ sale = [s \in Sales |-> "none"] /\ taken = [s \in Sales |-> 0]
  /\ box = [b \in Boxes |-> NoBox]
  /\ drawer = [b \in Boxes |-> 0]
  /\ customer \in [Customers -> [debt : {0}, limit : Limits]]
  /\ owed = [k \in Customers |-> 0]
  /\ terminals = 0
  /\ request = [c \in Clients |-> [step |-> "idle"]] /\ requests = 0
  /\ raced = {}

\* what a request about to save has in hand: entities of some of the rows
Holds(r) ==
  /\ DOMAIN r.product \subseteq Products /\ r.product \in [DOMAIN r.product -> Product]
  /\ DOMAIN r.box \subseteq Boxes /\ r.box \in [DOMAIN r.box -> Box]
  /\ DOMAIN r.customer \subseteq Customers /\ r.customer \in [DOMAIN r.customer -> Customer]

Goods(s) == {p \in Products : Order[s].quantity[p] > 0}
Tab(s) == IF Order[s].fiado > 0 THEN {Order[s].customer} ELSE {}
OpenAt(t) == {b \in Boxes : box[b].status = "aberto" /\ box[b].terminal = t}
OpenBy(o) == {b \in Boxes : box[b].status = "aberto" /\ box[b].operator = o}

\* the rows a request reads in order to write, or tests for before it writes
Uses(r) ==
  LET call == r.call
  IN  CASE call.op = "sync" -> {call.sale, Order[call.sale].box} \cup Goods(call.sale) \cup Tab(call.sale)
        [] call.op = "cancel" -> {call.sale} \cup Goods(call.sale)
        [] call.op = "open" -> {call.terminal, call.operator}
        [] call.op = "close" -> {call.terminal} \cup (IF r.step = "save" THEN DOMAIN r.box ELSE {})
        [] call.op \in {"move", "edit", "delete"} -> {call.product}
        [] call.op \in {"pay", "limit"} -> {call.customer}
        [] call.op = "register" -> {"terminals"}

Rows == Products \cup Sales \cup Boxes \cup Terminals \cup Operators \cup Customers \cup {"terminals"}

InFlight == {c \in Clients : request[c].step # "idle"}
Contended ==
  {r \in Rows : \E c, d \in InFlight : c # d /\ r \in Uses(request[c]) \cap Uses(request[d])}

-----------------------------------------------------------------------------
(* A request arrives, holds copies of rows, ends *)

Ask(c, call) ==
  /\ request[c].step = "idle" /\ requests < MaxRequests
  /\ request' = [request EXCEPT ![c] = [step |-> "ask", call |-> call]]
  /\ requests' = requests + 1
  /\ UNCHANGED <<stock, tills, tabs>>

At(c, op, step) == request[c].step = step /\ request[c].call.op = op

Hold(c, products, boxes, customers) ==
  request' = [request EXCEPT ![c] =
    [step |-> "save", call |-> request[c].call,
     product |-> [p \in products |-> product[p]],
     box |-> [b \in boxes |-> box[b]],
     customer |-> [k \in customers |-> customer[k]]]]

Done(c) == request' = [request EXCEPT ![c] = [step |-> "idle"]]

\* every column of a row is saved, whatever the row says by then
Written(table, entities) ==
  [r \in DOMAIN table |-> IF r \in DOMAIN entities THEN entities[r] ELSE table[r]]

\* a refusal, an error, a lost connection, a row another request has inserted
\* under the same key: the session is rolled back, nothing has been written
RollBack(c) ==
  /\ request[c].step # "idle"
  /\ Done(c)
  /\ UNCHANGED <<stock, tills, tabs, requests>>

-----------------------------------------------------------------------------
(* process_sync: one sale of a batch; each is committed before the next *)

Max0(n) == IF n > 0 THEN n ELSE 0

\* the total by the prices in hand, whatever the till made it
Total(s, price) == MapThenSumSet(LAMBDA p : price[p] * Order[s].quantity[p], Products)

\* the cash that stays in the till: the change comes out of it
NetCash(s, total) ==
  LET change == Max0(Order[s].cash + Order[s].fiado + Order[s].card - total)
  IN  Max0(Order[s].cash - change)

\* what is put on a tab must fit in what is left of its limit
MayOwe(s, held) == \A k \in Tab(s) : held[k].debt + Order[s].fiado <= held[k].limit

\* a slip: a sale that is sent again is taken for a new one
SyncCheck_NoTest(c) ==
  /\ At(c, "sync", "ask")
  /\ request' = [request EXCEPT ![c].step = "load"]
  /\ UNCHANGED <<stock, tills, tabs, requests>>

\* a sale that is already completed is answered as it is
SyncCheck(c) ==
  /\ At(c, "sync", "ask")
  /\ sale[request[c].call.sale] # "concluida"
  /\ request' = [request EXCEPT ![c].step = "load"]
  /\ UNCHANGED <<stock, tills, tabs, requests>>

\* slips: the box is not tested at all; it is only looked for
SyncLoad_NoBoxTest(c) ==
  LET s == request[c].call.sale
  IN  /\ At(c, "sync", "load")
      /\ Hold(c, Goods(s), {Order[s].box}, Tab(s))
      /\ UNCHANGED <<stock, tills, tabs, requests>>
SyncLoad_AnyBox(c) ==
  LET s == request[c].call.sale
  IN  /\ At(c, "sync", "load")
      /\ box[Order[s].box] # NoBox
      /\ Hold(c, Goods(s), {Order[s].box}, Tab(s))
      /\ UNCHANGED <<stock, tills, tabs, requests>>

SyncLoad(c) ==
  LET s == request[c].call.sale
  IN  /\ At(c, "sync", "load")
      /\ box[Order[s].box].status = "aberto"
      /\ Hold(c, Goods(s), {Order[s].box}, Tab(s))
      /\ UNCHANGED <<stock, tills, tabs, requests>>

\* one entity per line is loaded before any is changed: of two lines of a
\* product only the last reaches the row, but each has its movement
SyncSave(c) ==
  LET s == request[c].call.sale
      held == request[c]
      net == NetCash(s, Total(s, [p \in Products |->
                 IF p \in Goods(s) THEN held.product[p].price ELSE 0]))
  IN  /\ At(c, "sync", "save")
      /\ MayOwe(s, held.customer)
      /\ product' = Written(product, [p \in Goods(s) |->
                      [held.product[p] EXCEPT !.stock = @ - Order[s].last[p]]])
      /\ moved' = [p \in Products |-> moved[p] - Order[s].quantity[p]]
      /\ sale' = [sale EXCEPT ![s] = "concluida"]
      /\ taken' = [taken EXCEPT ![s] = @ + 1]
      /\ box' = IF net > 0
                THEN Written(box, [b \in {Order[s].box} |->
                                    [held.box[b] EXCEPT !.balance = @ + net]])
                ELSE box
      /\ drawer' = [drawer EXCEPT ![Order[s].box] = @ + net]
      /\ customer' = Written(customer, [k \in Tab(s) |->
                       [held.customer[k] EXCEPT !.debt = @ + Order[s].fiado]])
      /\ owed' = [k \in Customers |-> owed[k] + (IF k \in Tab(s) THEN Order[s].fiado ELSE 0)]
      /\ Done(c)
      /\ UNCHANGED <<terminals, requests>>

-----------------------------------------------------------------------------
(* cancel_sale: the goods come back; neither till nor tab is touched *)

CancelLoad(c) ==
  LET s == request[c].call.sale
  IN  /\ At(c, "cancel", "ask")
      /\ sale[s] = "concluida"
      /\ Hold(c, Goods(s), {}, {})
      /\ UNCHANGED <<stock, tills, tabs, requests>>

CancelSave(c) ==
  LET s == request[c].call.sale
  IN  /\ At(c, "cancel", "save")
      /\ product' = Written(product, [p \in Goods(s) |->
                      [request[c].product[p] EXCEPT !.stock = @ + Order[s].quantity[p]]])
      /\ moved' = [p \in Products |-> moved[p] + Order[s].quantity[p]]
      /\ sale' = [sale EXCEPT ![s] = "cancelada"]
      /\ taken' = [taken EXCEPT ![s] = @ - 1]
      /\ Done(c)
      /\ UNCHANGED <<tills, tabs, requests>>

-----------------------------------------------------------------------------
(* Boxes and terminals: tested for, then inserted *)

\* a slip: the operator's other boxes are not looked for
OpenCheck_TerminalOnly(c) ==
  /\ At(c, "open", "ask")
  /\ OpenAt(request[c].call.terminal) = {}
  /\ Hold(c, {}, {}, {})
  /\ UNCHANGED <<stock, tills, tabs, requests>>

OpenCheck(c) ==
  LET call == request[c].call
  IN  /\ At(c, "open", "ask")
      /\ OpenAt(call.terminal) = {} /\ OpenBy(call.operator) = {}
      /\ Hold(c, {}, {}, {})
      /\ UNCHANGED <<stock, tills, tabs, requests>>

OpenSave(c) ==
  LET call == request[c].call
  IN  /\ At(c, "open", "save")
      /\ \E b \in Boxes :
           /\ box[b] = NoBox
           /\ box' = [box EXCEPT ![b] = [status |-> "aberto", terminal |-> call.terminal,
                                         operator |-> call.operator, balance |-> 0]]
      /\ Done(c)
      /\ UNCHANGED <<stock, drawer, terminals, tabs, requests>>

CloseLoad(c) ==
  /\ At(c, "close", "ask")
  /\ \E b \in OpenAt(request[c].call.terminal) : Hold(c, {}, {b}, {})
  /\ UNCHANGED <<stock, tills, tabs, requests>>

CloseSave(c) ==
  /\ At(c, "close", "save")
  /\ box' = Written(box, [b \in DOMAIN request[c].box |->
                           [request[c].box[b] EXCEPT !.status = "fechado"]])
  /\ Done(c)
  /\ UNCHANGED <<stock, drawer, terminals, tabs, requests>>

RegisterCheck(c) ==
  /\ At(c, "register", "ask")
  /\ terminals < MaxTerminals
  /\ Hold(c, {}, {}, {})
  /\ UNCHANGED <<stock, tills, tabs, requests>>

RegisterSave(c) ==
  /\ At(c, "register", "save")
  /\ terminals' = terminals + 1
  /\ Done(c)
  /\ UNCHANGED <<stock, box, drawer, tabs, requests>>

-----------------------------------------------------------------------------
(* Inventory *)

LoadProduct(c) ==
  /\ request[c].step = "ask" /\ request[c].call.op \in {"move", "edit", "delete"}
  /\ Hold(c, {request[c].call.product}, {}, {})
  /\ UNCHANGED <<stock, tills, tabs, requests>>

SaveProduct(c, p, row, delta) ==
  /\ product' = Written(product, [q \in {p} |-> row])
  /\ moved' = [moved EXCEPT ![p] = @ + delta]
  /\ Done(c)
  /\ UNCHANGED <<sale, taken, tills, tabs, requests>>

MoveSave(c) ==
  LET call == request[c].call
  IN  /\ At(c, "move", "save")
      /\ SaveProduct(c, call.product,
           [request[c].product[call.product] EXCEPT !.stock = @ + call.delta], call.delta)

\* a price of zero counts as no price given
EditSave(c) ==
  LET call == request[c].call
  IN  /\ At(c, "edit", "save")
      /\ SaveProduct(c, call.product,
           [request[c].product[call.product] EXCEPT
              !.price = IF call.price = 0 THEN @ ELSE call.price], 0)

DeleteSave(c) ==
  LET call == request[c].call
  IN  /\ At(c, "delete", "save")
      /\ SaveProduct(c, call.product,
           [request[c].product[call.product] EXCEPT !.active = FALSE], 0)

-----------------------------------------------------------------------------
(* Tabs *)

LoadCustomer(c) ==
  /\ request[c].step = "ask" /\ request[c].call.op \in {"pay", "limit"}
  /\ Hold(c, {}, {}, {request[c].call.customer})
  /\ UNCHANGED <<stock, tills, tabs, requests>>

\* a slip: the debt never goes below zero
PaySave_Floors(c) ==
  LET k == request[c].call.customer
  IN  /\ At(c, "pay", "save")
      /\ customer' = Written(customer, [j \in {k} |->
                       [request[c].customer[k] EXCEPT !.debt = Max0(@ - request[c].call.amount)]])
      /\ owed' = [owed EXCEPT ![k] = @ - request[c].call.amount]
      /\ Done(c)
      /\ UNCHANGED <<stock, tills, requests>>

\* paying more than is owed leaves the customer in credit
PaySave(c) ==
  LET k == request[c].call.customer
  IN  /\ At(c, "pay", "save")
      /\ customer' = Written(customer, [j \in {k} |->
                       [request[c].customer[k] EXCEPT !.debt = @ - request[c].call.amount]])
      /\ owed' = [owed EXCEPT ![k] = @ - request[c].call.amount]
      /\ Done(c)
      /\ UNCHANGED <<stock, tills, requests>>

LimitSave(c) ==
  LET k == request[c].call.customer
  IN  /\ At(c, "limit", "save")
      /\ customer' = Written(customer, [j \in {k} |->
                       [request[c].customer[k] EXCEPT !.limit = request[c].call.limit]])
      /\ Done(c)
      /\ UNCHANGED <<stock, tills, owed, requests>>

-----------------------------------------------------------------------------

Step(c) ==
  \/ SyncCheck(c) \/ SyncLoad(c) \/ SyncSave(c)
  \/ CancelLoad(c) \/ CancelSave(c)
  \/ OpenCheck(c) \/ OpenSave(c) \/ CloseLoad(c) \/ CloseSave(c)
  \/ RegisterCheck(c) \/ RegisterSave(c)
  \/ LoadProduct(c) \/ MoveSave(c) \/ EditSave(c) \/ DeleteSave(c)
  \/ LoadCustomer(c) \/ PaySave(c) \/ LimitSave(c)
  \/ RollBack(c)

Next ==
  /\ \E c \in Clients : Step(c) \/ \E call \in Calls : Ask(c, call)
  /\ raced' = raced \cup Contended'

Spec == Init /\ [][Next]_vars

-----------------------------------------------------------------------------
(* Properties *)

\* Every variable has its type; a request that is to save holds whole rows.
TypeOK ==
  /\ product \in [Products -> Product] /\ moved \in [Products -> Int]
  /\ sale \in [Sales -> {"none", "concluida", "cancelada"}] /\ taken \in [Sales -> Int]
  /\ box \in [Boxes -> Box \cup {NoBox}] /\ drawer \in [Boxes -> Int]
  /\ customer \in [Customers -> Customer] /\ owed \in [Customers -> Int]
  /\ terminals \in Nat /\ requests \in 0 .. MaxRequests /\ raced \subseteq Rows
  /\ \A c \in InFlight :
       /\ request[c].call \in Calls
       /\ request[c].step \in {"ask", "load", "save"}
       /\ request[c].step = "save" => Holds(request[c])

\* products on two lines of some receipt
Doubled == {p \in Products : \E s \in Sales : Order[s].last[p] # Order[s].quantity[p]}

StockMatches  == \A p \in Products \ (raced \cup Doubled) : product[p].stock = moved[p]
DebtMatches   == \A k \in Customers \ raced : customer[k].debt = owed[k]
DrawerMatches == \A b \in Boxes \ raced : box[b] # NoBox => box[b].balance = drawer[b]

\* The totals kept in the rows of products, customers and boxes are the sums
\* of the movements, ledger entries and cash payments they stand for, through
\* edits, cancellations, payments, requests that die before their commit and
\* races on other rows: a total that differs is that of a row which two
\* requests used at the same time, or of a product on two lines of a receipt.
TotalsMatchRows == StockMatches /\ DebtMatches /\ DrawerMatches

\* However often a till sends a sale again, and whatever is canceled in
\* between: a completed sale has taken its goods once, any other has none out,
\* unless two requests for that very sale were under way at the same time.
GoodsTakenOnce ==
  \A s \in Sales \ raced : taken[s] = IF sale[s] = "concluida" THEN 1 ELSE 0

\* A terminal has at most one open box, and so has an operator, and the
\* terminals stay within the plan: two boxes are open only if openings of that
\* terminal, or of that operator, overlapped, or if a sale saved a box again
\* while it was being closed.
OneOpenBox ==
  /\ \A t \in Terminals \ raced : Cardinality(OpenAt(t) \ raced) <= 1
  /\ \A o \in Operators \ raced : Cardinality(OpenBy(o) \ raced) <= 1
  /\ "terminals" \notin raced => terminals <= MaxTerminals

\* A closed box is never opened again nor does its balance change, so that the
\* difference reported at its closing stays true, unless a sale was being
\* added to it while it was closed.
ClosedBoxIsFinal ==
  [][\A b \in Boxes \ raced' : box[b].status = "fechado" => box'[b] = box[b]]_vars

\* Nothing put on a tab takes it above the limit in force when it is put
\* there, unless two requests were at that tab at the same time.
WithinLimit ==
  [][\A k \in Customers \ raced' : customer'[k].debt > customer[k].debt
                                     => customer'[k].debt <= customer[k].limit]_vars
=============================================================================
