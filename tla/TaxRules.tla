------------------------------ MODULE TaxRules ------------------------------
(***************************************************************************)
(* Product tax rules: drafts are edited, published with the evidence of an *)
(* accountant's approval, linked to products day by day, retired; a sale   *)
(* freezes the rule each of its products has on the day it says it took    *)
(* place, and the market's enforcement mode decides what happens when      *)
(* there is none. A request reads entities, awaits, and writes: a client   *)
(* is what it has in hand between two awaits. Definitions named after a    *)
(* slip (PublishSave_NoStamp) are broken variants no specification uses.   *)
(***************************************************************************)
EXTENDS Integers, FiniteSets

CONSTANTS
  Rules, Products, Sales, Clients,
  Basket,      \* per sale, the products on the receipt
  Contents,    \* what a draft may be given: columns of product_tax_rules
  Nothing,     \* no evidence for a line of a receipt
  Storable,    \* TRUE: a JSON column takes the decimals of a snapshot; the
               \* engine the code creates gives it no serializer that does
  MaxDay,      \* bound: the last day
  Window,      \* days a till's clock may differ from the server's
  MaxRequests  \* bound: requests ever made

Days == 1 .. MaxDay
Forever == MaxDay + 1 \* effective_to is NULL

\* code stands for the group, CST and mode a publication compares with the
\* parameters, rate for what it does not compare
Params == [code : {c.code : c \in Contents}, rate : {c.rate : c \in Contents}]

ASSUME TaxRulesAssumption ==
  /\ Contents \subseteq [code : Nat, rate : Nat, from : Nat, to : Nat]
  /\ Basket \in [Sales -> SUBSET Products]
  /\ MaxDay \in Nat \ {0} /\ Window \in Nat /\ MaxRequests \in Nat
  /\ Storable \in BOOLEAN

VARIABLES
  rule,     \* rows of product_tax_rules
  approved, \* per rule, the content the publishing request had read
  links,    \* rows of product_tax_rule_assignments
  mode,     \* fiscal_rule_enforcement of the market's configuration
  today,
  sold,     \* sales, with the evidence frozen on their items
  client,   \* what each client's request has in hand
  requests, \* requests made so far
  overwritten \* for the properties: rules over which an edit was written that
              \* had found a draft, and came after the publication

rules == <<rule, approved, overwritten>>
vars == <<rules, links, mode, today, sold, client, requests>>

NoRule == [status |-> "none"]
Content == [column : Contents, params : Params]
Row == [status : {"draft", "published", "retired"}, content : Content, updated_at : Nat]
Link == [product : Products, rule : Rules, from : Days, to : 0 .. Forever]
Modes == {"off", "warn", "block"}

\* evidence keeps the rule's id and the copy the snapshot is computed from
Evidence == [rule : Rules, content : Content] \cup {Nothing}

Init ==
  /\ rule = [r \in Rules |-> NoRule] /\ approved = [r \in Rules |-> Nothing]
  /\ links = {} /\ mode = "off" /\ today = 1
  /\ sold = [s \in Sales |-> Nothing]
  /\ client = [c \in Clients |-> [op |-> "idle"]] /\ requests = 0
  /\ overwritten = {}

Covers(row, day) == row.from <= day /\ day <= row.to
Published(r) == rule[r].status = "published"
On(p, day) == {l \in links : l.product = p /\ Covers(l, day)}

\* the rules a sale of a product on a day may be taxed by
Valid(p, day) ==
  {l \in On(p, day) : Published(l.rule) /\ Covers(rule[l.rule].content.column, day)}

Begin(c, held) ==
  /\ client[c].op = "idle" /\ requests < MaxRequests
  /\ client' = [client EXCEPT ![c] = held]
  /\ requests' = requests + 1
End(c) == client' = [client EXCEPT ![c] = [op |-> "idle"]] /\ UNCHANGED requests
Doing(ops) == {c \in Clients : client[c].op \in ops}

\* a refusal, an error, a dead process: nothing has been written
Fail(c) ==
  /\ client[c].op # "idle" /\ End(c)
  /\ UNCHANGED <<rules, links, mode, today, sold>>

-----------------------------------------------------------------------------
(* Drafts; creating a successor inserts a second version 1 of its family,   *)
(* which the unique key refuses: it never changes a row                     *)

Create(c, r, content) ==
  /\ rule[r] = NoRule /\ client[c].op = "idle" /\ requests < MaxRequests
  /\ rule' = [rule EXCEPT ![r] =
       [status |-> "draft", updated_at |-> 0,
        content |-> [column |-> content,
                     params |-> [code |-> content.code, rate |-> content.rate]]]]
  /\ requests' = requests + 1
  /\ UNCHANGED <<approved, overwritten, links, mode, today, sold, client>>

EditRead(c, r, content) ==
  /\ rule[r].status = "draft"
  /\ Begin(c, [op |-> "edit", rule |-> r, content |-> content])
  /\ UNCHANGED <<rules, links, mode, today, sold>>

\* the columns are written, unlocked; tax_parameters is not a column, and stays as it was
EditWrite(c) ==
  /\ client[c].op = "edit"
  /\ rule' = [rule EXCEPT ![client[c].rule].content.column = client[c].content,
                          ![client[c].rule].updated_at = @ + 1]
  /\ overwritten' = IF rule[client[c].rule].status = "draft" THEN overwritten
                    ELSE overwritten \cup {client[c].rule}
  /\ End(c)
  /\ UNCHANGED <<approved, links, mode, today, sold>>

\* the rule is read, whatever its status; then the evidence is fetched, verified and stored
PublishRead(c, r) ==
  /\ rule[r] # NoRule
  /\ Begin(c, [op |-> "publish", rule |-> r, copy |-> rule[r]])
  /\ UNCHANGED <<rules, links, mode, today, sold>>

Publish(c) ==
  LET r == client[c].rule
  IN  /\ rule' = [rule EXCEPT ![r].status = "published", ![r].updated_at = @ + 1]
      /\ approved' = [approved EXCEPT ![r] = client[c].copy.content]
      /\ End(c)
      /\ UNCHANGED <<overwritten, links, mode, today, sold>>

Publishable(row) == row.status = "draft" /\ row.content.column.code = row.content.params.code

\* a slip: the draft may have changed since it was read
PublishSave_NoStamp(c) ==
  /\ client[c].op = "publish" /\ Publishable(rule[client[c].rule])
  /\ Publish(c)

\* the row is locked, and must be the draft that was read
PublishSave(c) ==
  /\ client[c].op = "publish"
  /\ Publishable(rule[client[c].rule])
  /\ rule[client[c].rule].updated_at = client[c].copy.updated_at
  /\ Publish(c)

\* the status, which nothing but another retirement writes by then
Retire(c, r) ==
  /\ Published(r) /\ client[c].op = "idle" /\ requests < MaxRequests
  /\ rule' = [rule EXCEPT ![r].status = "retired", ![r].updated_at = @ + 1]
  /\ requests' = requests + 1
  /\ UNCHANGED <<approved, overwritten, links, mode, today, sold, client>>

-----------------------------------------------------------------------------
(* Links: a product's rule is replaced from today on *)

\* a slip: any date is taken
AssignCheck_AnyDay(c, r, ps, from) ==
  /\ Published(r) /\ Covers(rule[r].content.column, from)
  /\ Begin(c, [op |-> "assign", rule |-> r, products |-> ps, from |-> from, asked |-> today])
  /\ UNCHANGED <<rules, links, mode, today, sold>>

\* the day it was asked for is kept for the properties
AssignCheck(c, r, ps, from) ==
  /\ from = today
  /\ Published(r) /\ Covers(rule[r].content.column, from)
  /\ Begin(c, [op |-> "assign", rule |-> r, products |-> ps, from |-> from, asked |-> today])
  /\ UNCHANGED <<rules, links, mode, today, sold>>

\* a slip: a link that starts today is closed as well
Linkable_SameDay(p, from) ==
  \A l \in links : l.product = p => IF l.to = Forever THEN l.from <= from ELSE l.to < from

\* skipped otherwise: a link that ends today or later, or an open one that
\* starts today or later
Linkable(p, from) ==
  \A l \in links : l.product = p => IF l.to = Forever THEN l.from < from ELSE l.to < from

\* a slip: the day on which the new link starts is not taken off the old one
Closed_SameDay(l, ps, from) ==
  IF l.product \in ps /\ l.to = Forever THEN [l EXCEPT !.to = from] ELSE l

\* what is open ends on the day before
Closed(l, ps, from) ==
  IF l.product \in ps /\ l.to = Forever THEN [l EXCEPT !.to = from - 1] ELSE l

\* rule, products and links are locked; all products in one commit.  The day is
\* not tested again: midnight may have passed
AssignSave(c) ==
  LET held == client[c]
      ps == {p \in held.products : Linkable(p, held.from)}
  IN  /\ held.op = "assign"
      /\ Published(held.rule)
      /\ links' = {Closed(l, ps, held.from) : l \in links}
           \cup {[product |-> p, rule |-> held.rule, from |-> held.from, to |-> Forever] : p \in ps}
      /\ End(c)
      /\ UNCHANGED <<rules, mode, today, sold>>

-----------------------------------------------------------------------------
(* The enforcement mode, one column of a row that is saved as a whole *)

Ready == \A p \in Products : Cardinality(On(p, today)) = 1 /\ Valid(p, today) # {}

Allowed(target) ==
  \/ mode = "block" /\ target = "warn"
  \/ mode = "off" /\ target = "warn" /\ Ready
  \/ mode = "warn" /\ target = "block" /\ Ready

\* a transition, or a save of other columns that writes back the mode it read
ConfigRead(c, target) ==
  /\ target = mode \/ Allowed(target)
  /\ Begin(c, [op |-> "config", mode |-> target])
  /\ UNCHANGED <<rules, links, mode, today, sold>>

ConfigSave(c) ==
  /\ client[c].op = "config"
  /\ mode' = client[c].mode
  /\ End(c)
  /\ UNCHANGED <<rules, links, today, sold>>

-----------------------------------------------------------------------------
(* Sales: the mode is read, then one rule for each line, then the commit *)

\* with a mode other than block the till's clock is compared with the server's
SellRead(c, s, day) ==
  /\ sold[s] = Nothing /\ \A d \in Doing({"sell"}) : client[d].sale # s
  /\ mode # "block" => day - today \in -Window .. Window
  /\ Begin(c, [op |-> "sell", sale |-> s, day |-> day, mode |-> mode,
               frozen |-> [p \in {} |-> Nothing]])
  /\ UNCHANGED <<rules, links, mode, today, sold>>

\* more than one link on that day is ambiguous, whatever their rules
Freeze(c, p) ==
  LET held == client[c]
      evidence == IF held.mode # "off" /\ Cardinality(On(p, held.day)) = 1
                  THEN {[rule |-> l.rule, content |-> rule[l.rule].content] :
                          l \in Valid(p, held.day)}
                  ELSE {}
  IN  /\ held.op = "sell" /\ p \in Basket[held.sale] \ DOMAIN held.frozen
      /\ \E e \in IF evidence = {} THEN {Nothing} ELSE evidence :
           client' = [client EXCEPT ![c].frozen =
             [q \in DOMAIN @ \cup {p} |-> IF q = p THEN e ELSE @[q]]]
      /\ UNCHANGED <<rules, links, mode, today, sold, requests>>

\* in block mode a line without evidence refuses the sale; where decimals
\* cannot be stored, so does the insertion of a line with evidence
SellSave(c) ==
  LET held == client[c]
  IN  /\ held.op = "sell" /\ DOMAIN held.frozen = Basket[held.sale]
      /\ held.mode = "block" => \A p \in DOMAIN held.frozen : held.frozen[p] # Nothing
      /\ Storable \/ \A p \in DOMAIN held.frozen : held.frozen[p] = Nothing
      /\ sold' = [sold EXCEPT ![held.sale] =
                    [day |-> held.day, mode |-> held.mode, frozen |-> held.frozen]]
      /\ End(c)
      /\ UNCHANGED <<rules, links, mode, today>>

-----------------------------------------------------------------------------

Midnight ==
  /\ today < MaxDay
  /\ today' = today + 1
  /\ UNCHANGED <<rules, links, mode, sold, client, requests>>

Step(c) ==
  \/ \E r \in Rules :
       \/ \E content \in Contents : Create(c, r, content) \/ EditRead(c, r, content)
       \/ PublishRead(c, r) \/ Retire(c, r)
       \/ \E ps \in SUBSET Products \ {{}}, from \in Days : AssignCheck(c, r, ps, from)
  \/ EditWrite(c) \/ PublishSave(c) \/ AssignSave(c)
  \/ \E target \in Modes : ConfigRead(c, target)
  \/ ConfigSave(c)
  \/ \E s \in Sales, day \in Days : SellRead(c, s, day)
  \/ \E p \in Products : Freeze(c, p)
  \/ SellSave(c)
  \/ Fail(c)

Next == Midnight \/ \E c \in Clients : Step(c)

Spec == Init /\ [][Next]_vars

-----------------------------------------------------------------------------
(* Properties *)

Receipt(s) == [day : Days, mode : Modes, frozen : [Basket[s] -> Evidence]]

Held(h) ==
  \/ h \in [op : {"idle"}]
  \/ h \in [op : {"edit"}, rule : Rules, content : Contents]
  \/ h \in [op : {"publish"}, rule : Rules, copy : Row]
  \/ h \in [op : {"assign"}, rule : Rules, products : SUBSET Products, from : Days, asked : Days]
  \/ h \in [op : {"config"}, mode : Modes]
  \/ /\ h.op = "sell"
     /\ h = [op |-> "sell", sale |-> h.sale, day |-> h.day, mode |-> h.mode, frozen |-> h.frozen]
     /\ h.sale \in Sales /\ h.day \in Days /\ h.mode \in Modes
     /\ DOMAIN h.frozen \subseteq Basket[h.sale]
     /\ h.frozen \in [DOMAIN h.frozen -> Evidence]

\* Every row, link, receipt and request has its type, and no link ends before
\* the day it starts.
TypeOK ==
  /\ rule \in [Rules -> Row \cup {NoRule}]
  /\ approved \in [Rules -> Content \cup {Nothing}]
  /\ links \subseteq Link /\ mode \in Modes /\ today \in Days
  /\ \A l \in links : l.from <= l.to
  /\ DOMAIN sold = Sales /\ \A s \in Sales : sold[s] = Nothing \/ sold[s] \in Receipt(s)
  /\ DOMAIN client = Clients /\ \A c \in Clients : Held(client[c])
  /\ requests \in 0 .. MaxRequests /\ overwritten \subseteq Rules

\* a rule that is no longer a draft says what the accountant approved
Frozen == \A r \in Rules \ overwritten :
  rule[r].status \in {"published", "retired"} => rule[r].content = approved[r]

\* evidence is of a rule in force on the day of the sale
Proven(day, evidence) ==
  evidence # Nothing => /\ evidence.rule \in overwritten \/ evidence.content = approved[evidence.rule]
                        /\ Covers(evidence.content.column, day)

\* Whatever is edited, published, linked or retired while a receipt is on its
\* way: the evidence on its lines is of a rule in force on the day of the sale,
\* and is what was approved when the rule was published; a sale taken up in
\* block mode has evidence on every line; and a published or retired rule still
\* says what was approved.  The exception are rules over which an edit was
\* written that had found a draft and came after the publication.
SoldAsReviewed ==
  /\ Frozen
  /\ \A s \in Sales : sold[s] # Nothing =>
       \A p \in Basket[s] :
         /\ Proven(sold[s].day, sold[s].frozen[p])
         /\ sold[s].mode = "block" => sold[s].frozen[p] # Nothing

\* No product has two rules on one day: no sale of it is ever ambiguous, and
\* the exclusion constraint on the links never has to refuse one.
OneRuleADay == \A p \in Products, day \in Days : Cardinality(On(p, day)) <= 1

\* What rule a product had on a day that is over is changed by no assignment
\* asked for since, also when midnight passes before its commit: a receipt that
\* comes in late is taxed as if it had come in that day, unless an assignment
\* asked for by then was not saved yet or the rule was retired.
PastIsFixed ==
  [][\A p \in Products, day \in Days :
       \/ day >= today
       \/ {l.rule : l \in On(p, day)'} = {l.rule : l \in On(p, day)}
       \/ \E c \in Clients :
            /\ client[c].op = "assign" /\ client'[c].op = "idle"
            /\ client[c].asked <= day /\ p \in client[c].products]_vars
=============================================================================
