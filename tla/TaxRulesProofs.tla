--------------------------- MODULE TaxRulesProofs ---------------------------
(***************************************************************************)
(* Proofs about TaxRules, for every number of rules, products, sales,      *)
(* clients and days. What is on a receipt is what was approved because a   *)
(* request that publishes relies on a copy no edit has overtaken, and an   *)
(* edit that comes after a publication is one that found a draft.          *)
(***************************************************************************)
EXTENDS TaxRules, FiniteSetTheorems, TLAPS

USE TaxRulesAssumption

\* what is edited or published is there
Known == \A c \in Clients : client[c].op \in {"edit", "publish"} =>
  rule[client[c].rule].status # "none"

-----------------------------------------------------------------------------
(* Types *)

LEMMA InitTypes == Init => TypeOK /\ Known
  BY DEF Init, TypeOK, Known, Days, Modes, Held, NoRule

\* What Begin and End do to the clients, whatever the request has in hand.
LEMMA BeginTypes ==
  ASSUME TypeOK, NEW c \in Clients, NEW h, Held(h), Begin(c, h)
  PROVE  /\ DOMAIN client' = Clients /\ \A d \in Clients : Held(client'[d])
         /\ requests' \in 0 .. MaxRequests
  BY DEF TypeOK, Begin

LEMMA EndTypes ==
  ASSUME TypeOK, NEW c \in Clients, End(c)
  PROVE  /\ DOMAIN client' = Clients /\ \A d \in Clients : Held(client'[d])
         /\ requests' \in 0 .. MaxRequests
  <1>1. Held([op |-> "idle"])
    BY DEF Held
  <1> QED
    BY <1>1 DEF TypeOK, End

\* The operation a client is at tells what it has in hand.
LEMMA InHand ==
  ASSUME TypeOK, NEW c \in Clients
  PROVE  /\ client[c].op = "edit" =>
              client[c] \in [op : {"edit"}, rule : Rules, content : Contents]
         /\ client[c].op = "publish" =>
              client[c] \in [op : {"publish"}, rule : Rules, copy : Row]
         /\ client[c].op = "assign" =>
              client[c] \in [op : {"assign"}, rule : Rules, products : SUBSET Products,
                            from : Days, asked : Days]
         /\ client[c].op = "config" => client[c] \in [op : {"config"}, mode : Modes]
         /\ client[c].op = "sell" =>
              /\ client[c].sale \in Sales /\ client[c].day \in Days /\ client[c].mode \in Modes
              /\ DOMAIN client[c].frozen \subseteq Basket[client[c].sale]
              /\ client[c].frozen \in [DOMAIN client[c].frozen -> Evidence]
              /\ client[c] = [op |-> "sell", sale |-> client[c].sale, day |-> client[c].day,
                              mode |-> client[c].mode, frozen |-> client[c].frozen]
  BY DEF TypeOK, Held

LEMMA RowTypes ==
  ASSUME TypeOK, NEW r \in Rules, rule[r].status # "none"
  PROVE  rule[r] \in Row
  BY DEF TypeOK, NoRule

\* A line gets the content of a valid rule, or nothing.
LEMMA FreezesOne ==
  ASSUME NEW c \in Clients, NEW p \in Products, Freeze(c, p)
  PROVE  \E e :
           /\ e # Nothing => \E l \in Valid(p, client[c].day) :
                               e = [rule |-> l.rule, content |-> rule[l.rule].content]
           /\ client' = [client EXCEPT ![c].frozen =
                           [q \in DOMAIN @ \cup {p} |-> IF q = p THEN e ELSE @[q]]]
  <1> DEFINE h == client[c]
             found == {[rule |-> l.rule, content |-> rule[l.rule].content] : l \in Valid(p, h.day)}
             evidence == IF h.mode # "off" /\ Cardinality(On(p, h.day)) = 1 THEN found ELSE {}
  <1>1. PICK e \in IF evidence = {} THEN {Nothing} ELSE evidence :
          client' = [client EXCEPT ![c].frozen =
                      [q \in DOMAIN @ \cup {p} |-> IF q = p THEN e ELSE @[q]]]
    BY DEF Freeze
  <1>2. e # Nothing => e \in found
    OBVIOUS
  <1> QED
    BY <1>1, <1>2

LEMMA ValidTypes ==
  ASSUME TypeOK, NEW p \in Products, NEW day, NEW l \in Valid(p, day)
  PROVE  /\ l \in links /\ l.rule \in Rules /\ rule[l.rule] \in Row
         /\ rule[l.rule].content \in Content /\ Published(l.rule)
         /\ Covers(rule[l.rule].content.column, day)
  <1>1. l \in links /\ l.rule \in Rules /\ Published(l.rule)
    BY DEF Valid, On, TypeOK, Link
  <1>2. rule[l.rule] \in Row
    BY <1>1, RowTypes DEF Published
  <1> QED
    BY <1>1, <1>2 DEF Valid, Row

LEMMA TypeStep == TypeOK /\ Known /\ [Next]_vars => TypeOK'
  <1> SUFFICES ASSUME TypeOK, Known, [Next]_vars PROVE TypeOK'
    OBVIOUS
  <1>1. CASE UNCHANGED vars
    BY <1>1 DEF TypeOK, vars, rules, Receipt, Held
  <1>2. CASE Midnight
    BY <1>2 DEF TypeOK, Midnight, rules, Days
  <1>3. ASSUME NEW c \in Clients, Fail(c) PROVE TypeOK'
    BY <1>3, EndTypes DEF TypeOK, Fail, rules
  <1>4. ASSUME NEW c \in Clients, NEW r \in Rules, NEW content \in Contents,
               Create(c, r, content)
        PROVE  TypeOK'
    <2>1. [status |-> "draft", updated_at |-> 0,
           content |-> [column |-> content,
                        params |-> [code |-> content.code, rate |-> content.rate]]] \in Row
      BY DEF Row, Content, Params
    <2>2. rule' \in [Rules -> Row \cup {NoRule}]
      BY <1>4, <2>1 DEF TypeOK, Create
    <2>3. requests' \in 0 .. MaxRequests
      BY <1>4 DEF TypeOK, Create
    <2> QED
      BY <1>4, <2>2, <2>3 DEF TypeOK, Create
  <1>5. ASSUME NEW c \in Clients, NEW r \in Rules, NEW content \in Contents,
               EditRead(c, r, content)
        PROVE  TypeOK'
    <2>1. Held([op |-> "edit", rule |-> r, content |-> content])
      BY DEF Held
    <2> QED
      BY <1>5, <2>1, BeginTypes DEF TypeOK, EditRead, rules
  <1>6. ASSUME NEW c \in Clients, NEW r \in Rules, PublishRead(c, r) PROVE TypeOK'
    <2>1. Held([op |-> "publish", rule |-> r, copy |-> rule[r]])
      BY <1>6 DEF Held, PublishRead, TypeOK
    <2> QED
      BY <1>6, <2>1, BeginTypes DEF TypeOK, PublishRead, rules
  <1>7. ASSUME NEW c \in Clients, NEW r \in Rules, Retire(c, r) PROVE TypeOK'
    <2>1. rule[r] \in Row
      BY <1>7, RowTypes DEF Retire, Published
    <2>2. rule' \in [Rules -> Row \cup {NoRule}]
      BY <1>7, <2>1 DEF TypeOK, Retire, Row
    <2>3. requests' \in 0 .. MaxRequests
      BY <1>7 DEF TypeOK, Retire
    <2> QED
      BY <1>7, <2>2, <2>3 DEF TypeOK, Retire
  <1>8. ASSUME NEW c \in Clients, NEW r \in Rules, NEW ps \in SUBSET Products \ {{}},
               NEW from \in Days, AssignCheck(c, r, ps, from)
        PROVE  TypeOK'
    <2>1. Held([op |-> "assign", rule |-> r, products |-> ps, from |-> from, asked |-> today])
      BY DEF Held, TypeOK
    <2> QED
      BY <1>8, <2>1, BeginTypes DEF TypeOK, AssignCheck, rules
  <1>9. ASSUME NEW c \in Clients, EditWrite(c) PROVE TypeOK'
    <2>1. client[c].rule \in Rules /\ client[c].content \in Contents
      BY <1>9, InHand DEF EditWrite
    <2>2. rule[client[c].rule] \in Row
      BY <1>9, <2>1, RowTypes DEF Known, EditWrite
    <2>3. rule' \in [Rules -> Row \cup {NoRule}]
      BY <1>9, <2>1, <2>2 DEF TypeOK, EditWrite, Row, Content
    <2> QED
      BY <1>9, <2>3, EndTypes DEF TypeOK, EditWrite
  <1>10. ASSUME NEW c \in Clients, PublishSave(c) PROVE TypeOK'
    <2> DEFINE r == client[c].rule
    <2>1. r \in Rules /\ client[c].copy \in Row
      BY <1>10, InHand DEF PublishSave
    <2>2. rule[r] \in Row
      BY <1>10, <2>1, RowTypes DEF PublishSave, Publishable
    <2>4. rule' \in [Rules -> Row \cup {NoRule}]
      BY <1>10, <2>1, <2>2 DEF TypeOK, PublishSave, Publish, Row
    <2>5. approved' \in [Rules -> Content \cup {Nothing}]
      BY <1>10, <2>1 DEF TypeOK, PublishSave, Publish, Row
    <2> QED
      BY <1>10, <2>4, <2>5, EndTypes DEF TypeOK, PublishSave, Publish
  <1>11. ASSUME NEW c \in Clients, AssignSave(c) PROVE TypeOK'
    <2> DEFINE h == client[c]
               ps == {p \in h.products : Linkable(p, h.from)}
    <2>1. h.rule \in Rules /\ h.products \subseteq Products /\ h.from \in Days
      BY <1>11, InHand DEF AssignSave
    <2>2. ASSUME NEW l \in links
          PROVE  Closed(l, ps, h.from) \in Link
                 /\ Closed(l, ps, h.from).from <= Closed(l, ps, h.from).to
      <3>1. l \in Link /\ l.from <= l.to
        BY DEF TypeOK
      <3>2. CASE l.product \in ps /\ l.to = Forever
        <4>1. l.from < h.from
          BY <3>2 DEF Linkable
        <4>2. h.from - 1 \in 0 .. Forever
          BY <2>1 DEF Days, Forever
        <4>3. Closed(l, ps, h.from) = [l EXCEPT !.to = h.from - 1]
          BY <3>2 DEF Closed
        <4> QED
          BY <3>1, <2>1, <4>1, <4>2, <4>3 DEF Link, Days
      <3>3. CASE ~(l.product \in ps /\ l.to = Forever)
        BY <3>1, <3>3 DEF Closed
      <3> QED
        BY <3>2, <3>3
    <2>3. ASSUME NEW p \in ps
          PROVE  [product |-> p, rule |-> h.rule, from |-> h.from, to |-> Forever] \in Link
                 /\ h.from <= Forever
      BY <2>1 DEF Link, Days, Forever
    <2>4. links' = {Closed(l, ps, h.from) : l \in links}
                     \cup {[product |-> p, rule |-> h.rule, from |-> h.from, to |-> Forever] : p \in ps}
      BY <1>11 DEF AssignSave
    <2>5. ASSUME NEW m \in links' PROVE m \in Link /\ m.from <= m.to
      <3>1. CASE \E l \in links : m = Closed(l, ps, h.from)
        BY <2>2, <3>1
      <3>2. CASE \E p \in ps : m = [product |-> p, rule |-> h.rule, from |-> h.from, to |-> Forever]
        BY <2>3, <3>2
      <3> QED
        BY <2>4, <3>1, <3>2
    <2> QED
      BY <1>11, <2>5, EndTypes DEF TypeOK, AssignSave, rules
  <1>12. ASSUME NEW c \in Clients, NEW target \in Modes, ConfigRead(c, target) PROVE TypeOK'
    <2>1. Held([op |-> "config", mode |-> target])
      BY DEF Held
    <2> QED
      BY <1>12, <2>1, BeginTypes DEF TypeOK, ConfigRead, rules
  <1>13. ASSUME NEW c \in Clients, ConfigSave(c) PROVE TypeOK'
    <2>1. client[c].mode \in Modes
      BY <1>13, InHand DEF ConfigSave
    <2> QED
      BY <1>13, <2>1, EndTypes DEF TypeOK, ConfigSave, rules
  <1>14. ASSUME NEW c \in Clients, NEW s \in Sales, NEW day \in Days, SellRead(c, s, day)
         PROVE  TypeOK'
    <2>1. Held([op |-> "sell", sale |-> s, day |-> day, mode |-> mode,
                frozen |-> [p \in {} |-> Nothing]])
      BY DEF Held, TypeOK
    <2> QED
      BY <1>14, <2>1, BeginTypes DEF TypeOK, SellRead, rules
  <1>15. ASSUME NEW c \in Clients, NEW p \in Products, Freeze(c, p) PROVE TypeOK'
    <2> DEFINE h == client[c]
    <2>1. /\ h.sale \in Sales /\ h.day \in Days /\ h.mode \in Modes
          /\ DOMAIN h.frozen \subseteq Basket[h.sale] /\ h.frozen \in [DOMAIN h.frozen -> Evidence]
          /\ h = [op |-> "sell", sale |-> h.sale, day |-> h.day, mode |-> h.mode, frozen |-> h.frozen]
      BY <1>15, InHand DEF Freeze
    <2>2. PICK e :
            /\ e # Nothing => \E l \in Valid(p, h.day) :
                                e = [rule |-> l.rule, content |-> rule[l.rule].content]
            /\ client' = [client EXCEPT ![c].frozen =
                            [q \in DOMAIN @ \cup {p} |-> IF q = p THEN e ELSE @[q]]]
      BY <1>15, FreezesOne
    <2>3. e \in Evidence
      BY <2>2, ValidTypes DEF Evidence
    <2> DEFINE frozen == [q \in DOMAIN h.frozen \cup {p} |-> IF q = p THEN e ELSE h.frozen[q]]
    <2>4. frozen \in [DOMAIN frozen -> Evidence] /\ DOMAIN frozen \subseteq Basket[h.sale]
      BY <1>15, <2>1, <2>3 DEF Freeze
    <2>5. client' = [client EXCEPT ![c] = [op |-> "sell", sale |-> h.sale, day |-> h.day,
                                           mode |-> h.mode, frozen |-> frozen]]
      <3>1. client' = [client EXCEPT ![c] = [h EXCEPT !.frozen = frozen]]
        BY <2>2
      <3> HIDE DEF frozen
      <3>2. [h EXCEPT !.frozen = frozen] =
              [op |-> "sell", sale |-> h.sale, day |-> h.day, mode |-> h.mode, frozen |-> frozen]
        BY <2>1
      <3> QED
        BY <3>1, <3>2
    <2> HIDE DEF frozen
    <2>6. Held([op |-> "sell", sale |-> h.sale, day |-> h.day, mode |-> h.mode, frozen |-> frozen])
      BY <2>1, <2>4 DEF Held
    <2>7. DOMAIN client' = Clients /\ \A d \in Clients : Held(client'[d])
      BY <2>5, <2>6 DEF TypeOK
    <2> QED
      BY <1>15, <2>7 DEF TypeOK, Freeze, rules
  <1>16. ASSUME NEW c \in Clients, SellSave(c) PROVE TypeOK'
    <2> DEFINE h == client[c]
               receipt == [day |-> h.day, mode |-> h.mode, frozen |-> h.frozen]
    <2>1. h.sale \in Sales /\ receipt \in Receipt(h.sale)
      BY <1>16, InHand DEF SellSave, Receipt
    <2>2. sold' = [sold EXCEPT ![h.sale] = receipt]
      BY <1>16 DEF SellSave
    <2>3. DOMAIN sold' = Sales /\ \A s \in Sales : sold'[s] = Nothing \/ sold'[s] \in Receipt(s)
      BY <2>1, <2>2 DEF TypeOK
    <2> QED
      BY <1>16, <2>3, EndTypes DEF TypeOK, SellSave, rules
  <1> QED
    BY <1>1, <1>2, <1>3, <1>4, <1>5, <1>6, <1>7, <1>8, <1>9, <1>10, <1>11, <1>12, <1>13,
       <1>14, <1>15, <1>16 DEF Next, Step

-----------------------------------------------------------------------------
(* Rows of rules *)

\* What a step does to the row of a rule: nothing, or one of four writes.
LEMMA RowSteps ==
  ASSUME TypeOK, Known, [Next]_vars, NEW r \in Rules
  PROVE  \/ rule'[r] = rule[r] /\ approved'[r] = approved[r]
         \/ rule[r] = NoRule /\ rule'[r].status = "draft" /\ approved'[r] = approved[r]
         \/ \E c \in Clients :
              /\ EditWrite(c) /\ client[c].rule = r /\ rule[r] \in Row
              /\ rule'[r].status = rule[r].status /\ approved'[r] = approved[r]
              /\ rule'[r].updated_at = rule[r].updated_at + 1
         \/ \E c \in Clients :
              /\ PublishSave(c) /\ client[c].rule = r /\ rule[r] \in Row
              /\ rule'[r].status = "published" /\ rule'[r].content = rule[r].content
              /\ rule'[r].updated_at = rule[r].updated_at + 1
              /\ approved'[r] = client[c].copy.content
         \/ /\ rule[r].status = "published" /\ rule[r] \in Row
            /\ rule'[r].status = "retired" /\ rule'[r].content = rule[r].content
            /\ rule'[r].updated_at = rule[r].updated_at + 1 /\ approved'[r] = approved[r]
  <1>1. CASE UNCHANGED rules
    BY <1>1 DEF rules
  <1>2. ASSUME NEW c \in Clients, NEW q \in Rules, NEW content \in Contents,
               Create(c, q, content), ~UNCHANGED rules
        PROVE  \/ rule'[r] = rule[r] /\ approved'[r] = approved[r]
               \/ rule[r] = NoRule /\ rule'[r].status = "draft" /\ approved'[r] = approved[r]
    BY <1>2 DEF Create, TypeOK
  <1>3. ASSUME NEW c \in Clients, EditWrite(c)
        PROVE  \/ rule'[r] = rule[r] /\ approved'[r] = approved[r]
               \/ /\ client[c].rule = r /\ rule[r] \in Row
                  /\ rule'[r].status = rule[r].status /\ approved'[r] = approved[r]
                  /\ rule'[r].updated_at = rule[r].updated_at + 1
    <2>1. client[c].rule = r => rule[r] \in Row
      BY <1>3, RowTypes DEF EditWrite, Known
    <2> QED
      BY <1>3, <2>1 DEF EditWrite, TypeOK, Row
  <1>4. ASSUME NEW c \in Clients, PublishSave(c)
        PROVE  \/ rule'[r] = rule[r] /\ approved'[r] = approved[r]
               \/ /\ client[c].rule = r /\ rule[r] \in Row
                  /\ rule'[r].status = "published" /\ rule'[r].content = rule[r].content
                  /\ rule'[r].updated_at = rule[r].updated_at + 1
                  /\ approved'[r] = client[c].copy.content
    <2>1. client[c].rule = r => rule[r] \in Row
      BY <1>4, RowTypes DEF PublishSave, Publishable
    <2> QED
      BY <1>4, <2>1 DEF PublishSave, Publish, TypeOK, Row
  <1>5. ASSUME NEW c \in Clients, NEW q \in Rules, Retire(c, q)
        PROVE  \/ rule'[r] = rule[r] /\ approved'[r] = approved[r]
               \/ /\ rule[r].status = "published" /\ rule[r] \in Row
                  /\ rule'[r].status = "retired" /\ rule'[r].content = rule[r].content
                  /\ rule'[r].updated_at = rule[r].updated_at + 1 /\ approved'[r] = approved[r]
    <2>1. q = r => rule[r] \in Row
      BY <1>5, RowTypes DEF Retire, Published
    <2> QED
      BY <1>5, <2>1 DEF Retire, Published, TypeOK, Row
  <1>6. UNCHANGED rules
          \/ \E c \in Clients :
               \/ \E q \in Rules, content \in Contents : Create(c, q, content)
               \/ EditWrite(c) \/ PublishSave(c)
               \/ \E q \in Rules : Retire(c, q)
    BY DEF Next, Step, vars, Midnight, Fail, EditRead, PublishRead, AssignCheck, AssignSave,
           ConfigRead, ConfigSave, SellRead, Freeze, SellSave
  <1> QED
    BY <1>1, <1>2, <1>3, <1>4, <1>5, <1>6

\* What a client has in hand after a step: what it had, nothing, or what the
\* operation it has begun takes.
LEMMA HandSteps ==
  ASSUME TypeOK, [Next]_vars, NEW c \in Clients
  PROVE  \/ client'[c] = client[c]
         \/ client'[c].op \in {"idle", "config"}
         \/ \E r \in Rules, content \in Contents :
              EditRead(c, r, content)
                /\ client'[c] = [op |-> "edit", rule |-> r, content |-> content]
         \/ \E r \in Rules :
              PublishRead(c, r) /\ client'[c] = [op |-> "publish", rule |-> r, copy |-> rule[r]]
         \/ /\ client'[c].op = "assign" /\ client'[c].from = client'[c].asked
         \/ /\ client'[c].op = "sell" /\ DOMAIN client'[c].frozen = {} /\ UNCHANGED rules
         \/ /\ client[c].op = "sell" /\ client'[c].op = "sell" /\ client'[c].day = client[c].day
            /\ UNCHANGED rules
            /\ \E p \in Products :
                 /\ DOMAIN client'[c].frozen = DOMAIN client[c].frozen \cup {p}
                 /\ \A q \in DOMAIN client[c].frozen \ {p} :
                      client'[c].frozen[q] = client[c].frozen[q]
                 /\ client'[c].frozen[p] # Nothing => \E l \in Valid(p, client[c].day) :
                      client'[c].frozen[p] = [rule |-> l.rule, content |-> rule[l.rule].content]
  <1> DEFINE Goal ==
         \/ client'[c] = client[c]
         \/ client'[c].op \in {"idle", "config"}
         \/ \E r \in Rules, content \in Contents :
              EditRead(c, r, content)
                /\ client'[c] = [op |-> "edit", rule |-> r, content |-> content]
         \/ \E r \in Rules :
              PublishRead(c, r) /\ client'[c] = [op |-> "publish", rule |-> r, copy |-> rule[r]]
         \/ /\ client'[c].op = "assign" /\ client'[c].from = client'[c].asked
         \/ /\ client'[c].op = "sell" /\ DOMAIN client'[c].frozen = {} /\ UNCHANGED rules
         \/ /\ client[c].op = "sell" /\ client'[c].op = "sell" /\ client'[c].day = client[c].day
            /\ UNCHANGED rules
            /\ \E p \in Products :
                 /\ DOMAIN client'[c].frozen = DOMAIN client[c].frozen \cup {p}
                 /\ \A q \in DOMAIN client[c].frozen \ {p} :
                      client'[c].frozen[q] = client[c].frozen[q]
                 /\ client'[c].frozen[p] # Nothing => \E l \in Valid(p, client[c].day) :
                      client'[c].frozen[p] = [rule |-> l.rule, content |-> rule[l.rule].content]
  <1> DOMAIN client = Clients
    BY DEF TypeOK
  <1> SUFFICES Goal
    OBVIOUS
  <1>1. CASE UNCHANGED client
    BY <1>1
  <1>2. ASSUME NEW d \in Clients, End(d) PROVE Goal
    BY <1>2 DEF End
  <1>3. ASSUME NEW d \in Clients, NEW r \in Rules, NEW content \in Contents,
               EditRead(d, r, content)
        PROVE  Goal
    <2> HIDE DEF Goal
    <2>1. CASE d = c
      BY <1>3, <2>1 DEF Goal, EditRead, Begin
    <2>2. CASE d # c
      BY <1>3, <2>2 DEF Goal, EditRead, Begin
    <2> QED
      BY <2>1, <2>2
  <1>4. ASSUME NEW d \in Clients, NEW r \in Rules, PublishRead(d, r) PROVE Goal
    <2> HIDE DEF Goal
    <2>1. CASE d = c
      BY <1>4, <2>1 DEF Goal, PublishRead, Begin
    <2>2. CASE d # c
      BY <1>4, <2>2 DEF Goal, PublishRead, Begin
    <2> QED
      BY <2>1, <2>2
  <1>5. ASSUME NEW d \in Clients, NEW r \in Rules, NEW ps, NEW from, AssignCheck(d, r, ps, from)
        PROVE  Goal
    BY <1>5 DEF AssignCheck, Begin
  <1>6. ASSUME NEW d \in Clients, NEW target, ConfigRead(d, target) PROVE Goal
    BY <1>6 DEF ConfigRead, Begin
  <1>7. ASSUME NEW d \in Clients, NEW s, NEW day, SellRead(d, s, day) PROVE Goal
    BY <1>7 DEF SellRead, Begin
  <1>8. ASSUME NEW d \in Clients, NEW p \in Products, Freeze(d, p) PROVE Goal
    <2>1. CASE d # c
      BY <1>8, <2>1, FreezesOne
    <2>2. CASE d = c
      <3>1. PICK e :
              /\ e # Nothing => \E l \in Valid(p, client[c].day) :
                                  e = [rule |-> l.rule, content |-> rule[l.rule].content]
              /\ client' = [client EXCEPT ![c].frozen =
                              [q \in DOMAIN @ \cup {p} |-> IF q = p THEN e ELSE @[q]]]
        BY <1>8, <2>2, FreezesOne
      <3>2. client[c].op = "sell" /\ UNCHANGED rules
        BY <1>8, <2>2 DEF Freeze
      <3> DEFINE frozen == [q \in DOMAIN client[c].frozen \cup {p} |->
                              IF q = p THEN e ELSE client[c].frozen[q]]
      <3>3. client'[c] = [client[c] EXCEPT !.frozen = frozen]
        BY <3>1
      <3>4. /\ client[c] = [op |-> "sell", sale |-> client[c].sale, day |-> client[c].day,
                             mode |-> client[c].mode, frozen |-> client[c].frozen]
        BY <3>2, InHand
      <3>5. client'[c].op = "sell" /\ client'[c].day = client[c].day /\ client'[c].frozen = frozen
        <4> HIDE DEF frozen
        <4> QED
          BY <3>3, <3>4
      <3>6. /\ DOMAIN frozen = DOMAIN client[c].frozen \cup {p} /\ frozen[p] = e
            /\ \A q \in DOMAIN client[c].frozen \ {p} : frozen[q] = client[c].frozen[q]
        OBVIOUS
      <3> HIDE DEF frozen
      <3>7. /\ DOMAIN client'[c].frozen = DOMAIN client[c].frozen \cup {p}
            /\ \A q \in DOMAIN client[c].frozen \ {p} :
                 client'[c].frozen[q] = client[c].frozen[q]
            /\ client'[c].frozen[p] # Nothing => \E l \in Valid(p, client[c].day) :
                 client'[c].frozen[p] = [rule |-> l.rule, content |-> rule[l.rule].content]
        BY <3>1, <3>5, <3>6
      <3> QED
        BY <3>2, <3>5, <3>7
    <2> QED
      BY <2>1, <2>2
  <1>9. \/ UNCHANGED client
        \/ \E d \in Clients :
             \/ End(d)
             \/ \E r \in Rules, content \in Contents : EditRead(d, r, content)
             \/ \E r \in Rules : PublishRead(d, r)
             \/ \E r \in Rules, ps \in SUBSET Products \ {{}}, from \in Days :
                  AssignCheck(d, r, ps, from)
             \/ \E target \in Modes : ConfigRead(d, target)
             \/ \E s \in Sales, day \in Days : SellRead(d, s, day)
             \/ \E p \in Products : Freeze(d, p)
    BY DEF Next, Step, vars, Midnight, Create, Retire, Fail, EditWrite, PublishSave, Publish,
           AssignSave, ConfigSave, SellSave
  <1> HIDE DEF Goal
  <1> QED
    BY <1>1, <1>2, <1>3, <1>4, <1>5, <1>6, <1>7, <1>8, <1>9

LEMMA KnownStep == TypeOK /\ Known /\ [Next]_vars => Known'
  <1> SUFFICES ASSUME TypeOK, Known, [Next]_vars, NEW c \in Clients,
                      client'[c].op \in {"edit", "publish"}
               PROVE  rule'[client'[c].rule].status # "none"
    BY DEF Known
  <1>1. ASSUME NEW r \in Rules, rule[r].status # "none" PROVE rule'[r].status # "none"
    BY <1>1, RowSteps DEF NoRule, Row
  <1>2. client'[c].rule \in Rules /\ rule[client'[c].rule].status # "none"
    <2>1. CASE client'[c] = client[c]
      BY <2>1, InHand DEF Known
    <2>2. ASSUME NEW r \in Rules, NEW content, EditRead(c, r, content),
                 client'[c] = [op |-> "edit", rule |-> r, content |-> content]
          PROVE  client'[c].rule \in Rules /\ rule[client'[c].rule].status # "none"
      BY <2>2 DEF EditRead
    <2>3. ASSUME NEW r \in Rules, PublishRead(c, r),
                 client'[c] = [op |-> "publish", rule |-> r, copy |-> rule[r]]
          PROVE  client'[c].rule \in Rules /\ rule[client'[c].rule].status # "none"
      BY <2>3 DEF PublishRead, TypeOK, Row
    <2> QED
      BY <2>1, <2>2, <2>3, HandSteps
  <1> QED
    BY <1>1, <1>2

\* Every row, link, receipt and request keeps its type, whatever overlaps,
\* and no link ends before the day it starts: assigning a rule closes only
\* links that started before today.
THEOREM Typing == Spec => []TypeOK
  <1>1. Init => TypeOK /\ Known
    BY InitTypes
  <1>2. TypeOK /\ Known /\ [Next]_vars => (TypeOK /\ Known)'
    BY TypeStep, KnownStep
  <1> QED
    BY <1>1, <1>2, PTL DEF Spec

LEMMA Typed == Spec => [](TypeOK /\ Known)
  <1>1. TypeOK /\ Known /\ [Next]_vars => (TypeOK /\ Known)'
    BY TypeStep, KnownStep
  <1> QED
    BY <1>1, InitTypes, PTL DEF Spec

-----------------------------------------------------------------------------
(* Links *)

\* links of one product share no day
Apart == \A l, m \in links : \A day \in Days :
  l.product = m.product /\ Covers(l, day) /\ Covers(m, day) => l = m

\* what an assignment makes of a link
Kept(c, l) == Closed(l, {p \in client[c].products : Linkable(p, client[c].from)}, client[c].from)

\* What an assignment does to the links: each keeps its days up to the day
\* before, and a product it links has nothing else from that day on.
LEMMA Assigned ==
  ASSUME TypeOK, NEW c \in Clients, AssignSave(c)
  PROVE  /\ client[c].from \in Days
         /\ \A m \in links' :
              \/ \E l \in links :
                   /\ m.product = l.product /\ m.rule = l.rule
                   /\ m.from = l.from /\ m.to <= l.to /\ m = Kept(c, l)
              \/ /\ m.from = client[c].from /\ m.product \in Products
                 /\ m = [product |-> m.product, rule |-> client[c].rule,
                         from |-> client[c].from, to |-> Forever]
                 /\ \A k \in links' : k.product = m.product /\ k # m => k.to < client[c].from
         /\ \A l \in links : \E m \in links' :
              /\ m.product = l.product /\ m.rule = l.rule /\ m.from = l.from
              /\ \A day \in Days :
                   day < client[c].from \/ l.product \notin client[c].products =>
                     (Covers(m, day) <=> Covers(l, day))
         /\ \A m \in links' : m.product \notin client[c].products => m \in links
  <1> DEFINE h == client[c]
             ps == {p \in h.products : Linkable(p, h.from)}
             closed(l) == Kept(c, l)
             new(p) == [product |-> p, rule |-> h.rule, from |-> h.from, to |-> Forever]
  <1>1. h.rule \in Rules /\ h.products \subseteq Products /\ h.from \in Days
    BY InHand DEF AssignSave
  <1>2. links' = {closed(l) : l \in links} \cup {new(p) : p \in ps}
    BY DEF AssignSave, Kept
  <1>3. ASSUME NEW l \in links
        PROVE  /\ closed(l).product = l.product /\ closed(l).rule = l.rule
               /\ closed(l).from = l.from /\ closed(l).to <= l.to
               /\ l.product \in ps => closed(l).to < h.from
               /\ l.product \notin h.products => closed(l) = l
               /\ \A day \in Days : day < h.from => (Covers(closed(l), day) <=> Covers(l, day))
    <2>0. l.product \notin h.products => l.product \notin ps
      OBVIOUS
    <2>1. l \in Link /\ l.from <= l.to
      BY DEF TypeOK
    <2>2. l.product \in ps => IF l.to = Forever THEN l.from < h.from ELSE l.to < h.from
      BY DEF Linkable
    <2>3. CASE l.product \in ps /\ l.to = Forever
      <3>1. closed(l) = [l EXCEPT !.to = h.from - 1]
        BY <2>3 DEF Kept, Closed
      <3> HIDE DEF ps, closed
      <3> QED
        BY <1>1, <2>0, <2>1, <2>3, <3>1 DEF Link, Days, Forever, Covers
    <2>4. CASE ~(l.product \in ps /\ l.to = Forever)
      <3>1. closed(l) = l
        BY <2>4 DEF Kept, Closed
      <3> HIDE DEF ps, closed
      <3> QED
        BY <1>1, <2>1, <2>2, <2>4, <3>1 DEF Link, Days, Forever
    <2> HIDE DEF ps, closed
    <2> QED
      BY <2>3, <2>4
  <1>7. \A l : closed(l) = Kept(c, l)
    OBVIOUS
  <1> HIDE DEF closed
  <1>4. ASSUME NEW p \in ps, NEW k \in links', k.product = p, k # new(p)
        PROVE  k.to < h.from
    <2>1. CASE \E l \in links : k = closed(l)
      BY <1>3, <1>4, <2>1
    <2>2. CASE \E q \in ps : k = new(q)
      BY <1>4, <2>2
    <2> QED
      BY <1>2, <2>1, <2>2
  <1>5. ASSUME NEW m \in links'
        PROVE  \/ \E l \in links :
                   /\ m.product = l.product /\ m.rule = l.rule
                   /\ m.from = l.from /\ m.to <= l.to /\ m = Kept(c, l)
               \/ /\ m.from = h.from /\ m.product \in Products
                  /\ m = [product |-> m.product, rule |-> h.rule, from |-> h.from, to |-> Forever]
                  /\ \A k \in links' : k.product = m.product /\ k # m => k.to < h.from
    <2>1. CASE \E l \in links : m = closed(l)
      <3>1. PICK l \in links : m = closed(l)
        BY <2>1
      <3>2. /\ m.product = l.product /\ m.rule = l.rule
            /\ m.from = l.from /\ m.to <= l.to /\ m = Kept(c, l)
        BY <1>3, <1>7, <3>1
      <3> QED
        BY <3>2
    <2>2. ASSUME NEW p \in ps, m = new(p)
          PROVE  /\ m.from = h.from /\ m.product \in Products
                 /\ m = [product |-> m.product, rule |-> h.rule, from |-> h.from, to |-> Forever]
                 /\ \A k \in links' : k.product = m.product /\ k # m => k.to < h.from
      <3>1. m.product = p /\ p \in Products
        BY <1>1, <2>2
      <3> QED
        BY <1>4, <2>2, <3>1
    <2> QED
      BY <1>2, <2>1, <2>2
  <1>6. ASSUME NEW l \in links
        PROVE  \E m \in links' :
                 /\ m.product = l.product /\ m.rule = l.rule /\ m.from = l.from
                 /\ \A day \in Days :
                      day < h.from \/ l.product \notin h.products =>
                        (Covers(m, day) <=> Covers(l, day))
    <2>1. closed(l) \in links'
      BY <1>2
    <2> QED
      BY <1>3, <2>1
  <1>8. ASSUME NEW m \in links', m.product \notin h.products
        PROVE  m \in links
    <2>1. ASSUME NEW l \in links, m = closed(l) PROVE m \in links
      BY <1>3, <1>8, <2>1
    <2>2. ASSUME NEW p \in ps, m = new(p) PROVE FALSE
      BY <1>8, <2>2
    <2> QED
      BY <1>2, <2>1, <2>2
  <1> QED
    BY <1>1, <1>5, <1>6, <1>8

LEMMA LinksStep ==
  ASSUME [Next]_vars
  PROVE  UNCHANGED links \/ \E c \in Clients : AssignSave(c)
  BY DEF Next, Step, vars, Midnight, Fail, Create, EditRead, EditWrite, PublishRead, PublishSave,
         Publish, Retire, AssignCheck, ConfigRead, ConfigSave, SellRead, Freeze, SellSave

LEMMA ApartStep == TypeOK /\ TypeOK' /\ Apart /\ [Next]_vars => Apart'
  <1> SUFFICES ASSUME TypeOK, TypeOK', Apart, [Next]_vars PROVE Apart'
    OBVIOUS
  <1>1. CASE UNCHANGED links
    BY <1>1 DEF Apart
  <1>2. ASSUME NEW c \in Clients, AssignSave(c) PROVE Apart'
    <2> DEFINE from == client[c].from
               old(k, j) == /\ j.product = k.product /\ j.from = k.from /\ j.to <= k.to
                            /\ j = Kept(c, k)
               fresh(j) == /\ j.from = from
                           /\ \A k \in links' : k.product = j.product /\ k # j => k.to < from
    <2> SUFFICES ASSUME NEW l \in links', NEW m \in links', NEW day \in Days,
                        l.product = m.product, Covers(l, day), Covers(m, day)
                 PROVE  l = m
      BY DEF Apart
    <2>1. from \in Days /\ l \in Link /\ m \in Link /\ \A k \in links : k \in Link
      BY <1>2, Assigned DEF TypeOK
    <2>2. (\E k \in links : old(k, l)) \/ fresh(l)
      BY <1>2, Assigned
    <2>3. (\E k \in links : old(k, m)) \/ fresh(m)
      BY <1>2, Assigned
    <2>4. ASSUME NEW j \in links, NEW k \in links, old(j, l), old(k, m) PROVE l = m
      <3>1. /\ j.product = l.product /\ l.from = j.from /\ l.to <= j.to /\ l = Kept(c, j)
            /\ k.product = m.product /\ m.from = k.from /\ m.to <= k.to /\ m = Kept(c, k)
        BY <2>4
      <3>2. /\ l.to \in Nat /\ m.to \in Nat /\ j.to \in Nat /\ k.to \in Nat
            /\ l.from \in Nat /\ m.from \in Nat /\ day \in Nat
        BY <2>1 DEF Link, Days, Forever
      <3>3. Covers(j, day) /\ Covers(k, day)
        BY <3>1, <3>2 DEF Covers
      <3>4. j = k
        BY <3>1, <3>3 DEF Apart
      <3> QED
        BY <3>1, <3>4
    <2>5. CASE fresh(l)
      BY <2>1, <2>5 DEF Covers, Link, Days, Forever
    <2>6. CASE fresh(m)
      BY <2>1, <2>6 DEF Covers, Link, Days, Forever
    <2> QED
      BY <2>2, <2>3, <2>4, <2>5, <2>6
  <1> QED
    BY <1>1, <1>2, LinksStep

LEMMA AtMostOne == TypeOK /\ Apart => OneRuleADay
  <1> SUFFICES ASSUME TypeOK, Apart, NEW p \in Products, NEW day \in Days
               PROVE  Cardinality(On(p, day)) <= 1
    BY DEF OneRuleADay
  <1>1. \A l, m \in On(p, day) : l = m
    BY DEF On, Apart
  <1>2. CASE On(p, day) = {}
    BY <1>2, FS_EmptySet
  <1>3. CASE On(p, day) # {}
    <2>1. PICK l \in On(p, day) : TRUE
      BY <1>3
    <2>2. On(p, day) = {l}
      BY <1>1, <2>1
    <2>3. Cardinality({l}) = 1
      BY FS_Singleton
    <2> QED
      BY <2>2, <2>3
  <1> QED
    BY <1>2, <1>3

\* Whatever overlaps, and whenever midnight passes, no product is ever linked
\* to two rules on one day.
THEOREM NeverAmbiguous == Spec => []OneRuleADay
  <1>1. Init => Apart
    BY DEF Init, Apart
  <1>2. TypeOK /\ TypeOK' /\ Apart /\ [Next]_vars => Apart'
    BY ApartStep
  <1>3. TypeOK /\ Apart => OneRuleADay
    BY AtMostOne
  <1> QED
    BY <1>1, <1>2, <1>3, Typing, PTL DEF Spec

-----------------------------------------------------------------------------
(* The past *)

\* an assignment is from the day it was asked for
Punctual == \A c \in Clients : client[c].op = "assign" => client[c].from = client[c].asked

LEMMA PunctualStep == TypeOK /\ Punctual /\ [Next]_vars => Punctual'
  <1> SUFFICES ASSUME TypeOK, Punctual, [Next]_vars, NEW c \in Clients, client'[c].op = "assign"
               PROVE  client'[c].from = client'[c].asked
    BY DEF Punctual
  <1>1. ASSUME NEW r \in Rules, NEW content \in Contents,
               client'[c] = [op |-> "edit", rule |-> r, content |-> content]
        PROVE  FALSE
    <2>1. client'[c].op = "edit"
      BY <1>1
    <2> QED
      BY <2>1
  <1>2. ASSUME NEW r \in Rules,
               client'[c] = [op |-> "publish", rule |-> r, copy |-> rule[r]]
        PROVE  FALSE
    <2>1. client'[c].op = "publish"
      BY <1>2
    <2> QED
      BY <2>1
  <1>3. client'[c] = client[c] => client'[c].from = client'[c].asked
    BY DEF Punctual
  <1> QED
    BY <1>1, <1>2, <1>3, HandSteps

\* What an assignment does to the rules a product had on a day, if it was asked
\* for since that day or is of other products: nothing.
LEMMA PastKept ==
  ASSUME TypeOK, TypeOK', Punctual, NEW c \in Clients, AssignSave(c),
         NEW p \in Products, NEW day \in Days,
         client[c].asked > day \/ p \notin client[c].products
  PROVE  {l.rule : l \in On(p, day)'} = {l.rule : l \in On(p, day)}
  <1>1. client[c].from \in Days /\ client[c].from = client[c].asked
    BY InHand DEF AssignSave, Punctual
  <1>2. ASSUME NEW m \in On(p, day)'
        PROVE  \E l \in On(p, day) : m.rule = l.rule
    <2>1. m \in links' /\ m \in Link /\ m.product = p /\ Covers(m, day)
      BY DEF On, TypeOK
    <2>2. CASE p \notin client[c].products
      <3>1. m \in links
        BY <2>1, <2>2, Assigned
      <3> QED
        BY <2>1, <3>1 DEF On
    <2>3. CASE client[c].asked > day
      <3>1. m.from # client[c].from
        BY <1>1, <2>1, <2>3 DEF Covers, Link, Days
      <3>2. PICK l \in links : /\ m.product = l.product /\ m.rule = l.rule
                               /\ m.from = l.from /\ m.to <= l.to
        BY <2>1, <3>1, Assigned
      <3>3. l \in Link
        BY DEF TypeOK
      <3>4. l \in On(p, day)
        BY <2>1, <3>2, <3>3 DEF On, Covers, Link, Days, Forever
      <3> QED
        BY <3>2, <3>4
    <2> QED
      BY <2>2, <2>3
  <1>3. ASSUME NEW l \in On(p, day)
        PROVE  \E m \in On(p, day)' : m.rule = l.rule
    <2>1. l \in links /\ l.product = p /\ Covers(l, day)
      BY DEF On
    <2>2. day < client[c].from \/ l.product \notin client[c].products
      BY <1>1, <2>1 DEF Days
    <2>3. PICK m \in links' : /\ m.product = l.product /\ m.rule = l.rule
                              /\ Covers(m, day) <=> Covers(l, day)
      BY <2>1, <2>2, Assigned
    <2> QED
      BY <2>1, <2>3 DEF On, Covers
  <1> QED
    BY <1>2, <1>3

\* Whatever midnights pass between the test of an assignment's date and its
\* commit, no assignment changes what rule a product had on a day that was over
\* when it was asked for.
THEOREM PastStays == Spec => PastIsFixed
  <1> DEFINE Fixed == \A p \in Products, day \in Days :
               \/ day >= today
               \/ {l.rule : l \in On(p, day)'} = {l.rule : l \in On(p, day)}
               \/ \E c \in Clients :
                    /\ client[c].op = "assign" /\ client'[c].op = "idle"
                    /\ client[c].asked <= day /\ p \in client[c].products
  <1>1. TypeOK /\ TypeOK' /\ Punctual /\ [Next]_vars => Fixed
    <2> SUFFICES ASSUME TypeOK, TypeOK', Punctual, [Next]_vars,
                        NEW p \in Products, NEW day \in Days,
                        ~\E c \in Clients :
                           /\ client[c].op = "assign" /\ client'[c].op = "idle"
                           /\ client[c].asked <= day /\ p \in client[c].products
                 PROVE  {l.rule : l \in On(p, day)'} = {l.rule : l \in On(p, day)}
      OBVIOUS
    <2>1. CASE UNCHANGED links
      BY <2>1 DEF On
    <2>2. ASSUME NEW c \in Clients, AssignSave(c)
          PROVE  {l.rule : l \in On(p, day)'} = {l.rule : l \in On(p, day)}
      <3>1. client[c].op = "assign" /\ client'[c].op = "idle"
        BY <2>2 DEF AssignSave, End, TypeOK
      <3>2. client[c].asked \in Days
        BY <3>1, InHand
      <3>3. client[c].asked > day \/ p \notin client[c].products
        BY <3>1, <3>2 DEF Days
      <3> QED
        BY <2>2, <3>3, PastKept
    <2> QED
      BY <2>1, <2>2, LinksStep
  <1>2. Init => Punctual
    BY DEF Init, Punctual
  <1>3. TypeOK /\ Punctual /\ [Next]_vars => Punctual'
    BY PunctualStep
  <1> QED
    BY <1>1, <1>2, <1>3, Typing, PTL DEF Spec, PastIsFixed

-----------------------------------------------------------------------------
(* Receipts *)

Final(row) == row.status \in {"published", "retired"}

\* the copy a publication relies on is older than the row, or is the row's content
Stamped == \A c \in Clients : client[c].op = "publish" =>
  LET row == rule[client[c].rule]
  IN  /\ client[c].copy.updated_at <= row.updated_at
      /\ client[c].copy.updated_at = row.updated_at => client[c].copy.content = row.content

\* evidence points at a rule that is published or was, and says what it says
\* unless an edit came after the publication
Backed(rows, edited, day, evidence) ==
  evidence # Nothing =>
    /\ evidence.rule \in Rules /\ Final(rows[evidence.rule])
    /\ evidence.rule \in edited \/ evidence.content = rows[evidence.rule].content
    /\ Covers(evidence.content.column, day)

Collected == \A c \in Clients : client[c].op = "sell" =>
  \A p \in DOMAIN client[c].frozen : Backed(rule, overwritten, client[c].day, client[c].frozen[p])

Filed == \A s \in Sales : sold[s] # Nothing =>
  \A p \in Basket[s] :
    /\ Backed(rule, overwritten, sold[s].day, sold[s].frozen[p])
    /\ sold[s].mode = "block" => sold[s].frozen[p] # Nothing

Reviewing == Frozen /\ Stamped /\ Collected /\ Filed

LEMMA ReviewingSuffices == Reviewing => SoldAsReviewed
  BY DEF Reviewing, SoldAsReviewed, Frozen, Filed, Backed, Final, Proven

LEMMA MoreOverwritten == ASSUME [Next]_vars PROVE overwritten \subseteq overwritten'
  BY DEF Next, Step, vars, rules, Midnight, Fail, Create, EditRead, EditWrite, PublishRead,
         PublishSave, Publish, Retire, AssignCheck, AssignSave, ConfigRead, ConfigSave,
         SellRead, Freeze, SellSave

\* The row of a rule that is no longer a draft stays so, and keeps what was
\* approved; and its content, unless an edit has come after the publication.
LEMMA FixedStays ==
  ASSUME TypeOK, Known, [Next]_vars, NEW r \in Rules, Final(rule[r])
  PROVE  /\ Final(rule'[r]) /\ approved'[r] = approved[r]
         /\ r \notin overwritten' => rule'[r].content = rule[r].content
  <1>1. ASSUME NEW c \in Clients, EditWrite(c), client[c].rule = r
        PROVE  r \in overwritten'
    BY <1>1 DEF EditWrite, Final
  <1>2. ~\E c \in Clients : PublishSave(c) /\ client[c].rule = r
    BY DEF PublishSave, Publishable, Final
  <1>3. rule[r] # NoRule
    BY DEF Final, NoRule
  <1> QED
    BY <1>1, <1>2, <1>3, RowSteps DEF Final

LEMMA BackedStays ==
  ASSUME TypeOK, Known, [Next]_vars, NEW day, NEW e, Backed(rule, overwritten, day, e)
  PROVE  Backed(rule', overwritten', day, e)
  BY FixedStays, MoreOverwritten DEF Backed

LEMMA FrozenStep == TypeOK /\ Known /\ Reviewing /\ [Next]_vars => Frozen'
  <1> SUFFICES ASSUME TypeOK, Known, Reviewing, [Next]_vars,
                      NEW r \in Rules, r \notin overwritten', Final(rule'[r])
               PROVE  rule'[r].content = approved'[r]
    BY DEF Frozen, Final
  <1>0. r \notin overwritten
    BY MoreOverwritten
  <1>1. CASE Final(rule[r])
    BY <1>0, <1>1, FixedStays DEF Reviewing, Frozen, Final
  <1>2. ASSUME ~Final(rule[r]), NEW c \in Clients, PublishSave(c), client[c].rule = r,
               rule'[r].content = rule[r].content, approved'[r] = client[c].copy.content
        PROVE  rule'[r].content = approved'[r]
    BY <1>2 DEF PublishSave, Reviewing, Stamped
  <1> QED
    BY <1>1, <1>2, RowSteps DEF Final

LEMMA StampedStep == TypeOK /\ Known /\ Reviewing /\ [Next]_vars => Stamped'
  <1> SUFFICES ASSUME TypeOK, Known, Reviewing, [Next]_vars,
                      NEW c \in Clients, client'[c].op = "publish"
               PROVE  LET row == rule'[client'[c].rule]
                          copy == client'[c].copy
                      IN  /\ copy.updated_at <= row.updated_at
                          /\ copy.updated_at = row.updated_at => copy.content = row.content
    BY DEF Stamped
  <1>1. CASE client'[c] = client[c]
    <2> DEFINE r == client[c].rule
               copy == client[c].copy
    <2>1. client[c].op = "publish" /\ r \in Rules /\ copy \in Row
      BY <1>1, InHand
    <2>2. rule[r].status # "none" /\ rule[r] \in Row
      BY <2>1, RowTypes DEF Known
    <2>3. /\ copy.updated_at <= rule[r].updated_at
          /\ copy.updated_at = rule[r].updated_at => copy.content = rule[r].content
      BY <2>1 DEF Reviewing, Stamped
    <2>4. rule'[r] = rule[r] \/ rule'[r].updated_at = rule[r].updated_at + 1
      BY <2>1, <2>2, RowSteps DEF NoRule
    <2>5. copy.updated_at \in Nat /\ rule[r].updated_at \in Nat
      BY <2>1, <2>2 DEF Row
    <2>6. /\ copy.updated_at <= rule'[r].updated_at
          /\ copy.updated_at = rule'[r].updated_at => copy.content = rule'[r].content
      BY <2>3, <2>4, <2>5
    <2> QED
      BY <1>1, <2>6
  <1>2. ASSUME NEW r \in Rules, PublishRead(c, r),
               client'[c] = [op |-> "publish", rule |-> r, copy |-> rule[r]]
        PROVE  /\ client'[c].rule = r /\ client'[c].copy = rule'[r]
               /\ rule'[r].updated_at \in Nat
    <2>1. rule' = rule /\ rule[r].updated_at \in Nat
      BY <1>2, RowTypes DEF PublishRead, rules, Row, TypeOK, NoRule
    <2> QED
      BY <1>2, <2>1
  <1>3. ASSUME NEW r \in Rules, NEW content \in Contents,
               client'[c] = [op |-> "edit", rule |-> r, content |-> content]
        PROVE  FALSE
    <2>1. client'[c].op = "edit"
      BY <1>3
    <2> QED
      BY <2>1
  <1>4. CASE \E r \in Rules :
               PublishRead(c, r) /\ client'[c] = [op |-> "publish", rule |-> r, copy |-> rule[r]]
    BY <1>2, <1>4
  <1>5. \/ client'[c] = client[c]
        \/ \E r \in Rules :
             PublishRead(c, r) /\ client'[c] = [op |-> "publish", rule |-> r, copy |-> rule[r]]
    BY <1>3, HandSteps
  <1> QED
    BY <1>1, <1>4, <1>5

\* A valid rule is one that is published, and in force on that day.
LEMMA ValidBacked ==
  ASSUME TypeOK, NEW p \in Products, NEW day, NEW l \in Valid(p, day)
  PROVE  Backed(rule, overwritten, day, [rule |-> l.rule, content |-> rule[l.rule].content])
  BY ValidTypes DEF Backed, Final, Published

LEMMA CollectedStep == TypeOK /\ Known /\ Reviewing /\ [Next]_vars => Collected'
  <1> SUFFICES ASSUME TypeOK, Known, Reviewing, [Next]_vars, NEW c \in Clients,
                      client'[c].op = "sell", NEW p \in DOMAIN client'[c].frozen
               PROVE  Backed(rule', overwritten', client'[c].day, client'[c].frozen[p])
    BY DEF Collected
  <1>1. CASE client'[c] = client[c]
    <2>1. Backed(rule, overwritten, client[c].day, client[c].frozen[p])
      BY <1>1 DEF Reviewing, Collected
    <2>2. Backed(rule', overwritten', client[c].day, client[c].frozen[p])
      BY <2>1, BackedStays
    <2> QED
      BY <1>1, <2>2
  <1>2. ASSUME client[c].op = "sell", client'[c].day = client[c].day, UNCHANGED rules,
               NEW q \in Products,
               DOMAIN client'[c].frozen = DOMAIN client[c].frozen \cup {q},
               \A x \in DOMAIN client[c].frozen \ {q} :
                 client'[c].frozen[x] = client[c].frozen[x],
               client'[c].frozen[q] # Nothing => \E l \in Valid(q, client[c].day) :
                 client'[c].frozen[q] = [rule |-> l.rule, content |-> rule[l.rule].content]
        PROVE  Backed(rule', overwritten', client'[c].day, client'[c].frozen[p])
    <2>1. rule' = rule /\ overwritten' = overwritten
      BY <1>2 DEF rules
    <2>2. CASE p # q
      <3>1. Backed(rule, overwritten, client[c].day, client[c].frozen[p])
        BY <1>2, <2>2 DEF Reviewing, Collected
      <3> QED
        BY <1>2, <2>1, <2>2, <3>1
    <2>3. CASE p = q /\ client'[c].frozen[q] # Nothing
      <3>1. PICK l \in Valid(q, client[c].day) :
              client'[c].frozen[q] = [rule |-> l.rule, content |-> rule[l.rule].content]
        BY <1>2, <2>3
      <3>2. Backed(rule, overwritten, client[c].day, [rule |-> l.rule, content |-> rule[l.rule].content])
        BY ValidBacked
      <3> QED
        BY <1>2, <2>1, <2>3, <3>1, <3>2
    <2>4. CASE p = q /\ client'[c].frozen[q] = Nothing
      BY <2>4 DEF Backed
    <2> QED
      BY <2>2, <2>3, <2>4
  <1>3. ASSUME NEW r \in Rules, NEW content \in Contents,
               client'[c] = [op |-> "edit", rule |-> r, content |-> content]
        PROVE  FALSE
    <2>1. client'[c].op = "edit"
      BY <1>3
    <2> QED
      BY <2>1
  <1>4. ASSUME NEW r \in Rules,
               client'[c] = [op |-> "publish", rule |-> r, copy |-> rule[r]]
        PROVE  FALSE
    <2>1. client'[c].op = "publish"
      BY <1>4
    <2> QED
      BY <2>1
  <1> QED
    BY <1>1, <1>2, <1>3, <1>4, HandSteps

\* The receipts a step leaves alone, and the one it may add.
LEMMA SoldSteps ==
  ASSUME TypeOK, [Next]_vars, NEW s \in Sales
  PROVE  \/ sold'[s] = sold[s]
         \/ \E c \in Clients :
              /\ SellSave(c) /\ client[c].sale = s
              /\ sold'[s] = [day |-> client[c].day, mode |-> client[c].mode,
                             frozen |-> client[c].frozen]
  <1>1. CASE UNCHANGED sold
    BY <1>1
  <1>2. ASSUME NEW c \in Clients, SellSave(c)
        PROVE  \/ sold'[s] = sold[s]
               \/ /\ client[c].sale = s
                  /\ sold'[s] = [day |-> client[c].day, mode |-> client[c].mode,
                                 frozen |-> client[c].frozen]
    BY <1>2 DEF SellSave, TypeOK
  <1> QED
    BY <1>1, <1>2 DEF Next, Step, vars, rules, Midnight, Fail, Create, EditRead, EditWrite,
       PublishRead, PublishSave, Publish, Retire, AssignCheck, AssignSave, ConfigRead, ConfigSave,
       SellRead, Freeze

LEMMA FiledStep == TypeOK /\ Known /\ Reviewing /\ [Next]_vars => Filed'
  <1> SUFFICES ASSUME TypeOK, Known, Reviewing, [Next]_vars, NEW s \in Sales,
                      sold'[s] # Nothing, NEW p \in Basket[s]
               PROVE  /\ Backed(rule', overwritten', sold'[s].day, sold'[s].frozen[p])
                      /\ sold'[s].mode = "block" => sold'[s].frozen[p] # Nothing
    BY DEF Filed
  <1>1. CASE sold'[s] = sold[s]
    <2>1. /\ Backed(rule, overwritten, sold[s].day, sold[s].frozen[p])
          /\ sold[s].mode = "block" => sold[s].frozen[p] # Nothing
      BY <1>1 DEF Reviewing, Filed
    <2>2. Backed(rule', overwritten', sold[s].day, sold[s].frozen[p])
      BY <2>1, BackedStays
    <2> QED
      BY <1>1, <2>1, <2>2
  <1>2. ASSUME NEW c \in Clients, SellSave(c), client[c].sale = s,
               sold'[s] = [day |-> client[c].day, mode |-> client[c].mode,
                           frozen |-> client[c].frozen]
        PROVE  /\ Backed(rule', overwritten', sold'[s].day, sold'[s].frozen[p])
               /\ sold'[s].mode = "block" => sold'[s].frozen[p] # Nothing
    <2>1. p \in DOMAIN client[c].frozen /\ client[c].op = "sell"
      BY <1>2 DEF SellSave
    <2>2. Backed(rule, overwritten, client[c].day, client[c].frozen[p])
      BY <2>1 DEF Reviewing, Collected
    <2>3. Backed(rule', overwritten', client[c].day, client[c].frozen[p])
      BY <2>2, BackedStays
    <2>4. client[c].mode = "block" => client[c].frozen[p] # Nothing
      BY <1>2, <2>1 DEF SellSave
    <2> QED
      BY <1>2, <2>3, <2>4
  <1> QED
    BY <1>1, <1>2, SoldSteps

LEMMA ReviewingInit == Init => Reviewing
  BY DEF Init, Reviewing, Frozen, Stamped, Collected, Filed, NoRule

\* Whatever is edited, published, linked or retired while a receipt is on its
\* way: the evidence on its lines is of a rule in force that day and is what was
\* approved, unless an edit that had found a draft was written over that rule
\* after its publication; a sale in block mode has evidence on every line; and
\* a rule that is no draft, and was not so overwritten, says what was approved.
THEOREM Reviewed == Spec => []SoldAsReviewed
  <1>1. TypeOK /\ Known /\ Reviewing /\ [Next]_vars => Reviewing'
    BY FrozenStep, StampedStep, CollectedStep, FiledStep DEF Reviewing
  <1> QED
    BY <1>1, ReviewingInit, ReviewingSuffices, Typed, PTL DEF Spec

=============================================================================
