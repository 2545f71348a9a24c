----------------------------- MODULE BillingProofs -----------------------------
(***************************************************************************)
(* What holds of Billing for every number of products, keys, rows and days. *)
(* The inductive invariant BillingInv, at the end, is a conjunction whose   *)
(* parts are shown one by one: the types, the keys and the places of the    *)
(* rows (Typed), which rows each way to pay writes (Linked), the invoices   *)
(* of one subscription (Bills), the row a contract has tested (Todays), the *)
(* trial (Trials), what was charged and heard of it (Dated), the order of   *)
(* the webhooks (InOrder), what falls into a session (Undisturbed), and     *)
(* what a charge is worth (Kept, Covered).                                  *)
(***************************************************************************)
EXTENDS Billing, FiniteSetTheorems, SequenceTheorems, NaturalsInduction, WellFoundedInduction, TLAPS


-----------------------------------------------------------------------------
(* Sets of row numbers *)

\* a set of naturals that is not empty has a least element
LEMMA LeastOf ==
  ASSUME NEW T \in SUBSET Nat, T # {}
  PROVE  \E x \in T : \A y \in T : x <= y
<1>1. PICK x \in T : \A y \in T : ~(<<y, x>> \in OpToRel(<, Nat))
  BY NatLessThanWellFounded, WFMin, Zenon
<1>2. \A y \in T : ~(y < x)
  BY <1>1 DEF OpToRel
<1> QED
  BY <1>2

\* one with a bound has a greatest
LEMMA GreatestOf ==
  ASSUME NEW n \in Nat, NEW S, \A x \in S : x \in 0 .. n, S # {}
  PROVE  \E m \in S : \A x \in S : x <= m
<1> DEFINE T == {n - x : x \in S}
<1>0. \A x \in S : n - x \in Nat
  OBVIOUS
<1>1. T \in SUBSET Nat /\ T # {}
  BY <1>0
<1>2. PICK t \in T : \A y \in T : t <= y
  BY <1>1, LeastOf
<1>3. PICK m \in S : t = n - m
  BY <1>2
<1>4. \A x \in S : n - m <= n - x
  BY <1>2, <1>3
<1>5. \A x \in S : x <= m
  BY <1>4
<1> QED
  BY <1>3, <1>5

Below(S, t) == {u \in S : u < t}

\* a set of k row numbers has one with n - 1 before it, for every n up to k
LEMMA Ranked ==
  ASSUME NEW N \in Nat, NEW S \in SUBSET (1 .. N), NEW n \in 1 .. Cardinality(S)
  PROVE  \E t \in S : Cardinality(Below(S, t)) = n - 1
<1> DEFINE T == {t \in S : Cardinality(Below(S, t)) >= n - 1}
<1>1. \A t \in S : t \in Nat /\ t \in 1 .. N
  OBVIOUS
<1>2. IsFiniteSet(S) /\ Cardinality(S) \in Nat
  <2>1. IsFiniteSet(1 .. N)
    BY FS_Interval
  <2> QED
    BY <2>1, FS_Subset, FS_CardinalityType
<1>3. ASSUME NEW t \in S
      PROVE  IsFiniteSet(Below(S, t)) /\ Cardinality(Below(S, t)) \in Nat
  <2>1. Below(S, t) \in SUBSET S
    BY DEF Below
  <2> QED
    BY <1>2, <2>1, FS_Subset, FS_CardinalityType
<1>4. ASSUME NEW t \in S, Below(S, t) # {}
      PROVE  \E b \in S : b < t /\ Cardinality(Below(S, b)) = Cardinality(Below(S, t)) - 1
  <2>1. \A x \in Below(S, t) : x \in 0 .. N
    BY <1>1 DEF Below
  <2>2. PICK b \in Below(S, t) : \A x \in Below(S, t) : x <= b
    BY <1>4, <2>1, GreatestOf
  <2>3. Below(S, b) = Below(S, t) \ {b}
    <3>1. b \in S /\ b < t /\ \A x \in S : x < t => x <= b
      BY <2>2 DEF Below
    <3>2. \A x \in S : x < b <=> x < t /\ x # b
      BY <1>1, <3>1
    <3> QED
      BY <3>2 DEF Below
  <2>4. b \in S /\ b < t
    BY <2>2 DEF Below
  <2>5. Cardinality(Below(S, t) \ {b}) = Cardinality(Below(S, t)) - 1
    BY <1>3, <2>2, FS_RemoveElement
  <2> QED
    BY <2>3, <2>4, <2>5
<1>5. T # {}
  <2>1. S # {}
    BY FS_EmptySet, n \in 1 .. Cardinality(S)
  <2>2. \A x \in S : x \in 0 .. N
    BY <1>1
  <2>3. PICK m \in S : \A x \in S : x <= m
    BY <2>1, <2>2, GreatestOf
  <2>4. Below(S, m) = S \ {m}
    <3>1. \A x \in S : x < m <=> x # m
      BY <1>1, <2>3
    <3> QED
      BY <3>1 DEF Below
  <2>5. Cardinality(S \ {m}) = Cardinality(S) - 1
    BY <1>2, FS_RemoveElement
  <2> QED
    <3>1. Cardinality(Below(S, m)) = Cardinality(S) - 1
      BY <2>4, <2>5
    <3>2. Cardinality(Below(S, m)) >= n - 1
      BY <1>2, <3>1
    <3> QED
      BY <3>2
<1>6. PICK t \in T : \A y \in T : t <= y
  <2>1. T \subseteq S /\ S \subseteq Nat
    BY <1>1
  <2> QED
    BY <1>5, <2>1, LeastOf
<1>7. Cardinality(Below(S, t)) \in Nat /\ t \in S
  BY <1>3, <1>6
<1>8. CASE Cardinality(Below(S, t)) > n - 1
  <2>1. Below(S, t) # {}
    BY <1>8, FS_EmptySet, n \in 1 .. Cardinality(S)
  <2>2. PICK b \in S : b < t /\ Cardinality(Below(S, b)) = Cardinality(Below(S, t)) - 1
    BY <1>4, <1>7, <2>1
  <2>3. b \in T
    BY <1>2, <1>7, <1>8, <2>2
  <2> QED
    BY <1>1, <1>6, <1>7, <2>2, <2>3
<1> QED
  BY <1>2, <1>6, <1>7, <1>8

-----------------------------------------------------------------------------
(* Types *)

\* each key is taken once, and that of a contract given up is its row's own
RowsApart ==
  /\ \A s, t \in DOMAIN subs : subs[s].key = subs[t].key => s = t
  /\ \A s \in DOMAIN subs, n \in Nat : subs[s].key = <<"closed", n>> => n = s

Typed == TypeOK /\ RowsApart

\* what a row is written into keeps the order of the others
LEMMA LatestOrders ==
  ASSUME TypeOK, NEW S \in SUBSET DOMAIN subs, \A a, b \in S : a = b
  PROVE  /\ Latest(S) \in Seq(DOMAIN subs) /\ Len(Latest(S)) = Len(subs)
         /\ DOMAIN Latest(S) = DOMAIN subs
         /\ \A a, b \in DOMAIN subs : Latest(S)[a] = Latest(S)[b] => a = b
         /\ \A a, b \in DOMAIN subs \ S : recent[a] < recent[b] => Latest(S)[a] < Latest(S)[b]
         /\ \A a \in S, b \in DOMAIN subs \ S : Latest(S)[b] < Latest(S)[a]
<1> DEFINE n == Len(subs)
<1>1. n \in Nat /\ DOMAIN subs = 1 .. n /\ DOMAIN recent = 1 .. n /\ Len(recent) = n
  BY LenProperties DEF TypeOK
<1>2. \A t \in 1 .. n : recent[t] \in 1 .. n
  <2>1. recent \in Seq(1 .. n)
    BY <1>1 DEF TypeOK
  <2> QED
    BY <1>1, <2>1, ElementOfSeq
<1>3. \A a, b \in 1 .. n : recent[a] = recent[b] => a = b
  BY <1>1 DEF TypeOK
<1> HIDE DEF n
<1>4. DOMAIN Latest(S) = 1 .. n
  BY <1>1 DEF Latest
<1>5. \A t \in 1 .. n : Latest(S)[t] =
        IF t \in S THEN n ELSE IF \E s \in S : recent[s] < recent[t] THEN recent[t] - 1 ELSE recent[t]
  BY <1>1 DEF Latest
<1>5a. \A t \in 1 .. n : recent[t] \in Int /\ 1 <= recent[t] /\ recent[t] <= n
  BY <1>1, <1>2
<1>5b. ASSUME NEW s \in S, NEW t \in (1 .. n) \ S
       PROVE  /\ recent[s] < recent[t] => Latest(S)[t] = recent[t] - 1
              /\ recent[t] < recent[s] => Latest(S)[t] = recent[t]
              /\ recent[s] < recent[t] \/ recent[t] < recent[s]
  <2>1. \A u \in S : u = s
    OBVIOUS
  <2>2. s \in 1 .. n /\ s # t
    BY <1>1
  <2>3. recent[s] \in Int /\ recent[t] \in Int /\ recent[s] # recent[t]
    BY <1>3, <1>5a, <2>2
  <2>4. recent[t] < recent[s] => ~(recent[s] < recent[t])
    BY <2>3
  <2> QED
    BY <1>5, <2>1, <2>3, <2>4
<1>5c. ASSUME S = {}, NEW t \in 1 .. n PROVE Latest(S)[t] = recent[t]
  BY <1>5, <1>5c
<1>6. ASSUME NEW t \in 1 .. n PROVE Latest(S)[t] \in 1 .. n
  <2>1. CASE t \in S
    BY <1>1, <1>5, <2>1
  <2>2. CASE t \notin S /\ S # {}
    <3>1. PICK s \in S : TRUE
      BY <2>2
    <3>2. s \in 1 .. n
      BY <1>1
    <3> QED
      <4>1. CASE recent[s] < recent[t]
        <5>1. Latest(S)[t] = recent[t] - 1
          BY <1>5b, <2>2, <3>1, <4>1
        <5>2. recent[t] \in Int /\ recent[s] \in Int /\ 1 <= recent[s] /\ recent[t] <= n
          BY <1>5a, <3>2
        <5>3. recent[t] - 1 \in 1 .. n
          BY <1>1, <4>1, <5>2
        <5> QED
          BY <5>1, <5>3
      <4>2. CASE recent[t] < recent[s]
        BY <1>2, <1>5b, <2>2, <3>1, <4>2
      <4> QED
        BY <1>5b, <2>2, <3>1, <4>1, <4>2
  <2> QED
    BY <1>2, <1>5c, <2>1, <2>2
<1>7. Latest(S) \in [1 .. n -> 1 .. n]
  BY <1>4, <1>6 DEF Latest
<1>8. Latest(S) \in Seq(1 .. n) /\ Len(Latest(S)) = n
  BY <1>1, <1>4, <1>7, SeqDef, LenProperties
<1>9. ASSUME NEW a \in (1 .. n) \ S, NEW b \in (1 .. n) \ S, recent[a] < recent[b]
      PROVE  Latest(S)[a] < Latest(S)[b]
  <2>1. CASE S # {}
    <3>1. PICK s \in S : TRUE
      BY <2>1
    <3>2. s \in 1 .. n
      BY <1>1
    <3> QED
      BY <1>5a, <1>5b, <1>9, <3>1, <3>2
  <2> QED
    BY <1>5c, <1>9, <2>1
<1>10. ASSUME NEW a \in S, NEW b \in (1 .. n) \ S PROVE Latest(S)[b] < Latest(S)[a]
  <2>1. a \in 1 .. n /\ Latest(S)[a] = n
    BY <1>1, <1>5
  <2> QED
    <3>1. CASE recent[a] < recent[b]
      <4>1. Latest(S)[b] = recent[b] - 1
        BY <1>5b, <3>1
      <4> QED
        BY <1>1, <1>5a, <2>1, <4>1
    <3>2. CASE recent[b] < recent[a]
      <4>1. Latest(S)[b] = recent[b]
        BY <1>5b, <3>2
      <4> QED
        BY <1>1, <1>5a, <2>1, <3>2, <4>1
    <3> QED
      BY <1>5b, <3>1, <3>2
<1>11. \A a, b \in 1 .. n : Latest(S)[a] = Latest(S)[b] => a = b
  <2>. SUFFICES ASSUME NEW a \in 1 .. n, NEW b \in 1 .. n, Latest(S)[a] = Latest(S)[b], a # b
                PROVE  FALSE
    OBVIOUS
  <2>1. CASE a \in S \/ b \in S
    BY <1>1, <1>6, <1>10, <2>1
  <2>2. CASE a \notin S /\ b \notin S
    <3>1. recent[a] < recent[b] \/ recent[b] < recent[a]
      BY <1>2, <1>3
    <3> QED
      BY <1>6, <1>9, <2>2, <3>1
  <2> QED
    BY <2>1, <2>2
<1> QED
  BY <1>1, <1>4, <1>8, <1>9, <1>10, <1>11 DEF n

\* one row is written
Saved(s, r) ==
  /\ subs' \in Seq(SubRows) /\ Len(subs') = Len(subs) /\ DOMAIN subs' = DOMAIN subs
  /\ subs'[s] = r
  /\ \A t \in DOMAIN subs \ {s} : subs'[t] = subs[t]
  /\ recent' \in Seq(DOMAIN subs) /\ Len(recent') = Len(subs)
  /\ \A a, b \in DOMAIN subs : recent'[a] = recent'[b] => a = b
  /\ \A a, b \in DOMAIN subs \ {s} : recent[a] < recent[b] => recent'[a] < recent'[b]
  /\ \A b \in DOMAIN subs \ {s} : recent'[b] < recent'[s]

LEMMA RowSaved ==
  ASSUME TypeOK, NEW s \in DOMAIN subs, NEW r \in SubRows, subs' = [subs EXCEPT ![s] = r], Touch(s)
  PROVE  Saved(s, r)
<1>1. subs \in Seq(SubRows) /\ DOMAIN subs = 1 .. Len(subs)
  BY LenProperties DEF TypeOK
<1>2. /\ subs' \in Seq(SubRows) /\ Len(subs') = Len(subs)
      /\ \A t \in 1 .. Len(subs) : subs'[t] = IF t = s THEN r ELSE subs[t]
  BY <1>1, ExceptSeq
<1>3. DOMAIN subs' = DOMAIN subs
  BY <1>1, <1>2, LenProperties
<1>4. recent' = Latest({s})
  BY DEF Touch
<1> QED
  BY <1>1, <1>2, <1>3, <1>4, LatestOrders DEF Saved

\* a row is added, another one may be written
Added(S, rest, row) ==
  /\ subs' \in Seq(SubRows) /\ Len(subs') = Len(subs) + 1
  /\ DOMAIN subs' = DOMAIN subs \cup {Len(subs) + 1} /\ Len(subs) + 1 \notin DOMAIN subs
  /\ subs'[Len(subs) + 1] = row
  /\ \A t \in DOMAIN subs : subs'[t] = rest[t]
  /\ recent' \in Seq(DOMAIN subs') /\ Len(recent') = Len(subs')
  /\ \A a, b \in DOMAIN subs' : recent'[a] = recent'[b] => a = b
  /\ \A a, b \in DOMAIN subs \ S : recent[a] < recent[b] => recent'[a] < recent'[b]
  /\ \A a \in S, b \in DOMAIN subs \ S : recent'[b] < recent'[a]
  /\ \A b \in DOMAIN subs : recent'[b] < recent'[Len(subs) + 1]
  /\ card' \in Seq(Cards) /\ Len(card') = Len(subs')
  /\ card'[Len(subs) + 1] = NewCard
  /\ \A t \in DOMAIN subs : card'[t] = card[t]

LEMMA RowAdded ==
  ASSUME TypeOK, NEW rest \in Seq(SubRows), Len(rest) = Len(subs), NEW row \in SubRows,
         NEW S \in SUBSET DOMAIN subs, \A a, b \in S : a = b,
         \A t \in DOMAIN subs \ S : rest[t] = subs[t],
         \A t \in S : rest[t] # subs[t],
         AddSub(rest, row)
  PROVE  Added(S, rest, row)
<1> DEFINE n == Len(subs)
<1>1. n \in Nat /\ DOMAIN subs = 1 .. n /\ DOMAIN rest = 1 .. n
  BY LenProperties DEF TypeOK
<1>2. {s \in DOMAIN subs : rest[s] # subs[s]} = S
  OBVIOUS
<1>3. recent' = Append(Latest(S), n + 1) /\ subs' = Append(rest, row) /\ card' = Append(card, NewCard)
  BY <1>2 DEF AddSub
<1> HIDE DEF n
<1>4. /\ subs' \in Seq(SubRows) /\ Len(subs') = n + 1 /\ subs'[n + 1] = row
      /\ \A t \in 1 .. n : subs'[t] = rest[t]
  BY <1>1, <1>3, AppendProperties DEF n
<1>5. DOMAIN subs' = 1 .. n + 1
  BY <1>4, LenProperties
<1>6. NewCard \in Cards
  BY DEF NewCard, Cards, NoDate
<1>7. /\ card' \in Seq(Cards) /\ Len(card') = n + 1 /\ card'[n + 1] = NewCard
      /\ \A t \in 1 .. n : card'[t] = card[t]
  <2>1. card \in Seq(Cards) /\ Len(card) = n
    BY DEF n, TypeOK
  <2> QED
    BY <1>1, <1>3, <1>6, <2>1, AppendProperties
<1>8. /\ Latest(S) \in Seq(1 .. n) /\ Len(Latest(S)) = n
      /\ \A a, b \in 1 .. n : Latest(S)[a] = Latest(S)[b] => a = b
      /\ \A a, b \in (1 .. n) \ S : recent[a] < recent[b] => Latest(S)[a] < Latest(S)[b]
      /\ \A a \in S, b \in (1 .. n) \ S : Latest(S)[b] < Latest(S)[a]
  BY <1>1, LatestOrders DEF n
<1>9. Latest(S) \in Seq(1 .. n + 1)
  BY <1>1, <1>8, SeqMonotonic
<1>10. /\ recent' \in Seq(1 .. n + 1) /\ Len(recent') = n + 1 /\ recent'[n + 1] = n + 1
       /\ \A t \in 1 .. n : recent'[t] = Latest(S)[t]
  BY <1>1, <1>3, <1>8, <1>9, AppendProperties
<1>11. \A t \in 1 .. n : recent'[t] \in 1 .. n
  BY <1>8, <1>10, ElementOfSeq
<1>12. \A a, b \in 1 .. n + 1 : recent'[a] = recent'[b] => a = b
  BY <1>1, <1>8, <1>10, <1>11
<1>13. \A b \in 1 .. n : recent'[b] < recent'[n + 1]
  BY <1>1, <1>10, <1>11
<1>14. \A a, b \in (1 .. n) \ S : recent[a] < recent[b] => recent'[a] < recent'[b]
  BY <1>1, <1>8, <1>10, Zenon
<1>15. \A a \in S, b \in (1 .. n) \ S : recent'[b] < recent'[a]
  <2>1. \A a \in S : a \in 1 .. n
    BY <1>1
  <2> QED
    BY <1>8, <1>10, <2>1, Zenon
<1> QED
  BY <1>1, <1>4, <1>5, <1>7, <1>10, <1>12, <1>13, <1>14, <1>15 DEF n, Added

\* what TypeOK says of one element
LEMMA Elements ==
  ASSUME TypeOK
  PROVE  /\ Len(subs) \in Nat /\ DOMAIN subs = 1 .. Len(subs)
         /\ DOMAIN recent = DOMAIN subs /\ DOMAIN card = DOMAIN subs
         /\ \A s \in DOMAIN subs : subs[s] \in SubRows /\ card[s] \in Cards
         /\ Len(invoices) \in Nat /\ DOMAIN invoices = 1 .. Len(invoices)
         /\ DOMAIN payment = DOMAIN invoices
         /\ \A i \in DOMAIN invoices :
              invoices[i] \in InvoiceRows /\ payment[i] \in Payments /\ invoices[i].sub \in DOMAIN subs
         /\ Len(mail) \in Nat /\ DOMAIN mail = 1 .. Len(mail)
         /\ \A m \in DOMAIN mail : mail[m] \in Mails /\ mail[m].of \in DOMAIN subs
         /\ \A s \in DOMAIN subs : \A t \in DOMAIN subs : recent[s] = recent[t] => s = t
<1>1. Len(subs) \in Nat /\ DOMAIN subs = 1 .. Len(subs)
  BY LenProperties DEF TypeOK
<1>2. DOMAIN recent = DOMAIN subs /\ DOMAIN card = DOMAIN subs
  BY <1>1, LenProperties DEF TypeOK
<1>3. \A s \in DOMAIN subs : subs[s] \in SubRows
  BY <1>1, ElementOfSeq DEF TypeOK
<1>4. \A s \in DOMAIN subs : card[s] \in Cards
  BY <1>1, ElementOfSeq DEF TypeOK
<1>5. Len(invoices) \in Nat /\ DOMAIN invoices = 1 .. Len(invoices) /\ DOMAIN payment = DOMAIN invoices
  BY LenProperties DEF TypeOK
<1>6. \A i \in DOMAIN invoices : invoices[i] \in InvoiceRows
  BY <1>5, ElementOfSeq DEF TypeOK
<1>7. \A i \in DOMAIN invoices : payment[i] \in Payments
  BY <1>5, ElementOfSeq DEF TypeOK
<1>8. Len(mail) \in Nat /\ DOMAIN mail = 1 .. Len(mail)
  BY LenProperties DEF TypeOK
<1>9. \A m \in DOMAIN mail : mail[m] \in Mails
  BY <1>8, ElementOfSeq DEF TypeOK
<1> QED
  BY <1>1, <1>2, <1>3, <1>4, <1>5, <1>6, <1>7, <1>8, <1>9 DEF TypeOK

\* one invoice is written
Marked(i, v) ==
  /\ invoices' \in Seq(InvoiceRows) /\ Len(invoices') = Len(invoices) /\ DOMAIN invoices' = DOMAIN invoices
  /\ invoices'[i] = v
  /\ \A j \in DOMAIN invoices \ {i} : invoices'[j] = invoices[j]

LEMMA BillMarked ==
  ASSUME TypeOK, NEW i \in DOMAIN invoices, NEW v \in InvoiceRows,
         invoices' = [invoices EXCEPT ![i] = v]
  PROVE  Marked(i, v)
<1>1. invoices \in Seq(InvoiceRows) /\ DOMAIN invoices = 1 .. Len(invoices)
  BY Elements DEF TypeOK
<1>2. /\ invoices' \in Seq(InvoiceRows) /\ Len(invoices') = Len(invoices)
      /\ \A j \in 1 .. Len(invoices) : invoices'[j] = IF j = i THEN v ELSE invoices[j]
  BY <1>1, ExceptSeq
<1> QED
  BY <1>1, <1>2, LenProperties DEF Marked

\* invoices are added
Billed(new) ==
  /\ invoices' \in Seq(InvoiceRows) /\ Len(invoices') = Len(invoices) + Len(new)
  /\ DOMAIN invoices' = 1 .. Len(invoices) + Len(new) /\ Len(new) \in Nat
  /\ \A i \in DOMAIN invoices : invoices'[i] = invoices[i] /\ payment'[i] = payment[i]
  /\ \A i \in DOMAIN invoices' \ DOMAIN invoices :
       i - Len(invoices) \in DOMAIN new /\ invoices'[i] = new[i - Len(invoices)] /\ payment'[i] = "none"
  /\ payment' \in Seq(Payments) /\ Len(payment') = Len(invoices')

LEMMA BillsAdded ==
  ASSUME TypeOK, NEW new \in Seq(InvoiceRows), AddInvoices(new)
  PROVE  Billed(new)
<1> DEFINE k == Len(invoices)
           l == Len(new)
           none == [n \in DOMAIN new |-> "none"]
<1>1. /\ k \in Nat /\ DOMAIN invoices = 1 .. k /\ Len(payment) = k
      /\ invoices \in Seq(InvoiceRows) /\ payment \in Seq(Payments)
  BY Elements DEF TypeOK
<1>2. l \in Nat /\ DOMAIN new = 1 .. l
  BY LenProperties
<1>3. none \in Seq(Payments) /\ Len(none) = l
  <2>1. none \in [1 .. l -> Payments] /\ DOMAIN none = 1 .. l
    BY <1>2 DEF Payments
  <2>2. none \in Seq(Payments)
    BY <1>2, <2>1, SeqDef
  <2> HIDE DEF none
  <2> QED
    BY <1>2, <2>1, <2>2, LenProperties
<1>4. \A n \in 1 .. l : none[n] = "none"
  BY <1>2
<1>5. invoices' = invoices \o new /\ payment' = payment \o none
  BY DEF AddInvoices
<1> HIDE DEF k, l, none
<1>6. /\ invoices' \in Seq(InvoiceRows) /\ Len(invoices') = k + l
      /\ \A i \in 1 .. k + l : invoices'[i] = IF i <= k THEN invoices[i] ELSE new[i - k]
  BY <1>1, <1>5, ConcatProperties DEF k, l
<1>7. /\ payment' \in Seq(Payments) /\ Len(payment') = k + l
      /\ \A i \in 1 .. k + l : payment'[i] = IF i <= k THEN payment[i] ELSE none[i - k]
  BY <1>1, <1>3, <1>5, ConcatProperties
<1>8. DOMAIN invoices' = 1 .. k + l
  BY <1>6, LenProperties
<1>9. \A i \in (1 .. k + l) \ (1 .. k) : i - k \in 1 .. l /\ ~(i <= k)
  BY <1>1, <1>2
<1>10. \A i \in 1 .. k : i \in 1 .. k + l /\ i <= k
  BY <1>1, <1>2
<1>11. \A i \in (1 .. k + l) \ (1 .. k) : payment'[i] = "none"
  BY <1>4, <1>7, <1>9
<1> QED
  BY <1>1, <1>2, <1>6, <1>7, <1>8, <1>9, <1>10, <1>11 DEF Billed, k, l

\* the invoices a day's run makes are for different rows among those it chose
LEMMA NextBills ==
  ASSUME TypeOK, NEW S \in SUBSET DOMAIN subs
  PROVE  /\ NextInvoices(S) \in Seq(InvoiceRows)
         /\ \A n \in DOMAIN NextInvoices(S) :
              LET v == NextInvoices(S)[n]
              IN  /\ v.sub \in S /\ v.status = "pending" /\ v.start = subs[v.sub].expires
         /\ \A m, n \in DOMAIN NextInvoices(S) :
              NextInvoices(S)[m].sub = NextInvoices(S)[n].sub => m = n
<1> DEFINE c == Cardinality(S)
           At(n) == CHOOSE t \in S : Cardinality({u \in S : u < t}) = n - 1
           New == NextInvoices(S)
<1>1. Len(subs) \in Nat /\ DOMAIN subs = 1 .. Len(subs) /\ \A s \in DOMAIN subs : subs[s] \in SubRows
  BY Elements
<1>2. c \in Nat
  <2>1. IsFiniteSet(1 .. Len(subs))
    BY <1>1, FS_Interval
  <2> QED
    BY <1>1, <2>1, FS_Subset, FS_CardinalityType
<1>3. ASSUME NEW n \in 1 .. c
      PROVE  At(n) \in S /\ Cardinality(Below(S, At(n))) = n - 1
  <2>1. \E t \in S : Cardinality(Below(S, t)) = n - 1
    BY <1>1, Ranked
  <2> QED
    BY <2>1 DEF Below
<1>4. New = [n \in 1 .. c |-> Invoice(At(n), subs[At(n)].expires, NextKey(At(n)))]
  BY DEF NextInvoices
<1> HIDE DEF At, c, New
<1>5. ASSUME NEW n \in 1 .. c
      PROVE  /\ New[n] \in InvoiceRows /\ New[n].sub = At(n) /\ New[n].status = "pending"
             /\ New[n].start = subs[At(n)].expires
  <2>1. New[n] = Invoice(At(n), subs[At(n)].expires, NextKey(At(n)))
    BY <1>4
  <2>2. At(n) \in Nat /\ subs[At(n)].expires \in Int
    BY <1>1, <1>3 DEF SubRows
  <2>3. NextKey(At(n)) \in InvoiceKeys
    BY <2>2 DEF NextKey, InvoiceKeys
  <2> QED
    BY <2>1, <2>2, <2>3 DEF Invoice, InvoiceRows, NoDate
<1>6. DOMAIN New = 1 .. c /\ New \in [1 .. c -> InvoiceRows]
  BY <1>4, <1>5
<1>7. New \in Seq(InvoiceRows)
  BY <1>2, <1>6, SeqDef
<1>8. \A m, n \in 1 .. c : New[m].sub = New[n].sub => m = n
  <2>. SUFFICES ASSUME NEW m \in 1 .. c, NEW n \in 1 .. c, At(m) = At(n) PROVE m = n
    BY <1>5
  <2>1. m - 1 = n - 1
    BY <1>3
  <2> QED
    BY <2>1
<1> QED
  BY <1>3, <1>5, <1>6, <1>7, <1>8 DEF New

\* what the steps that write rows make of them
RowsTyped ==
  /\ subs \in Seq(SubRows) /\ recent \in Seq(DOMAIN subs) /\ Len(recent) = Len(subs)
  /\ \A s, t \in DOMAIN subs : recent[s] = recent[t] => s = t
  /\ RowsApart

LEMMA SavedTyped ==
  ASSUME Typed, NEW s \in DOMAIN subs, NEW r \in SubRows, r.key = subs[s].key, Saved(s, r)
  PROVE  RowsTyped' /\ DOMAIN subs' = DOMAIN subs /\ Len(subs') = Len(subs)
<1>1. \A t \in DOMAIN subs : subs'[t].key = subs[t].key
  BY DEF Saved
<1>2. DOMAIN subs' = DOMAIN subs /\ Len(subs') = Len(subs)
  BY DEF Saved
<1>3. RowsApart'
  BY <1>1, <1>2 DEF Typed, RowsApart
<1> QED
  BY <1>2, <1>3 DEF RowsTyped, Saved

LEMMA AddedTyped ==
  ASSUME Typed, NEW S, NEW rest, NEW row \in SubRows, Added(S, rest, row),
         \A s, t \in DOMAIN subs : rest[s].key = rest[t].key => s = t,
         \A s \in DOMAIN subs : rest[s].key # row.key,
         \A s \in DOMAIN subs, n \in Nat : rest[s].key = <<"closed", n>> => n = s,
         \A n \in Nat : row.key # <<"closed", n>>
  PROVE  RowsTyped' /\ card' \in Seq(Cards) /\ Len(card') = Len(subs') /\ DOMAIN subs \subseteq DOMAIN subs'
<1>1. \A s \in DOMAIN subs' : s \in DOMAIN subs \/ s = Len(subs) + 1
  BY DEF Added
<1>2. /\ \A s \in DOMAIN subs : subs'[s].key = rest[s].key
      /\ subs'[Len(subs) + 1].key = row.key
  BY DEF Added
<1>3. ASSUME NEW s \in DOMAIN subs', NEW t \in DOMAIN subs', subs'[s].key = subs'[t].key PROVE s = t
  BY <1>1, <1>2, <1>3
<1>4. ASSUME NEW s \in DOMAIN subs', NEW n \in Nat, subs'[s].key = <<"closed", n>> PROVE n = s
  BY <1>1, <1>2, <1>4
<1>5. RowsApart'
  BY <1>3, <1>4 DEF RowsApart
<1> QED
  BY <1>5 DEF Added, RowsTyped

GivenUp(p) ==
  [s \in DOMAIN subs |->
     IF s \in Keyed(<<"fixed", p>>) THEN [subs[s] EXCEPT !.key = <<"closed", s>>] ELSE subs[s]]

\* a contract's invoice has its type
LEMMA ClientBill ==
  ASSUME Typed, NEW s \in Nat, NEW k \in Keys
  PROVE  <<Invoice(s, now, <<"client", k>>)>> \in Seq(InvoiceRows)
<1>1. now \in Int
  BY DEF Typed, TypeOK
<1>2. Invoice(s, now, <<"client", k>>) \in InvoiceRows
  BY <1>1 DEF Invoice, InvoiceRows, InvoiceKeys, NoDate
<1> QED
  BY <1>2

NewOne(p, k) ==
  /\ Added(Keyed(<<"fixed", p>>), GivenUp(p), Row("invoice", p, <<"fixed", p>>))
  /\ Billed(<<Invoice(Len(subs) + 1, now, <<"client", k>>)>>)
  /\ RowsTyped'

\* a contract adds a row and its invoice, the row that is closed gives its key up
LEMMA NewContractDoes ==
  ASSUME Typed, NEW p \in Products, NEW k \in Keys, NewContract(p, k)
  PROVE  NewOne(p, k)
<1> DEFINE fixed == <<"fixed", p>>
           row == Row("invoice", p, fixed)
           S == Keyed(fixed)
<1>1. /\ Len(subs) \in Nat /\ DOMAIN subs = 1 .. Len(subs) /\ now \in Nat
      /\ \A s \in DOMAIN subs : subs[s] \in SubRows
  BY Elements DEF Typed, TypeOK
<1>2. ASSUME NEW s \in Nat PROVE <<Invoice(s, now, <<"client", k>>)>> \in Seq(InvoiceRows)
  BY ClientBill
<1>3. /\ AddSub(GivenUp(p), row)
      /\ AddInvoices(<<Invoice(Len(subs) + 1, now, <<"client", k>>)>>)
  BY DEF NewContract, GivenUp
<1>4. row \in SubRows /\ row.key = fixed
  BY DEF Row, SubRows, RowKeys, NoDate
<1>5. ASSUME NEW s \in DOMAIN subs
      PROVE  /\ GivenUp(p)[s] \in SubRows
             /\ GivenUp(p)[s].key = IF s \in S THEN <<"closed", s>> ELSE subs[s].key
             /\ s \in S <=> subs[s].key = fixed
             /\ s \in S <=> GivenUp(p)[s] # subs[s]
  <2>1. subs[s] \in SubRows /\ <<"closed", s>> \in RowKeys
    BY <1>1 DEF RowKeys
  <2>2. GivenUp(p)[s] = IF s \in S THEN [subs[s] EXCEPT !.key = <<"closed", s>>] ELSE subs[s]
    BY DEF GivenUp
  <2>3. s \in S <=> subs[s].key = fixed
    BY DEF Keyed
  <2>4. [subs[s] EXCEPT !.key = <<"closed", s>>] \in SubRows /\ [subs[s] EXCEPT !.key = <<"closed", s>>].key = <<"closed", s>>
    BY <2>1 DEF SubRows
  <2>5. <<"closed", s>> # fixed
    OBVIOUS
  <2> QED
    BY <2>1, <2>2, <2>3, <2>4, <2>5
<1>6. GivenUp(p) \in Seq(SubRows) /\ Len(GivenUp(p)) = Len(subs)
  <2>1. DOMAIN GivenUp(p) = 1 .. Len(subs) /\ GivenUp(p) \in [1 .. Len(subs) -> SubRows]
    BY <1>1, <1>5 DEF GivenUp
  <2>2. GivenUp(p) \in Seq(SubRows)
    BY <1>1, <2>1, SeqDef
  <2> QED
    BY <1>1, <2>1, <2>2, LenProperties
<1>7. \A a, b \in S : a = b
  BY <1>5 DEF Typed, RowsApart, Keyed
<1>8. S \in SUBSET DOMAIN subs
  BY DEF Keyed
<1>9. Added(S, GivenUp(p), row)
  <2> HIDE DEF S, row
  <2> QED
    BY <1>3, <1>4, <1>5, <1>6, <1>7, <1>8, RowAdded DEF Typed
<1>10. RowsTyped'
  <2> HIDE DEF S, row, fixed
  <2>0. ASSUME NEW s \in DOMAIN subs
        PROVE  s \in Nat /\ GivenUp(p)[s].key = IF s \in S THEN <<"closed", s>> ELSE subs[s].key
    BY <1>1, <1>5
  <2>0a. \A s \in DOMAIN subs : s \notin S => subs[s].key # fixed
    BY <1>5
  <2>0b. \A s \in Nat : <<"closed", s>> # fixed
    BY DEF fixed
  <2>0c. /\ \A s, t \in DOMAIN subs : subs[s].key = subs[t].key => s = t
         /\ \A s \in DOMAIN subs, n \in Nat : subs[s].key = <<"closed", n>> => n = s
    BY DEF Typed, RowsApart
  <2>0d. \A s, t : <<"closed", s>> = <<"closed", t>> => s = t
    OBVIOUS
  <2>1. ASSUME NEW s \in DOMAIN subs, NEW t \in DOMAIN subs, GivenUp(p)[s].key = GivenUp(p)[t].key
        PROVE  s = t
    <3>1. CASE s \in S /\ t \in S
      BY <2>0, <2>0d, <2>1, <3>1
    <3>2. CASE s \in S /\ t \notin S
      BY <2>0, <2>0c, <2>1, <3>2
    <3>3. CASE s \notin S /\ t \in S
      BY <2>0, <2>0c, <2>1, <3>3
    <3>4. CASE s \notin S /\ t \notin S
      BY <2>0, <2>0c, <2>1, <3>4
    <3> QED
      BY <3>1, <3>2, <3>3, <3>4
  <2>2. \A s \in DOMAIN subs : GivenUp(p)[s].key # fixed
    BY <2>0, <2>0a, <2>0b
  <2>3. \A s \in DOMAIN subs, n \in Nat : GivenUp(p)[s].key = <<"closed", n>> => n = s
    BY <2>0, <2>0c, <2>0d
  <2> QED
    BY <1>4, <1>9, <2>1, <2>2, <2>3, <2>0b, AddedTyped
<1>11. Billed(<<Invoice(Len(subs) + 1, now, <<"client", k>>)>>)
  <2>1. <<Invoice(Len(subs) + 1, now, <<"client", k>>)>> \in Seq(InvoiceRows)
    BY <1>1, <1>2
  <2> QED
    BY <1>3, <2>1, BillsAdded DEF Typed
<1> QED
  BY <1>9, <1>10, <1>11 DEF NewOne

\* the row of a contract that was read, and what is done to it
LEMMA InsertDoes ==
  ASSUME Typed, NEW c \in contracting, ContractInsert(c)
  PROVE  /\ c.product \in Products /\ c.key \in Keys /\ c.sub \in DOMAIN subs /\ c.closed \in BOOLEAN
         /\ contracting' = contracting \ {c}
         /\ UNCHANGED <<now, seen, mail, probe, ending, ran, history>>
         /\ \/ UNCHANGED <<subs, recent, card, invoices, payment>>
            \/ c.closed /\ c.sub \in Keyed(<<"fixed", c.product>>) /\ NewOne(c.product, c.key)
            \/ \E s \in DOMAIN subs :
                 /\ IF c.closed THEN s # c.sub /\ s \in Keyed(<<"fixed", c.product>>) ELSE s = c.sub
                 /\ Billed(<<Invoice(s, now, <<"client", c.key>>)>>)
                 /\ UNCHANGED <<subs, recent, card>>
<1> DEFINE holders == Keyed(<<"fixed", c.product>>)
           key == <<"client", c.key>>
<1>1. c.product \in Products /\ c.key \in Keys /\ c.sub \in DOMAIN subs /\ c.closed \in BOOLEAN
  BY DEF Typed, TypeOK
<1>2. DOMAIN subs = 1 .. Len(subs) /\ \A s \in DOMAIN subs : s \in Nat
  BY Elements DEF Typed
<1>3. /\ contracting' = contracting \ {c} /\ UNCHANGED <<now, seen, mail, probe, ending, ran, history>>
      /\ \/ UNCHANGED <<subs, recent, card, invoices, payment>>
         \/ c.closed /\ c.sub \in holders /\ NewContract(c.product, c.key)
         \/ /\ \E s \in IF c.closed THEN holders \ {c.sub} ELSE {c.sub} :
                 AddInvoices(<<Invoice(s, now, key)>>)
            /\ UNCHANGED <<subs, recent, card>>
  BY DEF ContractInsert
<1>4. CASE c.closed /\ c.sub \in holders /\ NewContract(c.product, c.key)
  BY <1>1, <1>3, <1>4, NewContractDoes
<1>5. CASE /\ \E s \in IF c.closed THEN holders \ {c.sub} ELSE {c.sub} :
                 AddInvoices(<<Invoice(s, now, key)>>)
           /\ UNCHANGED <<subs, recent, card>>
  <2>1. PICK s \in IF c.closed THEN holders \ {c.sub} ELSE {c.sub} : AddInvoices(<<Invoice(s, now, key)>>)
    BY <1>5
  <2>2. s \in DOMAIN subs
    BY <1>1 DEF Keyed
  <2>3. IF c.closed THEN s # c.sub /\ s \in holders ELSE s = c.sub
    BY <1>1
  <2>4. Billed(<<Invoice(s, now, key)>>)
    BY <1>1, <1>2, <2>1, <2>2, ClientBill, BillsAdded DEF Typed
  <2> QED
    BY <1>1, <1>3, <1>5, <2>2, <2>3, <2>4
<1> QED
  BY <1>1, <1>3, <1>4, <1>5

\* a retry gives its row up and adds another one with an invoice
LEMMA RetryDoes ==
  ASSUME Typed, NEW i \in DOMAIN invoices, Retry(i)
  PROVE  LET s == invoices[i].sub
         IN  \E S \in SUBSET {s}, rest \in Seq(SubRows) :
               /\ Added(S, rest, Row("invoice", subs[s].product, <<"retry", i>>))
               /\ \A t \in DOMAIN subs \ {s} : rest[t] = subs[t]
               /\ rest[s] = [subs[s] EXCEPT !.status = "canceled"]
               /\ subs[s].status \notin Live
               /\ Billed(<<Invoice(Len(subs) + 1, now, <<"retry", i>>)>>)
               /\ RowsTyped'
               /\ UNCHANGED <<now, seen, mail, probe, ending, contracting, ran, history>>
<1> DEFINE s == invoices[i].sub
           key == <<"retry", i>>
           row == Row("invoice", subs[s].product, key)
           rest == [subs EXCEPT ![s] = [subs[s] EXCEPT !.status = "canceled"]]
           S == {t \in {s} : rest[t] # subs[t]}
<1>1. /\ Len(subs) \in Nat /\ DOMAIN subs = 1 .. Len(subs) /\ now \in Nat
      /\ \A t \in DOMAIN subs : subs[t] \in SubRows
      /\ s \in DOMAIN subs /\ i \in Nat /\ subs \in Seq(SubRows)
  <2>1. TypeOK /\ now \in Nat /\ subs \in Seq(SubRows)
    BY DEF Typed, TypeOK
  <2> QED
    BY <2>1, Elements
<1>2. /\ Keyed(key) = {} /\ subs[s].status \notin Live /\ AddSub(rest, row)
      /\ AddInvoices(<<Invoice(Len(subs) + 1, now, key)>>)
      /\ UNCHANGED <<now, seen, mail, probe, ending, contracting, ran, history>>
  BY DEF Retry
<1>3. row \in SubRows /\ row.key = key
  <2>1. subs[s].product \in Products \cup {"trial"} /\ key \in RowKeys
    BY <1>1 DEF SubRows, RowKeys
  <2> QED
    BY <2>1 DEF Row, SubRows, NoDate
<1>4. [subs[s] EXCEPT !.status = "canceled"] \in SubRows /\ [subs[s] EXCEPT !.status = "canceled"].key = subs[s].key
  BY <1>1 DEF SubRows
<1>5. /\ rest \in Seq(SubRows) /\ Len(rest) = Len(subs)
      /\ \A t \in DOMAIN subs : rest[t] = IF t = s THEN [subs[s] EXCEPT !.status = "canceled"] ELSE subs[t]
  BY <1>1, <1>4, ExceptSeq
<1>6. \A t \in DOMAIN subs : rest[t].key = subs[t].key
  BY <1>4, <1>5
<1>7. Added(S, rest, row)
  <2>1. S \in SUBSET DOMAIN subs /\ (\A a, b \in S : a = b) /\ \A t \in S : rest[t] # subs[t]
    BY <1>1
  <2>2. \A t \in DOMAIN subs \ S : rest[t] = subs[t]
    BY <1>5
  <2> HIDE DEF S, rest, row
  <2> QED
    BY <1>2, <1>3, <1>5, <2>1, <2>2, RowAdded DEF Typed
<1>8. RowsTyped'
  <2>1. \A t \in DOMAIN subs : subs[t].key # key
    BY <1>2 DEF Keyed
  <2>2. \A n \in Nat : key # <<"closed", n>>
    OBVIOUS
  <2>3. /\ \A t, u \in DOMAIN subs : rest[t].key = rest[u].key => t = u
        /\ \A t \in DOMAIN subs : rest[t].key # row.key
        /\ \A t \in DOMAIN subs, n \in Nat : rest[t].key = <<"closed", n>> => n = t
    BY <1>3, <1>6, <2>1 DEF Typed, RowsApart
  <2> HIDE DEF S, rest, row, key
  <2> QED
    BY <1>3, <1>7, <2>2, <2>3, AddedTyped
<1>9. Billed(<<Invoice(Len(subs) + 1, now, key)>>)
  <2>1. Invoice(Len(subs) + 1, now, key) \in InvoiceRows
    BY <1>1 DEF Invoice, InvoiceRows, InvoiceKeys, NoDate
  <2>2. <<Invoice(Len(subs) + 1, now, key)>> \in Seq(InvoiceRows)
    BY <2>1
  <2> QED
    BY <1>2, <2>2, BillsAdded DEF Typed
<1>10. S \in SUBSET {s}
  OBVIOUS
<1>11. rest[s] = [subs[s] EXCEPT !.status = "canceled"] /\ \A t \in DOMAIN subs \ {s} : rest[t] = subs[t]
  BY <1>1, <1>5
<1> HIDE DEF S, rest
<1> QED
  BY <1>2, <1>5, <1>7, <1>8, <1>9, <1>10, <1>11

\* a card's contract adds a row
LEMMA ContractCardDoes ==
  ASSUME Typed, NEW p \in Products, NEW k \in Keys, ContractCard(p, k)
  PROVE  /\ Added({}, subs, Row("card", p, <<"client", k>>))
         /\ RowsTyped'
         /\ UNCHANGED <<now, invoices, seen, payment, mail, probe, ending, contracting, ran, history>>
<1> DEFINE key == <<"client", k>>
           row == Row("card", p, key)
<1>1. Keyed(key) = {} /\ AddSub(subs, row) /\ UNCHANGED <<now, invoices, seen, payment, mail, probe, ending, contracting, ran, history>>
  BY DEF ContractCard
<1>2. row \in SubRows /\ row.key = key
  BY DEF Row, SubRows, RowKeys, NoDate
<1>3. subs \in Seq(SubRows)
  BY DEF Typed, TypeOK
<1>4. Added({}, subs, row)
  <2> HIDE DEF row
  <2> QED
    BY <1>1, <1>2, <1>3, RowAdded DEF Typed
<1>5. RowsTyped'
  <2>1. \A t \in DOMAIN subs : subs[t].key # key
    BY <1>1 DEF Keyed
  <2>2. \A n \in Nat : key # <<"closed", n>>
    OBVIOUS
  <2> HIDE DEF row, key
  <2> QED
    BY <1>2, <1>4, <2>1, <2>2, AddedTyped DEF Typed, RowsApart
<1> QED
  BY <1>1, <1>4, <1>5

\* what a row has become, field by field
RowIs(g, r, status, expires, cancel, provisional, known) ==
  /\ g \in SubRows /\ g.mode = r.mode /\ g.product = r.product /\ g.key = r.key
  /\ g.status = status /\ g.expires = expires
  /\ g.cancel = cancel /\ g.provisional = provisional /\ g.known = known
BillIs(g, v, status, paid) ==
  /\ g \in InvoiceRows /\ g.sub = v.sub /\ g.start = v.start /\ g.key = v.key
  /\ g.status = status /\ g.paid = paid

LEMMA Fields ==
  /\ \A v \in InvoiceRows, d \in Int :
       BillIs([v EXCEPT !.status = "paid", !.paid = d, !.known = TRUE], v, "paid", d)
  /\ \A v \in InvoiceRows : BillIs([v EXCEPT !.status = "canceled"], v, "canceled", v.paid)
  /\ \A v \in InvoiceRows : BillIs([v EXCEPT !.known = TRUE], v, v.status, v.paid)
  /\ \A r \in SubRows, d \in Int :
       /\ RowIs([r EXCEPT !.status = "active", !.expires = d],
                r, "active", d, r.cancel, r.provisional, r.known)
       /\ RowIs([r EXCEPT !.status = "active", !.provisional = FALSE, !.expires = d],
                r, "active", d, r.cancel, FALSE, r.known)
       /\ RowIs([r EXCEPT !.status = "active", !.provisional = TRUE, !.expires = d],
                r, "active", d, r.cancel, TRUE, r.known)
       /\ RowIs([r EXCEPT !.cancel = TRUE, !.expires = d],
                r, r.status, d, TRUE, r.provisional, r.known)
  /\ \A r \in SubRows :
       /\ RowIs([r EXCEPT !.status = "canceled"], r, "canceled", r.expires, r.cancel, r.provisional, r.known)
       /\ RowIs([r EXCEPT !.cancel = TRUE], r, r.status, r.expires, TRUE, r.provisional, r.known)
       /\ RowIs([r EXCEPT !.known = TRUE], r, r.status, r.expires, r.cancel, r.provisional, TRUE)
<1>1. \A v \in InvoiceRows, d \in Int :
        BillIs([v EXCEPT !.status = "paid", !.paid = d, !.known = TRUE], v, "paid", d)
  BY DEF InvoiceRows, BillIs
<1>2. \A v \in InvoiceRows : BillIs([v EXCEPT !.status = "canceled"], v, "canceled", v.paid)
  BY DEF InvoiceRows, BillIs
<1>3. \A v \in InvoiceRows : BillIs([v EXCEPT !.known = TRUE], v, v.status, v.paid)
  BY DEF InvoiceRows, BillIs
<1>4. ASSUME NEW r \in SubRows, NEW d \in Int
      PROVE  RowIs([r EXCEPT !.status = "active", !.expires = d],
                   r, "active", d, r.cancel, r.provisional, r.known)
  BY DEF SubRows, RowIs
<1>5. ASSUME NEW r \in SubRows, NEW d \in Int
      PROVE  RowIs([r EXCEPT !.status = "active", !.provisional = FALSE, !.expires = d],
                   r, "active", d, r.cancel, FALSE, r.known)
  BY DEF SubRows, RowIs
<1>6. ASSUME NEW r \in SubRows, NEW d \in Int
      PROVE  RowIs([r EXCEPT !.status = "active", !.provisional = TRUE, !.expires = d],
                   r, "active", d, r.cancel, TRUE, r.known)
  BY DEF SubRows, RowIs
<1>7. ASSUME NEW r \in SubRows, NEW d \in Int
      PROVE  RowIs([r EXCEPT !.cancel = TRUE, !.expires = d],
                   r, r.status, d, TRUE, r.provisional, r.known)
  BY DEF SubRows, RowIs
<1>8. ASSUME NEW r \in SubRows
      PROVE  RowIs([r EXCEPT !.status = "canceled"], r, "canceled", r.expires, r.cancel, r.provisional, r.known)
  BY DEF SubRows, RowIs
<1>9. ASSUME NEW r \in SubRows
      PROVE  RowIs([r EXCEPT !.cancel = TRUE], r, r.status, r.expires, TRUE, r.provisional, r.known)
  BY DEF SubRows, RowIs
<1>10. ASSUME NEW r \in SubRows
       PROVE  RowIs([r EXCEPT !.known = TRUE], r, r.status, r.expires, r.cancel, r.provisional, TRUE)
  BY DEF SubRows, RowIs
<1> QED
  BY <1>1, <1>2, <1>3, <1>4, <1>5, <1>6, <1>7, <1>8, <1>9, <1>10, Zenon

\* a payment pays a pending invoice, and with it its row, or changes nothing
PaidBill(i) == [invoices[i] EXCEPT !.status = "paid", !.paid = now, !.known = TRUE]
PaidUntil(i) == (IF now > invoices[i].start THEN now ELSE invoices[i].start) + Term
PaidRow(i) == [subs[invoices[i].sub] EXCEPT !.status = "active", !.expires = PaidUntil(i)]

LEMMA SettleDoes ==
  ASSUME Typed, NEW i \in DOMAIN invoices, NEW outcome, Settle(i, outcome)
  PROVE  LET s == invoices[i].sub
         IN  \/ UNCHANGED <<invoices, subs, recent>>
             \/ /\ invoices[i].status = "pending"
                /\ \E v \in InvoiceRows : BillIs(v, invoices[i], "paid", now) /\ Marked(i, v)
                /\ \E r \in SubRows :
                     /\ Saved(s, r)
                     /\ RowIs(r, subs[s], "active", PaidUntil(i), subs[s].cancel, subs[s].provisional, subs[s].known)
                /\ RowsTyped'
             \/ /\ \E v \in InvoiceRows : BillIs(v, invoices[i], "canceled", invoices[i].paid) /\ Marked(i, v)
                /\ UNCHANGED <<subs, recent>>
<1> USE BillingAssumption
<1> DEFINE s == invoices[i].sub
<1>1. /\ invoices[i] \in InvoiceRows /\ invoices[i].sub \in DOMAIN subs
      /\ subs[s] \in SubRows /\ now \in Nat
  BY Elements DEF Typed, TypeOK
<1>2. CASE outcome = "paid" /\ invoices[i].status = "pending"
  <2>1. now \in Int /\ PaidUntil(i) \in Int
    BY <1>1 DEF InvoiceRows, PaidUntil
  <2>2. BillIs(PaidBill(i), invoices[i], "paid", now)
    BY <1>1, <2>1, Fields, Zenon DEF PaidBill
  <2>3. RowIs(PaidRow(i), subs[s], "active", PaidUntil(i), subs[s].cancel, subs[s].provisional, subs[s].known)
    BY <1>1, <2>1, Fields, Zenon DEF PaidRow
  <2>4. PaidBill(i) \in InvoiceRows /\ PaidRow(i) \in SubRows /\ PaidRow(i).key = subs[s].key
    BY <2>2, <2>3, Zenon DEF BillIs, RowIs
  <2>5. /\ invoices' = [invoices EXCEPT ![i] = PaidBill(i)]
        /\ subs' = [subs EXCEPT ![s] = PaidRow(i)] /\ Touch(s)
    BY <1>2 DEF Settle, Activate, PaidBill, PaidRow, PaidUntil
  <2>6. Marked(i, PaidBill(i))
    BY <2>4, <2>5, BillMarked DEF Typed
  <2>7. Saved(s, PaidRow(i))
    BY <1>1, <2>4, <2>5, RowSaved DEF Typed
  <2>8. RowsTyped'
    BY <1>1, <2>4, <2>7, SavedTyped
  <2> QED
    BY <1>2, <2>2, <2>3, <2>4, <2>6, <2>7, <2>8, Zenon
<1>3. CASE outcome = "paid" /\ invoices[i].status # "pending"
  BY <1>3 DEF Settle, Activate
<1>4. CASE outcome # "paid"
  <2> DEFINE v == [invoices[i] EXCEPT !.status = "canceled"]
  <2>1. BillIs(v, invoices[i], "canceled", invoices[i].paid)
    BY <1>1, Fields, Zenon
  <2>2. v \in InvoiceRows
    BY <2>1 DEF BillIs
  <2>3. invoices' = [invoices EXCEPT ![i] = v] /\ UNCHANGED <<subs, recent>>
    BY <1>4 DEF Settle, MarkFailed
  <2> HIDE DEF v
  <2> QED
    BY <2>1, <2>2, <2>3, BillMarked DEF Typed
<1> QED
  BY <1>2, <1>3, <1>4

\* what the Core knows of one card, of one payment
CardSet(s, c) ==
  /\ card' \in Seq(Cards) /\ Len(card') = Len(card) /\ card'[s] = c
  /\ \A t \in DOMAIN subs \ {s} : card'[t] = card[t]

LEMMA CardMarked ==
  ASSUME TypeOK, NEW s \in DOMAIN subs, NEW c \in Cards, card' = [card EXCEPT ![s] = c]
  PROVE  CardSet(s, c)
<1>1. card \in Seq(Cards) /\ DOMAIN subs = 1 .. Len(card)
  BY Elements DEF TypeOK
<1>2. /\ card' \in Seq(Cards) /\ Len(card') = Len(card)
      /\ \A j \in 1 .. Len(card) : card'[j] = IF j = s THEN c ELSE card[j]
  BY <1>1, ExceptSeq
<1> QED
  BY <1>1, <1>2 DEF CardSet

LEMMA PaymentMarked ==
  ASSUME TypeOK, NEW i \in DOMAIN invoices, NEW c \in Payments, payment' = [payment EXCEPT ![i] = c]
  PROVE  payment' \in Seq(Payments) /\ Len(payment') = Len(payment)
<1>1. payment \in Seq(Payments) /\ DOMAIN invoices = 1 .. Len(payment)
  BY Elements DEF TypeOK
<1> QED
  BY <1>1, ExceptSeq

\* a webhook is sent, or comes for the last time
Sent(m) ==
  /\ mail' \in Seq(Mails) /\ DOMAIN mail' = 1 .. Len(mail) + 1
  /\ mail'[Len(mail) + 1] = m
  /\ \A n \in DOMAIN mail : mail'[n] = mail[n]

LEMMA MailSent ==
  ASSUME TypeOK, NEW m \in Mails, mail' = Append(mail, m)
  PROVE  Sent(m)
<1>1. mail \in Seq(Mails) /\ DOMAIN mail = 1 .. Len(mail)
  BY Elements DEF TypeOK
<1>2. /\ mail' \in Seq(Mails) /\ Len(mail') = Len(mail) + 1 /\ mail'[Len(mail) + 1] = m
      /\ \A n \in 1 .. Len(mail) : mail'[n] = mail[n]
  BY <1>1, AppendProperties
<1> QED
  BY <1>1, <1>2, LenProperties DEF Sent

LEMMA MailDropped ==
  ASSUME TypeOK, NEW m \in DOMAIN mail
  PROVE  /\ Without(m) \in Seq(Mails) /\ DOMAIN Without(m) = 1 .. Len(mail) - 1
         /\ \A n \in DOMAIN Without(m) :
              /\ Without(m)[n] = mail[IF n < m THEN n ELSE n + 1]
              /\ (IF n < m THEN n ELSE n + 1) \in DOMAIN mail \ {m}
<1>1. Len(mail) \in Nat /\ DOMAIN mail = 1 .. Len(mail) /\ \A n \in DOMAIN mail : mail[n] \in Mails
  BY Elements
<1>2. DOMAIN Without(m) = 1 .. Len(mail) - 1 /\ Len(mail) - 1 \in Nat
  BY <1>1 DEF Without
<1>3. ASSUME NEW n \in 1 .. Len(mail) - 1
      PROVE  /\ Without(m)[n] = mail[IF n < m THEN n ELSE n + 1]
             /\ (IF n < m THEN n ELSE n + 1) \in DOMAIN mail \ {m}
  BY <1>1, <1>3 DEF Without
<1>4. Without(m) \in [1 .. Len(mail) - 1 -> Mails]
  BY <1>1, <1>2, <1>3 DEF Without
<1>5. Without(m) \in Seq(Mails)
  BY <1>2, <1>4, SeqDef
<1> QED
  BY <1>2, <1>3, <1>5

\* a webhook about a card is known already, grants a term or locks the row
GrantRow(m) ==
  [subs[m.of] EXCEPT !.status = "active", !.provisional = FALSE, !.expires = m.day + Term]
LockRow(m) == [subs[m.of] EXCEPT !.cancel = TRUE, !.expires = now - 1]

LEMMA ApplyDoes ==
  ASSUME Typed, NEW m \in Mails, m.of \in DOMAIN subs, Apply(m)
  PROVE  LET s == m.of
             old == subs[m.of]
         IN  \/ EventId(m) \in seen /\ UNCHANGED <<subs, recent, seen>>
             \/ /\ EventId(m) \notin seen /\ seen' = seen \cup {EventId(m)}
                /\ \/ /\ m.event = "received" /\ RowsTyped'
                      /\ \E r \in SubRows :
                           Saved(s, r) /\ RowIs(r, old, "active", m.day + Term, old.cancel, FALSE, old.known)
                   \/ /\ m.event # "received" /\ (m.event # "refunded" => ~old.cancel) /\ RowsTyped'
                      /\ \E r \in SubRows :
                           Saved(s, r) /\ RowIs(r, old, old.status, now - 1, TRUE, old.provisional, old.known)
                   \/ /\ m.event \in {"ended", "inactivated"} /\ old.cancel
                      /\ UNCHANGED <<subs, recent>>
<1> USE BillingAssumption
<1> DEFINE s == m.of
           old == subs[m.of]
<1>1. old \in SubRows /\ now - 1 \in Int /\ m.day + Term \in Int
  <2>1. old \in SubRows
    BY Elements DEF Typed
  <2>2. now \in Nat /\ m.day \in Int
    BY DEF Typed, TypeOK, Mails
  <2> QED
    BY <2>1, <2>2
<1>2. RowIs(GrantRow(m), old, "active", m.day + Term, old.cancel, FALSE, old.known)
  BY <1>1, Fields, Zenon DEF GrantRow
<1>3. RowIs(LockRow(m), old, old.status, now - 1, TRUE, old.provisional, old.known)
  BY <1>1, Fields, Zenon DEF LockRow
<1>4. /\ GrantRow(m) \in SubRows /\ GrantRow(m).key = old.key
      /\ LockRow(m) \in SubRows /\ LockRow(m).key = old.key
  BY <1>2, <1>3, Zenon DEF RowIs
<1>5. CASE m.event = "received" /\ EventId(m) \notin seen
  <2>1. subs' = [subs EXCEPT ![m.of] = GrantRow(m)] /\ Touch(m.of) /\ seen' = seen \cup {EventId(m)}
    BY <1>5 DEF Apply, GrantRow
  <2>2. Saved(m.of, GrantRow(m))
    BY <1>4, <2>1, RowSaved DEF Typed
  <2>3. RowsTyped'
    BY <1>4, <2>2, SavedTyped
  <2> QED
    BY <1>2, <1>4, <1>5, <2>1, <2>2, <2>3, Zenon
<1>6. CASE m.event # "received" /\ EventId(m) \notin seen /\ (m.event # "refunded" => ~old.cancel)
  <2>1. subs' = [subs EXCEPT ![m.of] = LockRow(m)] /\ Touch(m.of) /\ seen' = seen \cup {EventId(m)}
    BY <1>6 DEF Apply, Lock, LockRow
  <2>2. Saved(m.of, LockRow(m))
    BY <1>4, <2>1, RowSaved DEF Typed
  <2>3. RowsTyped'
    BY <1>4, <2>2, SavedTyped
  <2> QED
    BY <1>3, <1>4, <1>6, <2>1, <2>2, <2>3, Zenon
<1>7. CASE m.event \notin {"received", "refunded"} /\ EventId(m) \notin seen /\ old.cancel
  <2>1. m.event \in {"ended", "inactivated"}
    BY <1>7 DEF Mails
  <2> QED
    BY <1>7, <2>1 DEF Apply
<1>8. CASE EventId(m) \in seen
  BY <1>8 DEF Apply
<1> QED
  BY <1>5, <1>6, <1>7, <1>8

\* there is one row that governs
LEMMA Governs ==
  ASSUME Typed, subs # <<>>
  PROVE  /\ Current \in DOMAIN subs
         /\ \A t \in DOMAIN subs \ {Current} :
              \/ Rank(Current) < Rank(t)
              \/ Rank(Current) = Rank(t) /\ recent[t] < recent[Current]
<1> DEFINE Ranks == {Rank(s) : s \in DOMAIN subs}
<1>1. /\ Len(subs) \in Nat /\ DOMAIN subs = 1 .. Len(subs)
      /\ \A s \in DOMAIN subs : subs[s] \in SubRows
      /\ \A s \in DOMAIN subs : \A t \in DOMAIN subs : recent[s] = recent[t] => s = t
      /\ subs \in Seq(SubRows)
  BY Elements DEF Typed, TypeOK
<1>2. \A s \in DOMAIN subs : recent[s] \in 1 .. Len(subs)
  <2>1. recent \in Seq(1 .. Len(subs)) /\ Len(recent) = Len(subs)
    BY <1>1 DEF Typed, TypeOK
  <2> QED
    BY <1>1, <2>1, ElementOfSeq
<1>3. \A s \in DOMAIN subs : Rank(s) \in Nat
  BY DEF Rank
<1>4. DOMAIN subs # {}
  <2>1. Len(subs) # 0
    BY <1>1, EmptySeq
  <2>2. 1 \in 1 .. Len(subs)
    BY <1>1, <2>1
  <2> QED
    BY <1>1, <2>2
<1>5. PICK r \in Ranks : \A q \in Ranks : r <= q
  <2>1. Ranks \in SUBSET Nat /\ Ranks # {}
    BY <1>3, <1>4
  <2> HIDE DEF Ranks
  <2> QED
    BY <2>1, LeastOf
<1> DEFINE Places == {recent[s] : s \in {u \in DOMAIN subs : Rank(u) = r}}
<1>6. PICK m \in Places : \A x \in Places : x <= m
  <2>1. Places # {}
    BY <1>5
  <2>2. \A x \in Places : x \in 0 .. Len(subs)
    BY <1>2
  <2> HIDE DEF Places
  <2> QED
    BY <1>1, <2>1, <2>2, GreatestOf
<1>7. PICK s \in DOMAIN subs : Rank(s) = r /\ recent[s] = m
  BY <1>6
<1>8. ASSUME NEW t \in DOMAIN subs \ {s}
      PROVE  Rank(s) < Rank(t) \/ (Rank(s) = Rank(t) /\ recent[t] < recent[s])
  <2>1. r <= Rank(t) /\ Rank(t) \in Nat /\ r \in Nat
    BY <1>3, <1>5
  <2>2. CASE Rank(t) = r
    <3>1. recent[t] <= m /\ recent[t] # m
      BY <1>1, <1>6, <1>7, <2>2
    <3> QED
      BY <1>2, <1>7, <2>2, <3>1
  <2> QED
    BY <1>7, <2>1, <2>2
<1> HIDE DEF Ranks, Places
<1> QED
  BY <1>8, Zenon DEF Current

LEMMA CardCheckoutDoes ==
  ASSUME Typed, NEW s \in DOMAIN subs, CardCheckout(s)
  PROVE  /\ subs[s].mode = "card" /\ subs[s].status # "trialing" /\ RowsTyped'
         /\ \E r \in SubRows :
              /\ Saved(s, r)
              /\ RowIs(r, subs[s], subs[s].status, subs[s].expires, subs[s].cancel, subs[s].provisional, TRUE)
         /\ UNCHANGED <<now, invoices, seen, core, probe, ending, contracting, ran, history>>
<1> DEFINE r == [subs[s] EXCEPT !.known = TRUE]
<1>1. subs[s] \in SubRows
  BY Elements DEF Typed
<1>2. RowIs(r, subs[s], subs[s].status, subs[s].expires, subs[s].cancel, subs[s].provisional, TRUE)
  BY <1>1, Fields, Zenon
<1>3. r \in SubRows /\ r.key = subs[s].key
  BY <1>2, Zenon DEF RowIs
<1>4. subs' = [subs EXCEPT ![s] = r] /\ Touch(s)
  BY DEF CardCheckout
<1>5. UNCHANGED <<now, invoices, seen, core, probe, ending, contracting, ran, history>> /\ subs[s].mode = "card" /\ subs[s].status # "trialing"
  BY DEF CardCheckout
<1> HIDE DEF r
<1>6. Saved(s, r)
  BY <1>3, <1>4, RowSaved DEF Typed
<1>7. RowsTyped'
  BY <1>3, <1>6, SavedTyped
<1> QED
  BY <1>2, <1>3, <1>5, <1>6, <1>7, Zenon

LEMMA ProbeAnswerDoes ==
  ASSUME Typed, NEW s \in DOMAIN subs, ProbeAnswer(s)
  PROVE  /\ s \in probe /\ probe' = probe \ {s}
         /\ \/ /\ card[s].state = "active" /\ RowsTyped'
               /\ \E r \in SubRows :
                    Saved(s, r) /\ RowIs(r, subs[s], "active", now + 1, subs[s].cancel, TRUE, subs[s].known)
            \/ UNCHANGED <<subs, recent>>
         /\ UNCHANGED <<now, invoices, seen, core, ending, contracting, ran, history>>
<1> DEFINE r == [subs[s] EXCEPT !.status = "active", !.provisional = TRUE, !.expires = now + 1]
<1>1. subs[s] \in SubRows /\ now + 1 \in Int
  BY Elements DEF Typed, TypeOK
<1>2. RowIs(r, subs[s], "active", now + 1, subs[s].cancel, TRUE, subs[s].known)
  BY <1>1, Fields, Zenon
<1>3. r \in SubRows /\ r.key = subs[s].key
  BY <1>2, Zenon DEF RowIs
<1>4. CASE card[s].state = "active"
  <2>1. subs' = [subs EXCEPT ![s] = r] /\ Touch(s)
    BY <1>4 DEF ProbeAnswer
  <2> HIDE DEF r
  <2>2. Saved(s, r)
    BY <1>3, <2>1, RowSaved DEF Typed
  <2>3. RowsTyped'
    BY <1>3, <2>2, SavedTyped
  <2>4. s \in probe /\ probe' = probe \ {s} /\ UNCHANGED <<now, invoices, seen, core, ending, contracting, ran, history>>
    BY DEF ProbeAnswer
  <2> QED
    BY <1>2, <1>3, <1>4, <2>2, <2>3, <2>4, Zenon
<1>5. CASE card[s].state # "active"
  BY <1>5 DEF ProbeAnswer
<1> QED
  BY <1>4, <1>5

\* an owner cancels at once, or the gateway is told first
LEMMA Canceled ==
  ASSUME Typed, NEW s \in DOMAIN subs, subs' = [subs EXCEPT ![s].cancel = TRUE], Touch(s)
  PROVE  /\ RowsTyped'
         /\ \E r \in SubRows :
              /\ Saved(s, r)
              /\ RowIs(r, subs[s], subs[s].status, subs[s].expires, TRUE, subs[s].provisional, subs[s].known)
<1> DEFINE r == [subs[s] EXCEPT !.cancel = TRUE]
<1>1. subs[s] \in SubRows
  BY Elements DEF Typed
<1>2. RowIs(r, subs[s], subs[s].status, subs[s].expires, TRUE, subs[s].provisional, subs[s].known)
  BY <1>1, Fields, Zenon
<1>3. r \in SubRows /\ r.key = subs[s].key
  BY <1>2, Zenon DEF RowIs
<1>4. subs' = [subs EXCEPT ![s] = r]
  OBVIOUS
<1> HIDE DEF r
<1>5. Saved(s, r)
  BY <1>3, <1>4, RowSaved DEF Typed
<1>6. RowsTyped'
  BY <1>3, <1>5, SavedTyped
<1> QED
  BY <1>2, <1>3, <1>5, <1>6, Zenon

LEMMA CancelDoes ==
  ASSUME Typed, Cancel
  PROVE  \E s \in DOMAIN subs :
           /\ s = Current /\ ending = 0
           /\ \/ /\ subs[s].mode = "card" /\ subs[s].known /\ ending' = s
                 /\ CardSet(s, [card[s] EXCEPT !.state = "ended"])
                 /\ [card[s] EXCEPT !.state = "ended"] \in Cards
                 /\ \/ card[s].state = "active" /\ Sent([of |-> s, event |-> "ended", day |-> now])
                    \/ mail' = mail
                 /\ UNCHANGED <<subs, recent>>
              \/ /\ RowsTyped' /\ UNCHANGED <<ending, card, mail>>
                 /\ \E r \in SubRows :
                      /\ Saved(s, r)
                      /\ RowIs(r, subs[s], subs[s].status, subs[s].expires, TRUE, subs[s].provisional, subs[s].known)
           /\ UNCHANGED <<now, invoices, seen, payment, probe, contracting, ran, history>>
<1> DEFINE s == Current
           c == [card[s] EXCEPT !.state = "ended"]
           m == [of |-> s, event |-> "ended", day |-> now]
<1>1. s \in DOMAIN subs
  BY Governs DEF Cancel
<1>2. card[s] \in Cards /\ s \in Nat /\ now \in Nat
  <2> HIDE DEF s
  <2>1. DOMAIN subs = 1 .. Len(subs) /\ card[s] \in Cards
    BY <1>1, Elements DEF Typed
  <2> QED
    BY <1>1, <2>1 DEF Typed, TypeOK
<1>3. c \in Cards /\ m \in Mails
  BY <1>2 DEF Cards, Mails
<1>4. CASE subs[s].mode = "card" /\ subs[s].known
  <2>1. /\ card' = [card EXCEPT ![s] = c] /\ ending' = s /\ UNCHANGED <<subs, recent>>
        /\ mail' = IF card[s].state = "active" THEN Append(mail, m) ELSE mail
    BY <1>4 DEF Cancel
  <2>2. UNCHANGED <<now, invoices, seen, payment, probe, contracting, ran, history>> /\ ending = 0
    BY DEF Cancel
  <2> HIDE DEF c, m, s
  <2>3. CardSet(s, c)
    BY <1>1, <1>3, <2>1, CardMarked DEF Typed
  <2>4. card[s].state = "active" => Sent(m)
    BY <1>3, <2>1, MailSent DEF Typed
  <2> QED
    BY <1>1, <1>3, <1>4, <2>1, <2>2, <2>3, <2>4 DEF s, c, m
<1>5. CASE ~(subs[s].mode = "card" /\ subs[s].known)
  <2>1. subs' = [subs EXCEPT ![s].cancel = TRUE] /\ Touch(s) /\ UNCHANGED <<ending, card, mail>>
    BY <1>5 DEF Cancel
  <2>2. UNCHANGED <<now, invoices, seen, payment, probe, contracting, ran, history>> /\ ending = 0
    BY DEF Cancel
  <2> QED
    BY <1>1, <2>1, <2>2, Canceled
<1> QED
  BY <1>4, <1>5

LEMMA CheckoutDoes ==
  ASSUME Typed, NEW i \in DOMAIN invoices, Checkout(i)
  PROVE  /\ \/ UNCHANGED invoices
            \/ \E v \in InvoiceRows : BillIs(v, invoices[i], invoices[i].status, invoices[i].paid) /\ Marked(i, v)
         /\ payment' \in Seq(Payments) /\ Len(payment') = Len(payment)
         /\ UNCHANGED <<now, subs, recent, seen, card, mail, probe, ending, contracting, ran, history>>
<1> DEFINE v == [invoices[i] EXCEPT !.known = TRUE]
<1>1. invoices[i] \in InvoiceRows
  BY Elements DEF Typed
<1>2. BillIs(v, invoices[i], invoices[i].status, invoices[i].paid)
  BY <1>1, Fields, Zenon
<1>3. v \in InvoiceRows
  BY <1>2 DEF BillIs
<1>4. invoices' = invoices \/ invoices' = [invoices EXCEPT ![i] = v]
  BY DEF Checkout
<1>5. payment' = [payment EXCEPT ![i] = "open"] /\ UNCHANGED <<now, subs, recent, seen, card, mail, probe, ending, contracting, ran, history>>
  BY DEF Checkout
<1>6. payment' \in Seq(Payments) /\ Len(payment') = Len(payment)
  BY <1>5, PaymentMarked DEF Typed, Payments
<1> HIDE DEF v
<1>7. invoices' = [invoices EXCEPT ![i] = v] => Marked(i, v)
  BY <1>3, BillMarked DEF Typed
<1> QED
  BY <1>2, <1>3, <1>4, <1>5, <1>6, <1>7

LEMMA NewBill ==
  ASSUME NEW s, NEW start, NEW key
  PROVE  LET v == Invoice(s, start, key)
         IN  v.sub = s /\ v.start = start /\ v.key = key /\ v.status = "pending"
BY DEF Invoice

LEMMA OneBilled ==
  ASSUME Typed, NEW v, Billed(<<v>>)
  PROVE  /\ DOMAIN invoices' = DOMAIN invoices \cup {Len(invoices) + 1}
         /\ Len(invoices) + 1 \notin DOMAIN invoices
         /\ invoices'[Len(invoices) + 1] = v
         /\ \A i \in DOMAIN invoices : invoices'[i] = invoices[i] /\ payment'[i] = payment[i]
<1>1. Len(invoices) \in Nat /\ DOMAIN invoices = 1 .. Len(invoices) /\ Len(<<v>>) = 1 /\ <<v>>[1] = v
  BY Elements DEF Typed
<1>2. DOMAIN invoices' = 1 .. Len(invoices) + 1
  BY <1>1 DEF Billed
<1>3. (Len(invoices) + 1) - Len(invoices) = 1
  BY <1>1
<1>4. Len(invoices) + 1 \in DOMAIN invoices' \ DOMAIN invoices
  BY <1>1, <1>2
<1>5. invoices'[Len(invoices) + 1] = v
  BY <1>1, <1>3, <1>4 DEF Billed
<1> QED
  BY <1>1, <1>2, <1>4, <1>5 DEF Billed

LEMMA BilledHere ==
  ASSUME Typed, NEW v, Billed(<<v>>), v.sub \in DOMAIN subs', DOMAIN subs \subseteq DOMAIN subs'
  PROVE  \A i \in DOMAIN invoices' : invoices'[i].sub \in DOMAIN subs'
<1>1. \A i \in DOMAIN invoices : invoices[i].sub \in DOMAIN subs'
  BY DEF Typed, TypeOK
<1>2. \A i \in DOMAIN invoices' : i \in DOMAIN invoices \/ i = Len(invoices) + 1
  BY OneBilled
<1>3. \A i \in DOMAIN invoices : invoices'[i].sub \in DOMAIN subs'
  BY <1>1, OneBilled
<1>4. invoices'[Len(invoices) + 1].sub \in DOMAIN subs'
  BY OneBilled
<1> QED
  BY <1>2, <1>3, <1>4

LEMMA FunctionSeq ==
  ASSUME NEW n \in Nat, NEW S, NEW f \in [1 .. n -> S]
  PROVE  f \in Seq(S)
BY SeqDef

LEMMA TypedInit == ASSUME Init PROVE Typed
<1> USE BillingAssumption
<1>1. CASE Trial
  <2> DEFINE r == [Row("card", "trial", <<"trial">>) EXCEPT !.status = "trialing", !.expires = Term]
  <2>1. subs = <<r>>
    BY <1>1 DEF Init
  <2>2. Row("card", "trial", <<"trial">>) \in SubRows /\ Row("card", "trial", <<"trial">>).key = <<"trial">>
    BY DEF Row, SubRows, RowKeys, NoDate
  <2>3. r \in SubRows /\ r.key = <<"trial">>
    <3>1. ASSUME NEW x \in SubRows, NEW d \in Int
          PROVE  LET y == [x EXCEPT !.status = "trialing", !.expires = d]
                 IN  y \in SubRows /\ y.key = x.key
      BY DEF SubRows
    <3>2. Term \in Int
      OBVIOUS
    <3> QED
      BY <2>2, <3>1, <3>2, Zenon
  <2>4. /\ subs \in Seq(SubRows) /\ Len(subs) = 1 /\ DOMAIN subs = {1} /\ subs[1] = r
    BY <2>1, <2>3
  <2>5. /\ recent = [s \in 1 .. 1 |-> s] /\ card = [s \in 1 .. 1 |-> NewCard]
    BY <2>4 DEF Init
  <2>6. NewCard \in Cards
    BY DEF NewCard, Cards, NoDate
  <2>7. recent \in Seq({1}) /\ Len(recent) = 1 /\ card \in Seq(Cards) /\ Len(card) = 1
    <3>1. recent \in [1 .. 1 -> {1}] /\ card \in [1 .. 1 -> Cards]
      BY <2>5, <2>6
    <3>2. recent \in Seq({1}) /\ card \in Seq(Cards)
      BY <3>1, FunctionSeq, 1 \in Nat, Zenon
    <3>3. DOMAIN recent = 1 .. 1 /\ DOMAIN card = 1 .. 1
      BY <2>5
    <3> QED
      BY <3>2, <3>3, LenProperties
  <2>8. \A n \in Nat : <<"trial">> # <<"closed", n>>
    OBVIOUS
  <2>9. RowsApart
    BY <2>3, <2>4, <2>8 DEF RowsApart
  <2>10. TypeOK
    <3>1. /\ now = 0 /\ ran = -2 /\ invoices = <<>> /\ payment = <<>> /\ mail = <<>> /\ seen = {} /\ probe = {} /\ ending = 0
          /\ contracting = {} /\ crossed = {} /\ overtaken = {}
      BY DEF Init, NoDate
    <3>2. \A s, t \in {1} : recent[s] = recent[t] => s = t
      OBVIOUS
    <3> QED
      BY <2>4, <2>7, <3>1, <3>2 DEF TypeOK
  <2> QED
    BY <2>9, <2>10 DEF Typed
<1>2. CASE ~Trial
  <2>1. /\ subs = <<>> /\ invoices = <<>> /\ payment = <<>> /\ mail = <<>> /\ seen = {} /\ probe = {} /\ ending = 0
        /\ contracting = {} /\ crossed = {} /\ overtaken = {}
    BY <1>2 DEF Init
  <2>2. now = 0 /\ ran = NoDate
    BY DEF Init
  <2>3. DOMAIN subs = {} /\ Len(subs) = 0 /\ DOMAIN invoices = {} /\ DOMAIN mail = {}
    BY <2>1
  <2>4. recent = [s \in {} |-> s] /\ card = [s \in {} |-> NewCard]
    BY <2>3 DEF Init
  <2>5. recent = <<>> /\ card = <<>>
    <3>1. DOMAIN recent = {} /\ DOMAIN card = {}
      BY <2>4
    <3>2. recent \in [1 .. 0 -> {}] /\ card \in [1 .. 0 -> Cards]
      BY <2>4
    <3>3. recent \in Seq({}) /\ card \in Seq(Cards)
      BY <3>2, SeqDef
    <3>4. Len(recent) = 0 /\ Len(card) = 0
      BY <3>1, <3>3, LenProperties
    <3> QED
      BY <3>3, <3>4, EmptySeq
  <2>6. TypeOK
    BY <2>1, <2>2, <2>3, <2>5 DEF TypeOK, NoDate
  <2>7. RowsApart
    BY <2>3 DEF RowsApart
  <2> QED
    BY <2>6, <2>7 DEF Typed
<1> QED
  BY <1>1, <1>2

\* the contracts that are being made and the history
NotesTyped ==
  /\ contracting' \subseteq [product : Products, key : Keys, sub : DOMAIN subs, closed : BOOLEAN]
  /\ crossed' \subseteq DOMAIN subs /\ overtaken' \subseteq DOMAIN subs

LEMMA SameNotes ==
  ASSUME Typed, UNCHANGED <<contracting, history>>
  PROVE  NotesTyped
BY DEF Typed, TypeOK, NotesTyped, history

\* the types of what the steps that write rows leave alone
LEMMA RestTyped ==
  ASSUME Typed, NotesTyped, RowsTyped', DOMAIN subs \subseteq DOMAIN subs',
         now' \in Nat, ran' \in Int,
         invoices' \in Seq(InvoiceRows),
         \A i \in DOMAIN invoices' : invoices'[i].sub \in DOMAIN subs',
         payment' \in Seq(Payments), Len(payment') = Len(invoices'),
         card' \in Seq(Cards), Len(card') = Len(subs'),
         mail' \in Seq(Mails), \A m \in DOMAIN mail' : mail'[m].of \in DOMAIN subs,
         seen' \subseteq Nat \X {"received", "refunded", "inactivated", "ended"} \X Int,
         probe' \subseteq DOMAIN subs, ending' \in DOMAIN subs \cup {0}
  PROVE  Typed'
<1>1. ASSUME NEW c \in contracting'
      PROVE  c \in [product : Products, key : Keys, sub : DOMAIN subs', closed : BOOLEAN]
  <2>1. c \in [product : Products, key : Keys, sub : DOMAIN subs, closed : BOOLEAN]
    BY <1>1 DEF NotesTyped
  <2> QED
    BY <2>1
<1>2. contracting' \subseteq [product : Products, key : Keys, sub : DOMAIN subs', closed : BOOLEAN]
  BY <1>1
<1>3. crossed' \subseteq DOMAIN subs' /\ overtaken' \subseteq DOMAIN subs'
  BY DEF NotesTyped
<1> QED
  BY <1>2, <1>3 DEF Typed, TypeOK, RowsTyped

LEMMA SameRows ==
  ASSUME Typed, UNCHANGED <<subs, recent>>
  PROVE  RowsTyped' /\ DOMAIN subs' = DOMAIN subs /\ Len(subs') = Len(subs)
BY DEF Typed, TypeOK, RowsTyped, RowsApart

LEMMA SavedRows ==
  ASSUME NEW s, NEW r, Saved(s, r)
  PROVE  DOMAIN subs' = DOMAIN subs /\ Len(subs') = Len(subs)
BY DEF Saved

\* invoices after a payment was settled
LEMMA MarkedTyped ==
  ASSUME Typed, NEW i \in DOMAIN invoices, NEW v \in InvoiceRows, v.sub = invoices[i].sub, Marked(i, v)
  PROVE  /\ invoices' \in Seq(InvoiceRows) /\ Len(invoices') = Len(invoices)
         /\ \A j \in DOMAIN invoices' : invoices'[j].sub \in DOMAIN subs
<1>1. \A j \in DOMAIN invoices : invoices[j].sub \in DOMAIN subs
  BY DEF Typed, TypeOK
<1>2. \A j \in DOMAIN invoices' : j = i \/ (j \in DOMAIN invoices \ {i} /\ invoices'[j] = invoices[j])
  BY DEF Marked
<1>3. invoices'[i] = v
  BY DEF Marked
<1>4. \A j \in DOMAIN invoices' : invoices'[j].sub \in DOMAIN subs
  BY <1>1, <1>2, <1>3
<1> QED
  BY <1>4 DEF Marked

LEMMA SettleTyped ==
  ASSUME Typed, NEW i \in DOMAIN invoices, NEW outcome, Settle(i, outcome),
         UNCHANGED <<now, seen, core, probe, ending, contracting, ran, history>>
  PROVE  Typed'
<1> DEFINE s == invoices[i].sub
<1>0. NotesTyped
  BY SameNotes
<1>1. CASE UNCHANGED <<invoices, subs, recent>>
  BY <1>1 DEF core, history, Typed, TypeOK, RowsApart
<1>2. CASE /\ \E v \in InvoiceRows : BillIs(v, invoices[i], "paid", now) /\ Marked(i, v)
           /\ \E r \in SubRows : Saved(s, r)
           /\ RowsTyped'
  <2>1. PICK v \in InvoiceRows : BillIs(v, invoices[i], "paid", now) /\ Marked(i, v)
    BY <1>2
  <2>2. v.sub = invoices[i].sub
    BY <2>1 DEF BillIs
  <2>3. DOMAIN subs' = DOMAIN subs /\ Len(subs') = Len(subs)
    BY <1>2, SavedRows
  <2>4. /\ invoices' \in Seq(InvoiceRows) /\ Len(invoices') = Len(invoices)
        /\ \A j \in DOMAIN invoices' : invoices'[j].sub \in DOMAIN subs
    BY <2>1, <2>2, MarkedTyped
  <2> QED
    BY <1>0, <1>2, <2>3, <2>4, RestTyped DEF core, Typed, TypeOK
<1>3. CASE /\ \E v \in InvoiceRows : BillIs(v, invoices[i], "canceled", invoices[i].paid) /\ Marked(i, v)
           /\ UNCHANGED <<subs, recent>>
  <2>1. PICK v \in InvoiceRows : BillIs(v, invoices[i], "canceled", invoices[i].paid) /\ Marked(i, v)
    BY <1>3
  <2>2. v.sub = invoices[i].sub
    BY <2>1 DEF BillIs
  <2>3. RowsTyped' /\ DOMAIN subs' = DOMAIN subs /\ Len(subs') = Len(subs)
    BY <1>3, SameRows
  <2>4. /\ invoices' \in Seq(InvoiceRows) /\ Len(invoices') = Len(invoices)
        /\ \A j \in DOMAIN invoices' : invoices'[j].sub \in DOMAIN subs
    BY <2>1, <2>2, MarkedTyped
  <2> QED
    BY <1>0, <1>3, <2>3, <2>4, RestTyped DEF core, Typed, TypeOK
<1> QED
  <2>1. \/ UNCHANGED <<invoices, subs, recent>>
        \/ /\ \E v \in InvoiceRows : BillIs(v, invoices[i], "paid", now) /\ Marked(i, v)
           /\ \E r \in SubRows : Saved(s, r)
           /\ RowsTyped'
        \/ /\ \E v \in InvoiceRows : BillIs(v, invoices[i], "canceled", invoices[i].paid) /\ Marked(i, v)
           /\ UNCHANGED <<subs, recent>>
    BY SettleDoes, Zenon
  <2> QED
    BY <1>1, <1>2, <1>3, <2>1

LEMMA CoreTyped ==
  ASSUME Typed, UNCHANGED <<now, rows, probe, ending, contracting, ran, history>>,
         payment' \in Seq(Payments), Len(payment') = Len(payment),
         card' \in Seq(Cards), Len(card') = Len(card),
         mail' \in Seq(Mails), \A m \in DOMAIN mail' : mail'[m].of \in DOMAIN subs
  PROVE  Typed'
<1>1. RowsTyped' /\ DOMAIN subs' = DOMAIN subs /\ Len(subs') = Len(subs)
  BY SameRows DEF rows
<1>2. NotesTyped
  BY SameNotes
<1> QED
  BY <1>1, <1>2, RestTyped DEF rows, Typed, TypeOK

\* a webhook is among those sent, or is a new one about a row there is
LEMMA SentTyped ==
  ASSUME Typed, NEW m \in Mails, m.of \in DOMAIN subs, Sent(m)
  PROVE  mail' \in Seq(Mails) /\ \A n \in DOMAIN mail' : mail'[n].of \in DOMAIN subs
<1>1. /\ Len(mail) \in Nat /\ DOMAIN mail = 1 .. Len(mail)
      /\ \A n \in DOMAIN mail : mail[n].of \in DOMAIN subs
  BY Elements DEF Typed
<1>2. \A n \in DOMAIN mail' : n \in DOMAIN mail \/ n = Len(mail) + 1
  BY <1>1 DEF Sent
<1> QED
  BY <1>1, <1>2 DEF Sent

LEMMA CardSetTyped ==
  ASSUME Typed, NEW s \in DOMAIN subs, NEW c \in Cards, card' = [card EXCEPT ![s] = c]
  PROVE  card' \in Seq(Cards) /\ Len(card') = Len(card)
BY CardMarked DEF CardSet, Typed

\* the day goes on and on, and a contract is begun by its test
LEMMA NotesKept ==
  ASSUME Typed, [Next]_vars
  PROVE  /\ \/ \E p \in Products, k \in Keys : ContractTest(p, k)
            \/ \E c \in contracting : ContractInsert(c)
            \/ \E m \in DOMAIN mail : CardWebhook(m)
            \/ UNCHANGED <<contracting, history>>
         /\ now' = now \/ (now' = now + 1 /\ contracting = {} /\ contracting' = {})
<1>1. ASSUME NEW p \in Products, NEW k \in Keys, Contract(p, k) \/ ContractCard(p, k)
      PROVE  UNCHANGED <<now, contracting, history>>
  BY <1>1 DEF Contract, ContractCard
<1>2. ASSUME NEW i \in DOMAIN invoices,
             Retry(i) \/ Checkout(i) \/ Reconcile(i) \/ InvoiceWebhook(i) \/ Pay(i) \/ Refund(i)
      PROVE  UNCHANGED <<now, contracting, history>>
  BY <1>2 DEF Retry, Checkout, Reconcile, InvoiceWebhook, Pay, Refund, Core
<1>3. ASSUME NEW s \in DOMAIN subs,
             CardCheckout(s) \/ ProbeAnswer(s) \/ Authorize(s) \/ Charge(s) \/ Chargeback(s) \/ Inactivate(s)
      PROVE  UNCHANGED <<now, contracting, history>>
  BY <1>3 DEF CardCheckout, ProbeAnswer, Authorize, Charge, Chargeback, Inactivate, Core
<1>4. ASSUME GenerateDue \/ Probe \/ Cancel \/ CancelSave \/ UNCHANGED vars
      PROVE  UNCHANGED <<now, contracting, history>>
  BY <1>4 DEF GenerateDue, Probe, Cancel, CancelSave, vars
<1>5. ASSUME NEW m \in DOMAIN mail, Lose(m) PROVE UNCHANGED <<now, contracting, history>>
  BY <1>5 DEF Lose, Core
<1>6. ASSUME Tick PROVE UNCHANGED <<contracting, history>> /\ now' = now + 1 /\ contracting = {}
  BY <1>6 DEF Tick
<1>7. ASSUME NEW p \in Products, NEW k \in Keys, ContractTest(p, k) PROVE now' = now
  BY <1>7 DEF ContractTest
<1>8. ASSUME NEW c \in contracting, ContractInsert(c) PROVE now' = now
  BY <1>8 DEF ContractInsert
<1>9. ASSUME NEW m \in DOMAIN mail, CardWebhook(m) PROVE now' = now
  BY <1>9 DEF CardWebhook
<1> QED
  BY <1>1, <1>2, <1>3, <1>4, <1>5, <1>6, <1>7, <1>8, <1>9 DEF Next

LEMMA NotesStep ==
  ASSUME Typed, [Next]_vars
  PROVE  NotesTyped
<1>1. ASSUME NEW p \in Products, NEW k \in Keys, ContractTest(p, k) PROVE NotesTyped
  <2>1. PICK s \in Keyed(<<"fixed", p>>) :
          contracting' = contracting \cup {[product |-> p, key |-> k, sub |-> s, closed |-> subs[s].status # "pending"]}
    BY <1>1 DEF ContractTest
  <2>2. s \in DOMAIN subs
    BY DEF Keyed
  <2>3. [product |-> p, key |-> k, sub |-> s, closed |-> subs[s].status # "pending"]
          \in [product : Products, key : Keys, sub : DOMAIN subs, closed : BOOLEAN]
    <3>1. (subs[s].status # "pending") \in BOOLEAN
      OBVIOUS
    <3> QED
      BY <2>2, <3>1, Zenon
  <2>4. contracting' \subseteq [product : Products, key : Keys, sub : DOMAIN subs, closed : BOOLEAN]
    BY <2>1, <2>3, Zenon DEF Typed, TypeOK
  <2>5. UNCHANGED history
    BY <1>1 DEF ContractTest
  <2> QED
    BY <2>4, <2>5 DEF NotesTyped, history, Typed, TypeOK
<1>2. ASSUME NEW c \in contracting, ContractInsert(c) PROVE NotesTyped
  BY <1>2 DEF ContractInsert, NotesTyped, history, Typed, TypeOK
<1>3. ASSUME NEW m \in DOMAIN mail, CardWebhook(m) PROVE NotesTyped
  <2>1. mail[m].of \in DOMAIN subs
    BY Elements DEF Typed
  <2>2. contracting' = contracting
    BY <1>3 DEF CardWebhook
  <2>3. crossed' \in {crossed \cup {mail[m].of}, crossed \ {mail[m].of}, crossed}
    BY <1>3, Zenon DEF CardWebhook
  <2>4. overtaken' \in {overtaken \cup {mail[m].of}, overtaken}
    BY <1>3, Zenon DEF CardWebhook
  <2> QED
    BY <2>1, <2>2, <2>3, <2>4 DEF NotesTyped, Typed, TypeOK
<1> QED
  BY <1>1, <1>2, <1>3, NotesKept, SameNotes, Zenon

\* a new row with its invoice, and an invoice added to a row there is
LEMMA NewOneTyped ==
  ASSUME Typed, NotesTyped, NEW p, NEW k, NewOne(p, k), UNCHANGED <<now, seen, mail, probe, ending, ran>>
  PROVE  Typed'
<1>0. Len(subs) \in Nat /\ Len(payment) = Len(invoices) /\ \A i \in DOMAIN invoices : invoices[i].sub \in DOMAIN subs
  BY Elements DEF Typed, TypeOK
<1>1. /\ Added(Keyed(<<"fixed", p>>), GivenUp(p), Row("invoice", p, <<"fixed", p>>))
      /\ Billed(<<Invoice(Len(subs) + 1, now, <<"client", k>>)>>)
      /\ RowsTyped'
  BY DEF NewOne
<1>2. DOMAIN subs \subseteq DOMAIN subs' /\ Len(subs) + 1 \in DOMAIN subs'
      /\ card' \in Seq(Cards) /\ Len(card') = Len(subs')
  BY <1>1 DEF Added
<1>3. \A i \in DOMAIN invoices' : invoices'[i].sub \in DOMAIN subs'
  BY <1>0, <1>1, <1>2, BilledHere DEF Invoice
<1> QED
  BY <1>1, <1>2, <1>3, RestTyped DEF Billed, Typed, TypeOK

LEMMA OneMoreTyped ==
  ASSUME Typed, NotesTyped, NEW s \in DOMAIN subs, NEW key, Billed(<<Invoice(s, now, key)>>),
         UNCHANGED <<subs, recent, card>>, UNCHANGED <<now, seen, mail, probe, ending, ran>>
  PROVE  Typed'
<1>0. \A i \in DOMAIN invoices : invoices[i].sub \in DOMAIN subs
  BY DEF Typed, TypeOK
<1>1. \A i \in DOMAIN invoices' : invoices'[i].sub \in DOMAIN subs
  BY <1>0, OneBilled DEF Invoice
<1>2. RowsTyped' /\ DOMAIN subs' = DOMAIN subs
  BY SameRows
<1> QED
  BY <1>1, <1>2, RestTyped DEF Billed, Typed, TypeOK

LEMMA TypedStep ==
  ASSUME Typed, [Next]_vars
  PROVE  Typed'
<1> USE BillingAssumption
<1>0. /\ Len(subs) \in Nat /\ DOMAIN subs = 1 .. Len(subs) /\ now \in Nat
      /\ Len(card) = Len(subs) /\ Len(payment) = Len(invoices)
      /\ \A i \in DOMAIN invoices : invoices[i].sub \in DOMAIN subs
      /\ \A s \in DOMAIN subs : card[s] \in Cards
      /\ mail \in Seq(Mails) /\ \A m \in DOMAIN mail : mail[m] \in Mails /\ mail[m].of \in DOMAIN subs
      /\ payment \in Seq(Payments) /\ card \in Seq(Cards)
      /\ NotesTyped
  BY Elements, NotesStep DEF Typed, TypeOK
<1>1. ASSUME NEW p \in Products, NEW k \in Keys, Contract(p, k) PROVE Typed'
  <2>1. NewContract(p, k) /\ UNCHANGED <<now, seen, mail, probe, ending, ran>>
    BY <1>1 DEF Contract
  <2> QED
    BY <1>0, <2>1, NewContractDoes, NewOneTyped
<1>1a. ASSUME NEW p \in Products, NEW k \in Keys, ContractTest(p, k) PROVE Typed'
  <2>1. RowsTyped' /\ DOMAIN subs' = DOMAIN subs /\ Len(subs') = Len(subs)
    BY <1>1a, SameRows DEF ContractTest, rows
  <2> QED
    BY <1>0, <1>1a, <2>1, RestTyped DEF ContractTest, rows, core, Typed, TypeOK
<1>1b. ASSUME NEW c \in contracting, ContractInsert(c) PROVE Typed'
  <2>1. /\ UNCHANGED <<now, seen, mail, probe, ending, ran>>
        /\ \/ UNCHANGED <<subs, recent, card, invoices, payment>>
           \/ NewOne(c.product, c.key)
           \/ \E s \in DOMAIN subs :
                /\ Billed(<<Invoice(s, now, <<"client", c.key>>)>>)
                /\ UNCHANGED <<subs, recent, card>>
    BY <1>1b, InsertDoes
  <2>2. CASE UNCHANGED <<subs, recent, card, invoices, payment>>
    <3>1. RowsTyped' /\ DOMAIN subs' = DOMAIN subs /\ Len(subs') = Len(subs)
      BY <2>2, SameRows
    <3> QED
      BY <1>0, <2>1, <2>2, <3>1, RestTyped DEF Typed, TypeOK
  <2> QED
    BY <1>0, <2>1, <2>2, NewOneTyped, OneMoreTyped
<1>2. ASSUME NEW p \in Products, NEW k \in Keys, ContractCard(p, k) PROVE Typed'
  <2>1. /\ Added({}, subs, Row("card", p, <<"client", k>>)) /\ RowsTyped'
        /\ UNCHANGED <<now, invoices, seen, payment, mail, probe, ending, contracting, ran, history>>
    BY <1>2, ContractCardDoes
  <2>2. DOMAIN subs \subseteq DOMAIN subs' /\ card' \in Seq(Cards) /\ Len(card') = Len(subs')
    BY <2>1 DEF Added
  <2> QED
    BY <1>0, <2>1, <2>2, RestTyped DEF Typed, TypeOK
<1>3. ASSUME NEW i \in DOMAIN invoices, Retry(i) PROVE Typed'
  <2>1. PICK S \in SUBSET {invoices[i].sub}, rest \in Seq(SubRows) :
          /\ Added(S, rest, Row("invoice", subs[invoices[i].sub].product, <<"retry", i>>))
          /\ Billed(<<Invoice(Len(subs) + 1, now, <<"retry", i>>)>>)
          /\ RowsTyped'
          /\ UNCHANGED <<now, seen, mail, probe, ending, contracting, ran, history>>
    BY <1>3, RetryDoes, Zenon
  <2>2. DOMAIN subs \subseteq DOMAIN subs' /\ Len(subs) + 1 \in DOMAIN subs'
        /\ card' \in Seq(Cards) /\ Len(card') = Len(subs')
    BY <2>1 DEF Added
  <2>3. \A j \in DOMAIN invoices' : invoices'[j].sub \in DOMAIN subs'
    BY <1>0, <2>1, <2>2, BilledHere DEF Invoice
  <2> QED
    BY <1>0, <2>1, <2>2, <2>3, RestTyped DEF Billed, Typed, TypeOK
<1>4. ASSUME NEW i \in DOMAIN invoices, Checkout(i) PROVE Typed'
  <2>1. /\ UNCHANGED invoices
           \/ \E v \in InvoiceRows : BillIs(v, invoices[i], invoices[i].status, invoices[i].paid) /\ Marked(i, v)
        /\ payment' \in Seq(Payments) /\ Len(payment') = Len(payment)
        /\ UNCHANGED <<now, subs, recent, seen, card, mail, probe, ending, contracting, ran, history>>
    BY <1>4, CheckoutDoes
  <2>2. RowsTyped' /\ DOMAIN subs' = DOMAIN subs /\ Len(subs') = Len(subs)
    BY <2>1, SameRows
  <2>3. /\ invoices' \in Seq(InvoiceRows) /\ Len(invoices') = Len(invoices)
        /\ \A j \in DOMAIN invoices' : invoices'[j].sub \in DOMAIN subs
    <3>1. CASE UNCHANGED invoices
      BY <1>0, <3>1 DEF Typed, TypeOK
    <3>2. CASE \E v \in InvoiceRows : BillIs(v, invoices[i], invoices[i].status, invoices[i].paid) /\ Marked(i, v)
      <4>1. PICK v \in InvoiceRows : BillIs(v, invoices[i], invoices[i].status, invoices[i].paid) /\ Marked(i, v)
        BY <3>2
      <4> QED
        BY <4>1, MarkedTyped DEF BillIs
    <3> QED
      BY <2>1, <3>1, <3>2
  <2> QED
    BY <1>0, <2>1, <2>2, <2>3, RestTyped DEF Typed, TypeOK
<1>5. ASSUME NEW i \in DOMAIN invoices, Reconcile(i) PROVE Typed'
  BY <1>5, SettleTyped DEF Reconcile
<1>6. ASSUME NEW i \in DOMAIN invoices, InvoiceWebhook(i) PROVE Typed'
  BY <1>6, SettleTyped DEF InvoiceWebhook
<1>7. ASSUME NEW i \in DOMAIN invoices, Pay(i) \/ Refund(i) PROVE Typed'
  <2>1. /\ payment' = [payment EXCEPT ![i] = "paid"] \/ payment' = [payment EXCEPT ![i] = "refunded"]
        /\ UNCHANGED <<card, mail>> /\ UNCHANGED <<now, rows, probe, ending, contracting, ran, history>>
    BY <1>7 DEF Pay, Refund, Core
  <2>2. payment' \in Seq(Payments) /\ Len(payment') = Len(payment)
    BY <2>1, PaymentMarked DEF Typed, Payments
  <2> QED
    BY <1>0, <2>1, <2>2, CoreTyped
<1>8. ASSUME NEW s \in DOMAIN subs, CardCheckout(s) PROVE Typed'
  <2>1. PICK r \in SubRows : Saved(s, r)
    BY <1>8, CardCheckoutDoes, Zenon
  <2>2. RowsTyped' /\ DOMAIN subs' = DOMAIN subs /\ Len(subs') = Len(subs)
    BY <1>8, <2>1, CardCheckoutDoes, SavedRows
  <2> QED
    BY <1>0, <1>8, <2>2, RestTyped DEF CardCheckout, core, Typed, TypeOK
<1>9. ASSUME NEW s \in DOMAIN subs, ProbeAnswer(s) PROVE Typed'
  <2>1. RowsTyped' /\ DOMAIN subs' = DOMAIN subs /\ Len(subs') = Len(subs)
    <3>1. CASE \E r \in SubRows : Saved(s, r) /\ RowsTyped'
      BY <3>1, SavedRows
    <3>2. CASE UNCHANGED <<subs, recent>>
      BY <3>2, SameRows
    <3> QED
      BY <1>9, <3>1, <3>2, ProbeAnswerDoes, Zenon
  <2> QED
    BY <1>0, <1>9, <2>1, RestTyped DEF ProbeAnswer, core, Typed, TypeOK
<1>10. ASSUME NEW s \in DOMAIN subs, Authorize(s) \/ Charge(s) \/ Chargeback(s) \/ Inactivate(s) PROVE Typed'
  <2>1. /\ UNCHANGED <<now, rows, probe, ending, contracting, ran, history>> /\ UNCHANGED payment
        /\ \E c \in Cards : card' = [card EXCEPT ![s] = c]
        /\ UNCHANGED mail \/ \E m \in Mails : m.of = s /\ mail' = Append(mail, m)
    <3>1. card[s] \in Cards /\ s \in Nat
      BY <1>0
    <3>2. CASE Authorize(s)
      <4>1. [card[s] EXCEPT !.state = "active"] \in Cards
        BY <3>1 DEF Cards
      <4> QED
        BY <3>2, <4>1 DEF Authorize, Core
    <3>3. CASE Charge(s)
      <4>1. [card[s] EXCEPT !.charged = now, !.refunded = FALSE] \in Cards
        <5>1. now \in Int
          BY <1>0
        <5> QED
          BY <3>1, <5>1 DEF Cards
      <4>2. [of |-> s, event |-> "received", day |-> now] \in Mails
        BY <1>0, <3>1 DEF Mails
      <4>3. card' = [card EXCEPT ![s] = [card[s] EXCEPT !.charged = now, !.refunded = FALSE]]
        BY <3>3 DEF Charge, Core
      <4> QED
        BY <3>3, <4>1, <4>2, <4>3 DEF Charge, Core, Send
    <3>4. CASE Chargeback(s)
      <4>1. [card[s] EXCEPT !.refunded = TRUE] \in Cards
        BY <3>1 DEF Cards
      <4>2. [of |-> s, event |-> "refunded", day |-> card[s].charged] \in Mails
        BY <3>1 DEF Mails, Cards
      <4>3. card' = [card EXCEPT ![s] = [card[s] EXCEPT !.refunded = TRUE]]
        BY <3>4 DEF Chargeback, Core
      <4> QED
        BY <3>4, <4>1, <4>2, <4>3 DEF Chargeback, Core, Send
    <3>5. CASE Inactivate(s)
      <4>1. [card[s] EXCEPT !.state = "ended"] \in Cards
        BY <3>1 DEF Cards
      <4>2. [of |-> s, event |-> "inactivated", day |-> now] \in Mails
        BY <1>0, <3>1 DEF Mails
      <4> QED
        BY <3>5, <4>1, <4>2 DEF Inactivate, Core, Send
    <3> QED
      BY <1>10, <3>2, <3>3, <3>4, <3>5
  <2>2. card' \in Seq(Cards) /\ Len(card') = Len(card)
    BY <2>1, CardSetTyped
  <2>3. mail' \in Seq(Mails) /\ \A n \in DOMAIN mail' : mail'[n].of \in DOMAIN subs
    <3>1. CASE UNCHANGED mail
      BY <1>0, <3>1
    <3>2. ASSUME NEW m \in Mails, m.of = s, mail' = Append(mail, m)
          PROVE  mail' \in Seq(Mails) /\ \A n \in DOMAIN mail' : mail'[n].of \in DOMAIN subs
      BY <3>2, MailSent, SentTyped DEF Typed
    <3> QED
      BY <2>1, <3>1, <3>2
  <2> QED
    BY <1>0, <2>1, <2>2, <2>3, CoreTyped
<1>11. CASE GenerateDue
  <2>1. UNCHANGED <<now, subs, recent, seen, card, mail, probe, ending, history>> /\ ran' \in Int
    <3>1. now \in Int
      BY <1>0
    <3> QED
      BY <1>11, <3>1 DEF GenerateDue
  <2>2. RowsTyped' /\ DOMAIN subs' = DOMAIN subs /\ Len(subs') = Len(subs)
    BY <2>1, SameRows
  <2>3. CASE UNCHANGED <<invoices, payment>>
    BY <1>0, <2>1, <2>2, <2>3, RestTyped DEF Typed, TypeOK
  <2>4. CASE AddInvoices(NextInvoices({s \in Due : ~Open(s)}))
    <3> DEFINE S == {s \in Due : ~Open(s)}
    <3>1. S \in SUBSET DOMAIN subs
      BY DEF Due
    <3> HIDE DEF S
    <3>2. /\ NextInvoices(S) \in Seq(InvoiceRows)
          /\ \A n \in DOMAIN NextInvoices(S) : NextInvoices(S)[n].sub \in S
      BY <3>1, NextBills DEF Typed
    <3>3. Billed(NextInvoices(S))
      BY <2>4, <3>2, BillsAdded DEF Typed, S
    <3>4. \A i \in DOMAIN invoices' : invoices'[i].sub \in DOMAIN subs
      BY <1>0, <3>1, <3>2, <3>3 DEF Billed
    <3> QED
      BY <1>0, <2>1, <2>2, <3>3, <3>4, RestTyped DEF Billed, Typed, TypeOK
  <2> QED
    BY <1>11, <2>3, <2>4 DEF GenerateDue
<1>12. CASE Probe
  <2>1. UNCHANGED <<now, rows, core, ending, contracting, ran, history>> /\ probe' \subseteq DOMAIN subs
    BY <1>12 DEF Probe
  <2>2. RowsTyped' /\ DOMAIN subs' = DOMAIN subs /\ Len(subs') = Len(subs)
    BY <2>1, SameRows DEF rows
  <2> QED
    BY <1>0, <2>1, <2>2, RestTyped DEF rows, core, Typed, TypeOK
<1>13. CASE Cancel
  <2>1. PICK s \in DOMAIN subs :
           /\ \/ /\ ending' = s
                 /\ CardSet(s, [card[s] EXCEPT !.state = "ended"])
                 /\ Sent([of |-> s, event |-> "ended", day |-> now]) \/ mail' = mail
                 /\ UNCHANGED <<subs, recent>>
              \/ /\ RowsTyped' /\ UNCHANGED <<ending, card, mail>>
                 /\ \E r \in SubRows : Saved(s, r)
           /\ UNCHANGED <<now, invoices, seen, payment, probe, contracting, ran, history>>
    BY <1>13, CancelDoes, Zenon
  <2>2. CASE /\ ending' = s
             /\ CardSet(s, [card[s] EXCEPT !.state = "ended"])
             /\ Sent([of |-> s, event |-> "ended", day |-> now]) \/ mail' = mail
             /\ UNCHANGED <<subs, recent>>
    <3>1. [of |-> s, event |-> "ended", day |-> now] \in Mails
      BY <1>0 DEF Mails
    <3>2. mail' \in Seq(Mails) /\ \A n \in DOMAIN mail' : mail'[n].of \in DOMAIN subs
      <4>1. CASE mail' = mail
        BY <1>0, <4>1
      <4>2. CASE Sent([of |-> s, event |-> "ended", day |-> now])
        BY <3>1, <4>2, SentTyped
      <4> QED
        BY <2>2, <4>1, <4>2
    <3>3. RowsTyped' /\ DOMAIN subs' = DOMAIN subs /\ Len(subs') = Len(subs)
      BY <2>2, SameRows
    <3>4. card' \in Seq(Cards) /\ Len(card') = Len(card)
      BY <2>2 DEF CardSet
    <3> QED
      BY <1>0, <2>1, <2>2, <3>2, <3>3, <3>4, RestTyped DEF Typed, TypeOK
  <2>3. CASE /\ RowsTyped' /\ UNCHANGED <<ending, card, mail>>
             /\ \E r \in SubRows : Saved(s, r)
    <3>1. DOMAIN subs' = DOMAIN subs /\ Len(subs') = Len(subs)
      BY <2>3, SavedRows
    <3> QED
      BY <1>0, <2>1, <2>3, <3>1, RestTyped DEF Typed, TypeOK
  <2> QED
    BY <2>1, <2>2, <2>3
<1>14. CASE CancelSave
  <2>1. /\ ending \in DOMAIN subs /\ subs' = [subs EXCEPT ![ending].cancel = TRUE] /\ Touch(ending)
        /\ ending' = 0 /\ UNCHANGED <<now, invoices, seen, core, probe, contracting, ran, history>>
    BY <1>14 DEF CancelSave, Typed, TypeOK
  <2>2. RowsTyped' /\ \E r \in SubRows : Saved(ending, r)
    BY <2>1, Canceled
  <2>3. DOMAIN subs' = DOMAIN subs /\ Len(subs') = Len(subs)
    BY <2>2, SavedRows
  <2> QED
    BY <1>0, <2>1, <2>2, <2>3, RestTyped DEF core, Typed, TypeOK
<1>15. ASSUME NEW m \in DOMAIN mail, CardWebhook(m) PROVE Typed'
  <2>1. /\ mail' \in {mail, Without(m)} /\ Apply(mail[m])
        /\ UNCHANGED <<now, invoices, payment, card, probe, ending, contracting, ran>>
    BY <1>15 DEF CardWebhook
  <2>2. mail' \in Seq(Mails) /\ \A n \in DOMAIN mail' : mail'[n].of \in DOMAIN subs
    BY <1>0, <2>1, MailDropped DEF Typed
  <2>3. mail[m] \in Mails /\ mail[m].of \in DOMAIN subs
    BY <1>0
  <2>4. seen' \subseteq Nat \X {"received", "refunded", "inactivated", "ended"} \X Int
    <3>1. seen' = seen \/ seen' = seen \cup {EventId(mail[m])}
      BY <2>1 DEF Apply
    <3>2. EventId(mail[m]) \in Nat \X {"received", "refunded", "inactivated", "ended"} \X Int
      BY <2>3 DEF EventId, Mails
    <3> QED
      BY <3>1, <3>2 DEF Typed, TypeOK
  <2>5. RowsTyped' /\ DOMAIN subs' = DOMAIN subs /\ Len(subs') = Len(subs)
    <3>1. CASE UNCHANGED <<subs, recent>>
      BY <3>1, SameRows
    <3>2. CASE RowsTyped' /\ \E r \in SubRows : Saved(mail[m].of, r)
      BY <3>2, SavedRows
    <3> QED
      BY <2>1, <2>3, <3>1, <3>2, ApplyDoes, Zenon
  <2> QED
    BY <1>0, <2>1, <2>2, <2>4, <2>5, RestTyped DEF Typed, TypeOK
<1>16. ASSUME NEW m \in DOMAIN mail, Lose(m) PROVE Typed'
  <2>1. mail' = Without(m) /\ UNCHANGED <<payment, card>> /\ UNCHANGED <<now, rows, probe, ending, contracting, ran, history>>
    BY <1>16 DEF Lose, Core
  <2>2. mail' \in Seq(Mails) /\ \A n \in DOMAIN mail' : mail'[n].of \in DOMAIN subs
    BY <1>0, <2>1, MailDropped DEF Typed
  <2> QED
    BY <1>0, <2>1, <2>2, CoreTyped
<1>17. CASE Tick
  <2>1. now' \in Nat /\ UNCHANGED <<rows, core, probe, ending, contracting, ran, history>>
    BY <1>0, <1>17 DEF Tick
  <2>2. RowsTyped' /\ DOMAIN subs' = DOMAIN subs /\ Len(subs') = Len(subs)
    BY <2>1, SameRows DEF rows
  <2> QED
    BY <1>0, <2>1, <2>2, RestTyped DEF rows, core, Typed, TypeOK
<1>18. CASE UNCHANGED vars
  BY <1>18 DEF vars, rows, core, history, Typed, TypeOK, RowsApart
<1> QED
  BY <1>1, <1>1a, <1>1b, <1>2, <1>3, <1>4, <1>5, <1>6, <1>7, <1>8, <1>9, <1>10, <1>11, <1>12, <1>13, <1>14,
     <1>15, <1>16, <1>17, <1>18 DEF Next

\* Every row, invoice, payment, card and webhook keeps its type, and each row has
\* a key and a place of its own.
THEOREM Typing == Spec => []Typed
<1>1. Init => Typed
  BY TypedInit
<1>2. Typed /\ [Next]_vars => Typed'
  BY TypedStep
<1> QED
  BY <1>1, <1>2, PTL DEF Spec


-----------------------------------------------------------------------------
(* Which rows the two ways to pay write *)

Card(s) == subs[s].mode = "card"

\* invoices belong to subscriptions paid by invoice; what the gateway knows, what
\* it sends and what is asked of it, to subscriptions charged to a card
Linked ==
  /\ \A i \in DOMAIN invoices : subs[invoices[i].sub].mode = "invoice"
  /\ \A s \in DOMAIN subs : \A p \in Products : subs[s].key = <<"fixed", p>> => subs[s].mode = "invoice" /\ subs[s].product = p
  /\ \A s \in DOMAIN subs : subs[s].known => Card(s) /\ subs[s].status # "trialing"
  /\ \A s \in DOMAIN subs : subs[s].status = "trialing" => Card(s)
  /\ \A s \in DOMAIN subs : card[s].state # "none" => subs[s].known
  /\ \A s \in DOMAIN subs : card[s].charged # NoDate => card[s].state # "none"
  /\ \A m \in DOMAIN mail : subs[mail[m].of].known
  /\ \A s \in probe : subs[s].known
  /\ ending # 0 => subs[ending].known
  /\ \A c \in contracting : subs[c.sub].mode = "invoice"

\* what no step changes of a row, and what a new one is like
Alike(s) ==
  /\ s \in DOMAIN subs
  /\ subs'[s].mode = subs[s].mode /\ subs'[s].product = subs[s].product
  /\ subs[s].known => subs'[s].known
  /\ subs'[s].known => subs[s].known \/ (Card(s) /\ subs'[s].status # "trialing")
  /\ subs'[s].status = "trialing" => subs[s].status = "trialing"
  /\ \A p \in Products : subs'[s].key = <<"fixed", p>> => subs[s].key = <<"fixed", p>>
NewRow(s) ==
  /\ s \notin DOMAIN subs
  /\ subs'[s].status = "pending" /\ ~subs'[s].known /\ card'[s] = NewCard
  /\ \A p \in Products : subs'[s].key = <<"fixed", p>> => subs'[s].mode = "invoice" /\ subs'[s].product = p

LEMMA LinkedKept ==
  ASSUME Typed, Linked, DOMAIN subs \subseteq DOMAIN subs',
         \A s \in DOMAIN subs' : Alike(s) \/ NewRow(s),
         \A i \in DOMAIN invoices' :
           \/ i \in DOMAIN invoices /\ invoices'[i].sub = invoices[i].sub
           \/ invoices'[i].sub \in DOMAIN subs' /\ subs'[invoices'[i].sub].mode = "invoice",
         \A s \in DOMAIN subs : card'[s] = card[s] \/ subs[s].known,
         \A s \in DOMAIN subs : card'[s].charged # NoDate => card'[s].state # "none",
         \A m \in DOMAIN mail' : mail'[m].of \in DOMAIN subs /\ subs[mail'[m].of].known,
         \A s \in probe' : s \in DOMAIN subs /\ subs[s].known,
         ending' # 0 => ending' \in DOMAIN subs /\ subs[ending'].known,
         \A c \in contracting' : c.sub \in DOMAIN subs /\ subs[c.sub].mode = "invoice"
  PROVE  Linked'
<1>1. \A s \in DOMAIN subs : s \in DOMAIN subs' /\ subs'[s].mode = subs[s].mode /\ (subs[s].known => subs'[s].known)
  BY DEF Alike, NewRow
<1>2. \A i \in DOMAIN invoices' : subs'[invoices'[i].sub].mode = "invoice"
  <2>1. \A i \in DOMAIN invoices : invoices[i].sub \in DOMAIN subs /\ subs[invoices[i].sub].mode = "invoice"
    BY DEF Typed, TypeOK, Linked
  <2> QED
    BY <1>1, <2>1
<1>3. \A s \in DOMAIN subs' : \A p \in Products :
        subs'[s].key = <<"fixed", p>> => subs'[s].mode = "invoice" /\ subs'[s].product = p
  BY DEF Alike, NewRow, Linked
<1>4. \A s \in DOMAIN subs' : subs'[s].known => subs'[s].mode = "card" /\ subs'[s].status # "trialing"
  BY DEF Alike, NewRow, Linked, Card
<1>5. \A s \in DOMAIN subs' : card'[s].state # "none" => subs'[s].known
  <2>1. ASSUME NEW s \in DOMAIN subs', NewRow(s) PROVE card'[s].state = "none"
    BY <2>1 DEF NewRow, NewCard
  <2>2. ASSUME NEW s \in DOMAIN subs', Alike(s), card'[s].state # "none" PROVE subs'[s].known
    BY <2>2 DEF Alike, Linked
  <2> QED
    BY <2>1, <2>2
<1>6. \A s \in DOMAIN subs' : card'[s].charged # NoDate => card'[s].state # "none"
  <2>1. ASSUME NEW s \in DOMAIN subs', NewRow(s) PROVE card'[s].charged = NoDate
    BY <2>1 DEF NewRow, NewCard
  <2> QED
    BY <2>1 DEF Alike
<1>7. \A m \in DOMAIN mail' : subs'[mail'[m].of].known
  BY <1>1
<1>8. \A s \in probe' : subs'[s].known
  BY <1>1
<1>9. ending' # 0 => subs'[ending'].known
  BY <1>1
<1>10. \A c \in contracting' : subs'[c.sub].mode = "invoice"
  BY <1>1
<1>11. \A s \in DOMAIN subs' : subs'[s].status = "trialing" => subs'[s].mode = "card"
  BY DEF Alike, NewRow, Linked, Card
<1> QED
  BY <1>2, <1>3, <1>4, <1>5, <1>6, <1>7, <1>8, <1>9, <1>10, <1>11 DEF Linked, Card

\* a row that is written stays the row it was
LEMMA SavedAlike ==
  ASSUME NEW s \in DOMAIN subs, NEW r, NEW status, NEW expires, NEW cancel, NEW provisional, NEW known,
         Saved(s, r), RowIs(r, subs[s], status, expires, cancel, provisional, known),
         status = "trialing" => subs[s].status = "trialing",
         subs[s].known => known,
         known => subs[s].known \/ (Card(s) /\ status # "trialing")
  PROVE  DOMAIN subs' = DOMAIN subs /\ \A t \in DOMAIN subs' : Alike(t)
<1>1. Alike(s)
  BY DEF Saved, RowIs, Alike
<1>2. ASSUME NEW t \in DOMAIN subs, t # s PROVE Alike(t)
  <2>1. subs'[t] = subs[t]
    BY <1>2 DEF Saved
  <2> QED
    BY <2>1 DEF Alike
<1> QED
  BY <1>1, <1>2 DEF Saved

\* its status stays, or it is not on trial
LEMMA KeptAlike ==
  ASSUME NEW s \in DOMAIN subs, NEW r, Saved(s, r),
         r.mode = subs[s].mode, r.product = subs[s].product, r.key = subs[s].key, r.known <=> subs[s].known,
         r.status = "active" \/ r.status = subs[s].status
  PROVE  DOMAIN subs' = DOMAIN subs /\ \A t \in DOMAIN subs' : Alike(t)
<1>1. Alike(s)
  BY DEF Saved, Alike
<1>2. ASSUME NEW t \in DOMAIN subs, t # s PROVE Alike(t)
  <2>1. subs'[t] = subs[t]
    BY <1>2 DEF Saved
  <2> QED
    BY <2>1 DEF Alike
<1> QED
  BY <1>1, <1>2 DEF Saved

LEMMA SameAlike ==
  ASSUME subs' = subs
  PROVE  \A t \in DOMAIN subs' : Alike(t)
BY DEF Alike

\* a row that is added is a new one
RestAlike(rest) ==
  \A t \in DOMAIN subs :
    /\ rest[t].mode = subs[t].mode /\ rest[t].product = subs[t].product /\ rest[t].known = subs[t].known
    /\ rest[t].status = "trialing" => subs[t].status = "trialing"
    /\ \A p \in Products : rest[t].key = <<"fixed", p>> => subs[t].key = <<"fixed", p>>
KeyAllows(key, mode, product) ==
  \A p \in Products : key = <<"fixed", p>> => mode = "invoice" /\ product = p
NewRowOf(mode) ==
  /\ DOMAIN subs \subseteq DOMAIN subs' /\ Len(subs) + 1 \in DOMAIN subs'
  /\ subs'[Len(subs) + 1].mode = mode
  /\ \A t \in DOMAIN subs' : Alike(t) \/ NewRow(t)
  /\ \A t \in DOMAIN subs : card'[t] = card[t]

LEMMA AddedNew ==
  ASSUME NEW S, NEW rest, NEW mode, NEW product, NEW key,
         Added(S, rest, Row(mode, product, key)), KeyAllows(key, mode, product), RestAlike(rest)
  PROVE  NewRowOf(mode)
<1> DEFINE n == Len(subs) + 1
           row == Row(mode, product, key)
<1>1. DOMAIN subs' = DOMAIN subs \cup {n} /\ n \notin DOMAIN subs /\ subs'[n] = row /\ card'[n] = NewCard
  BY DEF Added
<1>2. row.mode = mode /\ row.product = product /\ row.key = key /\ row.status = "pending" /\ row.known = FALSE
  BY DEF Row
<1>3. NewRow(n)
  BY <1>1, <1>2 DEF NewRow, KeyAllows
<1>4. ASSUME NEW t \in DOMAIN subs PROVE Alike(t)
  <2>1. subs'[t] = rest[t]
    BY DEF Added
  <2> QED
    BY <2>1 DEF Alike, RestAlike
<1> QED
  BY <1>1, <1>2, <1>3, <1>4 DEF Added, NewRowOf

\* invoices keep their subscription
Belongs(i) == i \in DOMAIN invoices /\ invoices'[i].sub = invoices[i].sub

LEMMA MarkedBilling ==
  ASSUME NEW i \in DOMAIN invoices, NEW v, NEW status, NEW paid, Marked(i, v), BillIs(v, invoices[i], status, paid)
  PROVE  \A j \in DOMAIN invoices' : Belongs(j)
BY DEF Marked, BillIs, Belongs

Rekeyed(g, r, k) ==
  /\ g.mode = r.mode /\ g.known = r.known /\ g.status = r.status /\ g.expires = r.expires
  /\ g.cancel = r.cancel /\ g.provisional = r.provisional /\ g.product = r.product /\ g.key = k

LEMMA GivenUpFields ==
  ASSUME Typed, NEW p \in Products, NEW s \in DOMAIN subs
  PROVE  /\ GivenUp(p)[s].mode = subs[s].mode /\ GivenUp(p)[s].known = subs[s].known
         /\ GivenUp(p)[s].status = subs[s].status /\ GivenUp(p)[s].expires = subs[s].expires
         /\ GivenUp(p)[s].cancel = subs[s].cancel /\ GivenUp(p)[s].provisional = subs[s].provisional
         /\ GivenUp(p)[s].product = subs[s].product
         /\ \A q \in Products : GivenUp(p)[s].key = <<"fixed", q>> => subs[s].key = <<"fixed", q>>
<1>1. subs[s] \in SubRows
  BY Elements DEF Typed
<1>2. \/ GivenUp(p)[s] = [subs[s] EXCEPT !.key = <<"closed", s>>] 
      \/ GivenUp(p)[s] = subs[s]
  BY DEF GivenUp
<1>3. ASSUME NEW r \in SubRows, NEW k PROVE Rekeyed([r EXCEPT !.key = k], r, k)
  BY DEF SubRows, Rekeyed
<1>4. \A q \in Products : <<"closed", s>> # <<"fixed", q>>
  OBVIOUS
<1>5. CASE GivenUp(p)[s] = subs[s]
  BY <1>5
<1>6. CASE GivenUp(p)[s] = [subs[s] EXCEPT !.key = <<"closed", s>>]
  <2>1. Rekeyed(GivenUp(p)[s], subs[s], <<"closed", s>>)
    BY <1>1, <1>3, <1>6, Zenon
  <2> QED
    BY <1>4, <2>1 DEF Rekeyed
<1> QED
  BY <1>2, <1>5, <1>6

\* the steps that leave the subscriptions charged to a card alone
Untouched(s) ==
  /\ subs'[s].status = subs[s].status /\ subs'[s].expires = subs[s].expires
  /\ subs'[s].cancel = subs[s].cancel /\ subs'[s].provisional = subs[s].provisional
  /\ subs'[s].product = subs[s].product
BilledTo(i) ==
  Belongs(i) \/ (invoices'[i].sub \in DOMAIN subs' /\ subs'[invoices'[i].sub].mode = "invoice")
OthersOnly ==
  /\ UNCHANGED <<now, seen, mail, probe, ending, history>>
  /\ DOMAIN subs \subseteq DOMAIN subs'
  /\ \A s \in DOMAIN subs' : Alike(s) \/ NewRow(s)
  /\ \A s \in DOMAIN subs : card'[s] = card[s]
  /\ \A s \in DOMAIN subs : Card(s) => Untouched(s)
  /\ \A i \in DOMAIN invoices' : BilledTo(i)

LEMMA OneBilledTo ==
  ASSUME Typed, NEW v, Billed(<<v>>), v.sub \in DOMAIN subs', subs'[v.sub].mode = "invoice"
  PROVE  \A i \in DOMAIN invoices' : BilledTo(i)
<1>1. \A i \in DOMAIN invoices' : i \in DOMAIN invoices \/ i = Len(invoices) + 1
  BY OneBilled
<1>2. \A i \in DOMAIN invoices : Belongs(i)
  BY OneBilled DEF Belongs
<1>3. BilledTo(Len(invoices) + 1)
  BY OneBilled DEF BilledTo
<1> QED
  BY <1>1, <1>2, <1>3 DEF BilledTo

LEMMA NewOneOthers ==
  ASSUME Typed, NEW p \in Products, NEW k, NewOne(p, k), UNCHANGED <<now, seen, mail, probe, ending, history>>
  PROVE  OthersOnly
<1> DEFINE fixed == <<"fixed", p>>
           v == Invoice(Len(subs) + 1, now, <<"client", k>>)
<1>0. Added(Keyed(fixed), GivenUp(p), Row("invoice", p, fixed)) /\ Billed(<<v>>)
  BY DEF NewOne
<1>1. NewRowOf("invoice")
  <2>1. RestAlike(GivenUp(p))
    BY GivenUpFields DEF RestAlike
  <2>2. KeyAllows(fixed, "invoice", p)
    BY DEF KeyAllows
  <2> QED
    BY <1>0, <2>1, <2>2, AddedNew, Zenon
<1>2. \A t \in DOMAIN subs : Untouched(t)
  <2>1. \A t \in DOMAIN subs : subs'[t] = GivenUp(p)[t]
    BY <1>0 DEF Added
  <2> QED
    BY <2>1, GivenUpFields DEF Untouched
<1>3. v.sub = Len(subs) + 1
  BY NewBill
<1> HIDE DEF v
<1>4. \A i \in DOMAIN invoices' : BilledTo(i)
  BY <1>0, <1>1, <1>3, OneBilledTo DEF NewRowOf
<1> QED
  BY <1>1, <1>2, <1>4 DEF OthersOnly, NewRowOf

LEMMA OneMoreOthers ==
  ASSUME Typed, NEW s \in DOMAIN subs, subs[s].mode = "invoice", NEW key, Billed(<<Invoice(s, now, key)>>),
         UNCHANGED <<subs, recent, card>>, UNCHANGED <<now, seen, mail, probe, ending, history>>
  PROVE  OthersOnly
<1> DEFINE v == Invoice(s, now, key)
<1>1. v.sub = s
  BY NewBill
<1> HIDE DEF v
<1>2. \A i \in DOMAIN invoices' : BilledTo(i)
  BY <1>1, OneBilledTo DEF v
<1>3. \A t \in DOMAIN subs : Untouched(t)
  BY DEF Untouched
<1> QED
  BY <1>2, <1>3, SameAlike DEF OthersOnly

LEMMA InsertOthers ==
  ASSUME Typed, Linked, NEW c \in contracting, ContractInsert(c)
  PROVE  OthersOnly
<1>1. /\ c.product \in Products /\ c.sub \in DOMAIN subs
      /\ UNCHANGED <<now, seen, mail, probe, ending, history>>
      /\ \/ UNCHANGED <<subs, recent, card, invoices, payment>>
         \/ NewOne(c.product, c.key)
         \/ \E s \in DOMAIN subs :
              /\ IF c.closed THEN s # c.sub /\ s \in Keyed(<<"fixed", c.product>>) ELSE s = c.sub
              /\ Billed(<<Invoice(s, now, <<"client", c.key>>)>>)
              /\ UNCHANGED <<subs, recent, card>>
  BY InsertDoes
<1>2. CASE UNCHANGED <<subs, recent, card, invoices, payment>>
  BY <1>1, <1>2, SameAlike DEF OthersOnly, BilledTo, Belongs, Untouched
<1>3. ASSUME NEW s \in DOMAIN subs,
             IF c.closed THEN s # c.sub /\ s \in Keyed(<<"fixed", c.product>>) ELSE s = c.sub,
             Billed(<<Invoice(s, now, <<"client", c.key>>)>>), UNCHANGED <<subs, recent, card>>
      PROVE  OthersOnly
  <2>1. subs[s].mode = "invoice"
    BY <1>1, <1>3 DEF Linked, Keyed
  <2> QED
    BY <1>1, <1>3, <2>1, OneMoreOthers
<1> QED
  BY <1>1, <1>2, <1>3, NewOneOthers

LEMMA RetryOthers ==
  ASSUME Typed, Linked, NEW i \in DOMAIN invoices, Retry(i)
  PROVE  OthersOnly
<1> DEFINE s == invoices[i].sub
           v == Invoice(Len(subs) + 1, now, <<"retry", i>>)
<1>1. PICK S \in SUBSET {s}, rest \in Seq(SubRows) :
        /\ Added(S, rest, Row("invoice", subs[s].product, <<"retry", i>>))
        /\ \A t \in DOMAIN subs \ {s} : rest[t] = subs[t]
        /\ rest[s] = [subs[s] EXCEPT !.status = "canceled"]
        /\ Billed(<<v>>)
        /\ UNCHANGED <<now, seen, mail, probe, ending, contracting, ran, history>>
  BY RetryDoes, Zenon
<1>2. s \in DOMAIN subs /\ subs[s] \in SubRows /\ subs[s].mode = "invoice"
  BY Elements DEF Typed, Linked
<1>3. RowIs(rest[s], subs[s], "canceled", subs[s].expires, subs[s].cancel, subs[s].provisional, subs[s].known)
  BY <1>1, <1>2, Fields, Zenon
<1>4. RestAlike(rest)
  <2>1. ASSUME NEW t \in DOMAIN subs, t # s PROVE rest[t] = subs[t]
    BY <1>1, <2>1
  <2> QED
    BY <1>3, <2>1 DEF RowIs, RestAlike
<1>5. KeyAllows(<<"retry", i>>, "invoice", subs[s].product)
  BY DEF KeyAllows
<1>6. v.sub = Len(subs) + 1
  BY NewBill
<1> HIDE DEF v
<1>7. NewRowOf("invoice")
  BY <1>1, <1>4, <1>5, AddedNew, Zenon
<1>8. ASSUME NEW t \in DOMAIN subs, Card(t) PROVE Untouched(t)
  <2>1. t # s
    BY <1>2, <1>8 DEF Card
  <2>2. subs'[t] = subs[t]
    BY <1>1, <2>1 DEF Added
  <2> QED
    BY <2>2 DEF Untouched
<1>9. \A j \in DOMAIN invoices' : BilledTo(j)
  BY <1>1, <1>6, <1>7, OneBilledTo DEF NewRowOf
<1> QED
  BY <1>1, <1>7, <1>8, <1>9 DEF OthersOnly, NewRowOf

LEMMA ContractCardOthers ==
  ASSUME Typed, Linked, NEW p \in Products, NEW k \in Keys, ContractCard(p, k)
  PROVE  OthersOnly
<1>1. /\ Added({}, subs, Row("card", p, <<"client", k>>))
      /\ UNCHANGED <<now, invoices, seen, payment, mail, probe, ending, contracting, ran, history>>
  BY ContractCardDoes
<1>2. KeyAllows(<<"client", k>>, "card", p) /\ RestAlike(subs)
  BY DEF KeyAllows, RestAlike
<1>3. NewRowOf("card")
  BY <1>1, <1>2, AddedNew, Zenon
<1>4. \A t \in DOMAIN subs : Untouched(t)
  BY <1>1 DEF Added, Untouched
<1> QED
  BY <1>1, <1>3, <1>4 DEF OthersOnly, NewRowOf, BilledTo, Belongs

LEMMA SettleOthers ==
  ASSUME Typed, Linked, NEW i \in DOMAIN invoices, NEW outcome, Settle(i, outcome),
         UNCHANGED <<now, seen, core, probe, ending, contracting, ran, history>>
  PROVE  OthersOnly
<1> DEFINE s == invoices[i].sub
<1>1. s \in DOMAIN subs /\ subs[s].mode = "invoice"
  BY DEF Typed, TypeOK, Linked
<1>2. CASE UNCHANGED <<invoices, subs, recent>>
  BY <1>2, SameAlike DEF OthersOnly, core, BilledTo, Belongs, Untouched
<1>3. CASE /\ \E v \in InvoiceRows : BillIs(v, invoices[i], "paid", now) /\ Marked(i, v)
           /\ \E r \in SubRows :
                /\ Saved(s, r)
                /\ RowIs(r, subs[s], "active", PaidUntil(i), subs[s].cancel, subs[s].provisional, subs[s].known)
  <2>1. \A j \in DOMAIN invoices' : BilledTo(j)
    BY <1>3, MarkedBilling DEF BilledTo
  <2>2. PICK r \in SubRows :
           /\ Saved(s, r)
           /\ RowIs(r, subs[s], "active", PaidUntil(i), subs[s].cancel, subs[s].provisional, subs[s].known)
    BY <1>3
  <2>3. DOMAIN subs' = DOMAIN subs /\ \A t \in DOMAIN subs' : Alike(t)
    BY <1>1, <2>2, SavedAlike
  <2>4. ASSUME NEW t \in DOMAIN subs, Card(t) PROVE Untouched(t)
    <3>1. t # s
      BY <1>1, <2>4 DEF Card
    <3>2. subs'[t] = subs[t]
      BY <2>2, <3>1 DEF Saved
    <3> QED
      BY <3>2 DEF Untouched
  <2> QED
    BY <2>1, <2>3, <2>4 DEF OthersOnly, core
<1>4. CASE /\ \E v \in InvoiceRows : BillIs(v, invoices[i], "canceled", invoices[i].paid) /\ Marked(i, v)
           /\ UNCHANGED <<subs, recent>>
  <2>1. \A j \in DOMAIN invoices' : BilledTo(j)
    BY <1>4, MarkedBilling DEF BilledTo
  <2>2. \A t \in DOMAIN subs : Untouched(t)
    BY <1>4 DEF Untouched
  <2> QED
    BY <1>4, <2>1, <2>2, SameAlike DEF OthersOnly, core
<1> QED
  <2>1. \/ UNCHANGED <<invoices, subs, recent>>
        \/ /\ \E v \in InvoiceRows : BillIs(v, invoices[i], "paid", now) /\ Marked(i, v)
           /\ \E r \in SubRows :
                /\ Saved(s, r)
                /\ RowIs(r, subs[s], "active", PaidUntil(i), subs[s].cancel, subs[s].provisional, subs[s].known)
        \/ /\ \E v \in InvoiceRows : BillIs(v, invoices[i], "canceled", invoices[i].paid) /\ Marked(i, v)
           /\ UNCHANGED <<subs, recent>>
    BY SettleDoes, Zenon
  <2> QED
    BY <1>2, <1>3, <1>4, <2>1

LEMMA CardCheckoutOthers ==
  ASSUME Typed, Linked, NEW s \in DOMAIN subs, CardCheckout(s)
  PROVE  OthersOnly
<1>1. subs[s].mode = "card" /\ subs[s].status # "trialing" /\ UNCHANGED <<now, invoices, seen, core, probe, ending, contracting, ran, history>>
  BY CardCheckoutDoes
<1>2. PICK r \in SubRows :
        /\ Saved(s, r)
        /\ RowIs(r, subs[s], subs[s].status, subs[s].expires, subs[s].cancel, subs[s].provisional, TRUE)
  BY CardCheckoutDoes
<1>3. DOMAIN subs' = DOMAIN subs /\ \A t \in DOMAIN subs' : Alike(t)
  BY <1>1, <1>2, SavedAlike DEF Card
<1>4. \A t \in DOMAIN subs : Untouched(t)
  <2>1. Untouched(s)
    BY <1>2 DEF Saved, RowIs, Untouched
  <2>2. ASSUME NEW t \in DOMAIN subs, t # s PROVE Untouched(t)
    <3>1. subs'[t] = subs[t]
      BY <1>2, <2>2 DEF Saved
    <3> QED
      BY <3>1 DEF Untouched
  <2> QED
    BY <2>1, <2>2
<1> QED
  BY <1>1, <1>3, <1>4 DEF OthersOnly, core, BilledTo, Belongs

LEMMA CheckoutOthers ==
  ASSUME Typed, NEW i \in DOMAIN invoices, Checkout(i)
  PROVE  OthersOnly
<1>1. UNCHANGED <<now, subs, seen, card, mail, probe, ending, contracting, ran, history>>
  BY DEF Checkout
<1>2. \A j \in DOMAIN invoices' : BilledTo(j)
  <2>1. CASE UNCHANGED invoices
    BY <2>1 DEF BilledTo, Belongs
  <2>2. CASE \E v \in InvoiceRows : BillIs(v, invoices[i], invoices[i].status, invoices[i].paid) /\ Marked(i, v)
    BY <2>2, MarkedBilling DEF BilledTo
  <2> QED
    BY <2>1, <2>2, CheckoutDoes
<1>3. \A t \in DOMAIN subs : Untouched(t)
  BY <1>1 DEF Untouched
<1> QED
  BY <1>1, <1>2, <1>3, SameAlike DEF OthersOnly

\* the daily job adds invoices to some of the subscriptions that are due
LEMMA GenerateDoes ==
  ASSUME Typed, GenerateDue
  PROVE  /\ UNCHANGED <<now, subs, recent, seen, card, mail, probe, ending, history>>
         /\ \/ UNCHANGED invoices
            \/ LET S == {s \in Due : ~Open(s)}
               IN  /\ S \in SUBSET DOMAIN subs
                   /\ Billed(NextInvoices(S))
                   /\ \A n \in DOMAIN NextInvoices(S) :
                        LET v == NextInvoices(S)[n]
                        IN  v.sub \in S /\ v.status = "pending" /\ v.start = subs[v.sub].expires
                   /\ \A m, n \in DOMAIN NextInvoices(S) :
                        NextInvoices(S)[m].sub = NextInvoices(S)[n].sub => m = n
<1> DEFINE S == {s \in Due : ~Open(s)}
<1>1. UNCHANGED <<now, subs, recent, seen, card, mail, probe, ending, history>>
      /\ (UNCHANGED invoices \/ AddInvoices(NextInvoices(S)))
  BY DEF GenerateDue
<1>2. S \in SUBSET DOMAIN subs
  BY DEF Due
<1> HIDE DEF S
<1>3. /\ NextInvoices(S) \in Seq(InvoiceRows)
      /\ \A n \in DOMAIN NextInvoices(S) :
           LET v == NextInvoices(S)[n]
           IN  v.sub \in S /\ v.status = "pending" /\ v.start = subs[v.sub].expires
      /\ \A m, n \in DOMAIN NextInvoices(S) : NextInvoices(S)[m].sub = NextInvoices(S)[n].sub => m = n
  BY <1>2, NextBills DEF Typed
<1>4. AddInvoices(NextInvoices(S)) => Billed(NextInvoices(S))
  BY <1>3, BillsAdded DEF Typed
<1> QED
  BY <1>1, <1>2, <1>3, <1>4 DEF S

LEMMA GenerateOthers ==
  ASSUME Typed, GenerateDue
  PROVE  OthersOnly
<1>1. UNCHANGED <<now, subs, seen, card, mail, probe, ending, history>>
  BY DEF GenerateDue
<1>2. \A j \in DOMAIN invoices' : BilledTo(j)
  <2> DEFINE S == {s \in Due : ~Open(s)}
  <2>1. CASE UNCHANGED invoices
    BY <2>1 DEF BilledTo, Belongs
  <2>2. CASE Billed(NextInvoices(S))
    <3>1. \A s \in S : s \in DOMAIN subs /\ subs[s].mode = "invoice"
      BY DEF Due
    <3>2. \A n \in DOMAIN NextInvoices(S) : NextInvoices(S)[n].sub \in S
      <4>1. S \in SUBSET DOMAIN subs
        BY <3>1
      <4> QED
        BY <4>1, NextBills DEF Typed
    <3> HIDE DEF S
    <3>3. \A j \in DOMAIN invoices' \ DOMAIN invoices : invoices'[j].sub \in S
      BY <2>2, <3>2 DEF Billed
    <3>4. \A j \in DOMAIN invoices : Belongs(j)
      BY <2>2 DEF Billed, Belongs
    <3>5. \A j \in DOMAIN invoices' \ DOMAIN invoices : BilledTo(j)
      BY <1>1, <3>1, <3>3 DEF BilledTo
    <3> QED
      BY <3>4, <3>5 DEF BilledTo
  <2> QED
    BY <2>1, <2>2, GenerateDoes
<1>3. \A t \in DOMAIN subs : Untouched(t)
  BY <1>1 DEF Untouched
<1> QED
  BY <1>1, <1>2, <1>3, SameAlike DEF OthersOnly

\* the actions of this kind
Elsewhere ==
  \/ \E p \in Products, k \in Keys : Contract(p, k) \/ ContractTest(p, k) \/ ContractCard(p, k)
  \/ \E c \in contracting : ContractInsert(c)
  \/ \E i \in DOMAIN invoices :
       Retry(i) \/ Checkout(i) \/ Reconcile(i) \/ InvoiceWebhook(i) \/ Pay(i) \/ Refund(i)
  \/ \E s \in DOMAIN subs : CardCheckout(s)
  \/ GenerateDue

LEMMA ElsewhereOthers == ASSUME Typed, Linked, Elsewhere PROVE OthersOnly
<1>1. ASSUME NEW i \in DOMAIN invoices, Pay(i) \/ Refund(i) PROVE OthersOnly
  <2>1. UNCHANGED <<now, rows, card, mail, probe, ending, history>>
    BY <1>1 DEF Pay, Refund, Core
  <2>2. \A t \in DOMAIN subs : Untouched(t)
    BY <2>1 DEF rows, Untouched
  <2> QED
    BY <2>1, <2>2, SameAlike DEF rows, OthersOnly, BilledTo, Belongs
<1>2. ASSUME NEW i \in DOMAIN invoices, Reconcile(i) \/ InvoiceWebhook(i) PROVE OthersOnly
  BY <1>2, SettleOthers DEF Reconcile, InvoiceWebhook
<1>3. ASSUME NEW p \in Products, NEW k \in Keys, Contract(p, k) PROVE OthersOnly
  BY <1>3, NewContractDoes, NewOneOthers DEF Contract
<1>4. ASSUME NEW p \in Products, NEW k \in Keys, ContractTest(p, k) PROVE OthersOnly
  BY <1>4, SameAlike DEF ContractTest, rows, core, OthersOnly, BilledTo, Belongs, Untouched
<1> QED
  BY <1>1, <1>2, <1>3, <1>4, InsertOthers, ContractCardOthers, RetryOthers, CheckoutOthers, CardCheckoutOthers, GenerateOthers
     DEF Elsewhere

\* what happens to one card at the Core, and the webhook it causes
LEMMA CoreDoes ==
  ASSUME Typed, NEW s \in DOMAIN subs, Authorize(s) \/ Charge(s) \/ Chargeback(s) \/ Inactivate(s)
  PROVE  /\ UNCHANGED <<now, rows, payment, probe, ending, contracting, ran, history>>
         /\ \E c \in Cards :
              /\ CardSet(s, c)
              /\ \/ /\ subs[s].known /\ c.state = "active" /\ c.charged = card[s].charged
                    /\ mail' = mail
                 \/ /\ card[s].state = "active" /\ (card[s].charged = NoDate \/ now >= card[s].charged + Term)
                    /\ c.state = "active" /\ c.charged = now
                    /\ Sent([of |-> s, event |-> "received", day |-> now])
                 \/ /\ card[s].charged # NoDate
                    /\ c.state = card[s].state /\ c.charged = card[s].charged
                    /\ Sent([of |-> s, event |-> "refunded", day |-> card[s].charged])
                 \/ /\ card[s].state = "active"
                    /\ c.state = "ended" /\ c.charged = card[s].charged
                    /\ Sent([of |-> s, event |-> "inactivated", day |-> now])
<1>0. UNCHANGED <<now, rows, payment, probe, ending, contracting, ran, history>>
  BY DEF Authorize, Charge, Chargeback, Inactivate, Core
<1>1. card[s] \in Cards /\ s \in Nat /\ now \in Nat
  <2>1. DOMAIN subs = 1 .. Len(subs) /\ card[s] \in Cards
    BY Elements DEF Typed
  <2> QED
    BY <2>1 DEF Typed, TypeOK
<1>2. CASE Authorize(s)
  <2> DEFINE c == [card[s] EXCEPT !.state = "active"]
  <2>1. c \in Cards /\ c.state = "active" /\ c.charged = card[s].charged
    BY <1>1 DEF Cards
  <2>2. card' = [card EXCEPT ![s] = c] /\ mail' = mail /\ subs[s].known
    BY <1>2 DEF Authorize, Core
  <2> HIDE DEF c
  <2>3. CardSet(s, c)
    BY <2>1, <2>2, CardMarked DEF Typed
  <2> QED
    BY <1>0, <2>1, <2>2, <2>3
<1>3. CASE Charge(s)
  <2> DEFINE c == [card[s] EXCEPT !.charged = now, !.refunded = FALSE]
             m == [of |-> s, event |-> "received", day |-> now]
  <2>0. now \in Int
    BY <1>1
  <2>1. c \in Cards /\ c.state = card[s].state /\ c.charged = now /\ m \in Mails
    BY <1>1, <2>0 DEF Cards, Mails
  <2>2. /\ card' = [card EXCEPT ![s] = c] /\ mail' = Append(mail, m) /\ card[s].state = "active"
        /\ card[s].charged = NoDate \/ now >= card[s].charged + Term
    BY <1>3 DEF Charge, Core, Send
  <2> HIDE DEF c, m
  <2>3. CardSet(s, c) /\ Sent(m)
    BY <2>1, <2>2, CardMarked, MailSent DEF Typed
  <2> QED
    BY <1>0, <2>1, <2>2, <2>3 DEF m
<1>4. CASE Chargeback(s)
  <2> DEFINE c == [card[s] EXCEPT !.refunded = TRUE]
             m == [of |-> s, event |-> "refunded", day |-> card[s].charged]
  <2>1. c \in Cards /\ c.state = card[s].state /\ c.charged = card[s].charged /\ m \in Mails
    BY <1>1 DEF Cards, Mails
  <2>2. card' = [card EXCEPT ![s] = c] /\ mail' = Append(mail, m) /\ card[s].charged # NoDate
    BY <1>4 DEF Chargeback, Core, Send
  <2> HIDE DEF c, m
  <2>3. CardSet(s, c) /\ Sent(m)
    BY <2>1, <2>2, CardMarked, MailSent DEF Typed
  <2> QED
    BY <1>0, <2>1, <2>2, <2>3 DEF m
<1>5. CASE Inactivate(s)
  <2> DEFINE c == [card[s] EXCEPT !.state = "ended"]
             m == [of |-> s, event |-> "inactivated", day |-> now]
  <2>1. c \in Cards /\ c.state = "ended" /\ c.charged = card[s].charged /\ m \in Mails
    BY <1>1 DEF Cards, Mails
  <2>2. card' = [card EXCEPT ![s] = c] /\ mail' = Append(mail, m) /\ card[s].state = "active"
    BY <1>5 DEF Inactivate, Core, Send
  <2> HIDE DEF c, m
  <2>3. CardSet(s, c) /\ Sent(m)
    BY <2>1, <2>2, CardMarked, MailSent DEF Typed
  <2> QED
    BY <1>0, <2>1, <2>2, <2>3 DEF m
<1> QED
  BY <1>2, <1>3, <1>4, <1>5

\* each webhook is one sent before, or the new one
LEMMA SentOne ==
  ASSUME Typed, NEW m, Sent(m)
  PROVE  \A n \in DOMAIN mail' :
           \/ n \in DOMAIN mail /\ mail'[n] = mail[n]
           \/ n = Len(mail) + 1 /\ n \notin DOMAIN mail /\ mail'[n] = m
<1>1. Len(mail) \in Nat /\ DOMAIN mail = 1 .. Len(mail)
  BY Elements DEF Typed
<1> QED
  BY <1>1 DEF Sent

\* a webhook that is kept moves up by one at most
Moved(m, n) == IF n < m THEN n ELSE n + 1

LEMMA DroppedOne ==
  ASSUME Typed, NEW m \in DOMAIN mail, mail' \in {mail, Without(m)}
  PROVE  \/ mail' = mail
         \/ \A n \in DOMAIN mail' :
              Moved(m, n) \in DOMAIN mail \ {m} /\ mail'[n] = mail[Moved(m, n)] /\ n \in Nat
<1>1. CASE mail' = Without(m)
  <2>1. /\ DOMAIN mail' = 1 .. Len(mail) - 1
        /\ \A n \in DOMAIN mail' :
             mail'[n] = mail[IF n < m THEN n ELSE n + 1] /\ (IF n < m THEN n ELSE n + 1) \in DOMAIN mail \ {m}
    BY <1>1, MailDropped DEF Typed
  <2>2. \A n \in DOMAIN mail' : n \in Nat
    BY <2>1
  <2> QED
    BY <2>1, <2>2 DEF Moved
<1> QED
  BY <1>1

LEMMA MovedApart ==
  ASSUME NEW m \in Nat, NEW a \in Nat, NEW b \in Nat
  PROVE  a < b => Moved(m, a) < Moved(m, b)
BY DEF Moved

LEMMA LinkedInit == ASSUME Init PROVE Linked
<1>1. CASE Trial
  <2>1. /\ DOMAIN subs = {1} /\ subs[1] = [Row("card", "trial", <<"trial">>) EXCEPT !.status = "trialing", !.expires = Term]
        /\ card = [s \in {1} |-> NewCard]
    BY <1>1 DEF Init
  <2>2. ~subs[1].known /\ subs[1].key = <<"trial">> /\ subs[1].mode = "card" /\ card[1] = NewCard
    BY <2>1 DEF Row
  <2>3. invoices = <<>> /\ mail = <<>> /\ probe = {} /\ ending = 0 /\ contracting = {}
    BY DEF Init
  <2>4. \A p \in Products : subs[1].key # <<"fixed", p>>
    BY <2>2
  <2>5. DOMAIN invoices = {} /\ DOMAIN mail = {}
    BY <2>3
  <2> QED
    BY <2>1, <2>2, <2>3, <2>4, <2>5 DEF Linked, Card, NewCard
<1>2. CASE ~Trial
  <2>1. subs = <<>> /\ invoices = <<>> /\ mail = <<>> /\ probe = {} /\ ending = 0 /\ contracting = {}
    BY <1>2 DEF Init
  <2> QED
    BY <2>1 DEF Linked
<1> QED
  BY <1>1, <1>2

\* a contract writes to a row paid by invoice
LEMMA ContractsLinked ==
  ASSUME Typed, Linked, [Next]_vars
  PROVE  \A c \in contracting' : c.sub \in DOMAIN subs /\ subs[c.sub].mode = "invoice"
<1>0. \A c \in contracting : c.sub \in DOMAIN subs /\ subs[c.sub].mode = "invoice"
  BY DEF Typed, TypeOK, Linked
<1>1. ASSUME NEW p \in Products, NEW k \in Keys, ContractTest(p, k), NEW c \in contracting'
      PROVE  c.sub \in DOMAIN subs /\ subs[c.sub].mode = "invoice"
  <2>1. PICK s \in Keyed(<<"fixed", p>>) :
          contracting' = contracting \cup {[product |-> p, key |-> k, sub |-> s, closed |-> subs[s].status # "pending"]}
    BY <1>1 DEF ContractTest
  <2>2. s \in DOMAIN subs /\ subs[s].mode = "invoice"
    BY DEF Keyed, Linked
  <2>3. c \in contracting \/ c.sub = s
    BY <1>1, <2>1
  <2> QED
    BY <1>0, <2>2, <2>3
<1>2. ASSUME NEW c \in contracting, ContractInsert(c) PROVE contracting' \subseteq contracting
  BY <1>2 DEF ContractInsert
<1>3. ASSUME NEW m \in DOMAIN mail, CardWebhook(m) PROVE contracting' = contracting
  BY <1>3 DEF CardWebhook
<1> QED
  BY <1>0, <1>1, <1>2, <1>3, NotesKept

LEMMA LinkedStep ==
  ASSUME Typed, Linked, [Next]_vars
  PROVE  Linked'
<1>0. /\ \A c \in contracting' : c.sub \in DOMAIN subs /\ subs[c.sub].mode = "invoice"
      /\ \A m \in DOMAIN mail : mail[m].of \in DOMAIN subs /\ subs[mail[m].of].known
      /\ probe \subseteq DOMAIN subs /\ ending \in DOMAIN subs \cup {0}
      /\ \A s \in probe : subs[s].known
      /\ ending # 0 => subs[ending].known
      /\ \A s \in DOMAIN subs : card[s].charged # NoDate => card[s].state # "none"
  BY ContractsLinked DEF Typed, TypeOK, Linked
<1>1. CASE Elsewhere
  <2>1. OthersOnly
    BY <1>1, ElsewhereOthers
  <2>2. \A i \in DOMAIN invoices' :
           \/ i \in DOMAIN invoices /\ invoices'[i].sub = invoices[i].sub
           \/ invoices'[i].sub \in DOMAIN subs' /\ subs'[invoices'[i].sub].mode = "invoice"
    BY <2>1 DEF OthersOnly, BilledTo, Belongs
  <2> QED
    BY <1>0, <2>1, <2>2, LinkedKept DEF OthersOnly
<1>2. ASSUME UNCHANGED <<subs, invoices, mail, card>>,
             probe' \subseteq DOMAIN subs, \A s \in probe' : subs[s].known,
             ending' # 0 => ending' \in DOMAIN subs /\ subs[ending'].known
      PROVE  Linked'
  BY <1>0, <1>2 DEF Linked, Card
<1>3. CASE Probe \/ Tick \/ UNCHANGED vars
  <2>1. UNCHANGED <<subs, invoices, mail, card, ending>>
    BY <1>3 DEF Probe, Tick, vars, rows, core
  <2>2. probe' \subseteq DOMAIN subs /\ \A s \in probe' : subs[s].known
    BY <1>0, <1>3 DEF Probe, Tick, vars
  <2> QED
    BY <1>0, <1>2, <2>1, <2>2
<1>4. ASSUME \A s \in DOMAIN subs' : Alike(s), DOMAIN subs' = DOMAIN subs, UNCHANGED <<invoices, card>>,
             \A m \in DOMAIN mail' : \E n \in DOMAIN mail : mail'[m] = mail[n],
             probe' \subseteq probe, ending' \in {ending, 0}
      PROVE  Linked'
  <2>1. \A m \in DOMAIN mail' : mail'[m].of \in DOMAIN subs /\ subs[mail'[m].of].known
    BY <1>0, <1>4
  <2> QED
    BY <1>0, <1>4, <2>1, LinkedKept
<1>5. ASSUME NEW s \in DOMAIN subs, ProbeAnswer(s) PROVE Linked'
  <2>1. UNCHANGED <<invoices, card, mail, ending>> /\ probe' \subseteq probe /\ s \in probe
    BY <1>5 DEF ProbeAnswer, core
  <2>2. subs[s].known
    BY <1>0, <2>1
  <2>3. DOMAIN subs' = DOMAIN subs /\ \A t \in DOMAIN subs' : Alike(t)
    <3>1. CASE UNCHANGED <<subs, recent>>
      BY <3>1, SameAlike
    <3>2. ASSUME NEW r \in SubRows, Saved(s, r),
                 RowIs(r, subs[s], "active", now + 1, subs[s].cancel, TRUE, subs[s].known)
          PROVE  DOMAIN subs' = DOMAIN subs /\ \A t \in DOMAIN subs' : Alike(t)
      BY <2>2, <3>2, SavedAlike
    <3> QED
      BY <1>5, <3>1, <3>2, ProbeAnswerDoes, Zenon
  <2> QED
    BY <1>4, <2>1, <2>3
<1>6. ASSUME NEW s \in DOMAIN subs, Authorize(s) \/ Charge(s) \/ Chargeback(s) \/ Inactivate(s) PROVE Linked'
  <2>1. UNCHANGED <<now, rows, payment, probe, ending, contracting, ran, history>>
    BY <1>6, CoreDoes
  <2>2. PICK c \in Cards :
          /\ CardSet(s, c)
          /\ subs[s].known \/ card[s].state # "none"
          /\ c.charged # NoDate => c.state # "none"
          /\ mail' = mail \/ \E m : m.of = s /\ Sent(m)
    <3>1. PICK c \in Cards :
              /\ CardSet(s, c)
              /\ \/ /\ subs[s].known /\ c.state = "active" /\ c.charged = card[s].charged
                    /\ mail' = mail
                 \/ /\ card[s].state = "active" /\ (card[s].charged = NoDate \/ now >= card[s].charged + Term)
                    /\ c.state = "active" /\ c.charged = now
                    /\ Sent([of |-> s, event |-> "received", day |-> now])
                 \/ /\ card[s].charged # NoDate
                    /\ c.state = card[s].state /\ c.charged = card[s].charged
                    /\ Sent([of |-> s, event |-> "refunded", day |-> card[s].charged])
                 \/ /\ card[s].state = "active"
                    /\ c.state = "ended" /\ c.charged = card[s].charged
                    /\ Sent([of |-> s, event |-> "inactivated", day |-> now])
      BY <1>6, CoreDoes
    <3>2. mail' = mail \/ \E m : m.of = s /\ Sent(m)
      BY <3>1
    <3>3. subs[s].known \/ card[s].state # "none"
      BY <1>0, <3>1
    <3>4. c.charged # NoDate => c.state # "none"
      BY <1>0, <3>1
    <3> QED
      BY <3>1, <3>2, <3>3, <3>4
  <2>3. subs[s].known
    BY <2>2 DEF Linked
  <2>4. \A m \in DOMAIN mail' : mail'[m].of \in DOMAIN subs /\ subs[mail'[m].of].known
    <3>1. CASE mail' = mail
      BY <1>0, <3>1
    <3>2. ASSUME NEW m, m.of = s, Sent(m)
          PROVE  \A n \in DOMAIN mail' : mail'[n].of \in DOMAIN subs /\ subs[mail'[n].of].known
      BY <1>0, <2>3, <3>2, SentOne
    <3> QED
      BY <2>2, <3>1, <3>2
  <2>5. subs' = subs /\ invoices' = invoices /\ probe' = probe /\ ending' = ending
    BY <2>1 DEF rows
  <2>6. \A t \in DOMAIN subs : card'[t] = card[t] \/ subs[t].known
    BY <2>2, <2>3 DEF CardSet
  <2>7. \A t \in DOMAIN subs : card'[t].charged # NoDate => card'[t].state # "none"
    BY <1>0, <2>2 DEF CardSet
  <2> QED
    BY <1>0, <2>4, <2>5, <2>6, <2>7, SameAlike, LinkedKept
<1>7. CASE Cancel
  <2>1. PICK s \in DOMAIN subs :
           /\ \/ /\ subs[s].mode = "card" /\ subs[s].known /\ ending' = s
                 /\ CardSet(s, [card[s] EXCEPT !.state = "ended"])
                 /\ [card[s] EXCEPT !.state = "ended"] \in Cards
                 /\ \/ card[s].state = "active" /\ Sent([of |-> s, event |-> "ended", day |-> now])
                    \/ mail' = mail
                 /\ UNCHANGED <<subs, recent>>
              \/ /\ RowsTyped' /\ UNCHANGED <<ending, card, mail>>
                 /\ \E r \in SubRows :
                      /\ Saved(s, r)
                      /\ RowIs(r, subs[s], subs[s].status, subs[s].expires, TRUE, subs[s].provisional, subs[s].known)
           /\ UNCHANGED <<now, invoices, seen, payment, probe, contracting, ran, history>>
    BY <1>7, CancelDoes, Zenon
  <2>2. CASE /\ subs[s].mode = "card" /\ subs[s].known /\ ending' = s
             /\ CardSet(s, [card[s] EXCEPT !.state = "ended"])
             /\ \/ card[s].state = "active" /\ Sent([of |-> s, event |-> "ended", day |-> now])
                \/ mail' = mail
             /\ UNCHANGED <<subs, recent>>
    <3>1. \A m \in DOMAIN mail' : mail'[m].of \in DOMAIN subs /\ subs[mail'[m].of].known
      BY <1>0, <2>2, SentOne
    <3>2. card[s] \in Cards
      BY Elements DEF Typed
    <3>3. [card[s] EXCEPT !.state = "ended"].state = "ended"
      BY <3>2 DEF Cards
    <3>4. /\ \A t \in DOMAIN subs : card'[t] = card[t] \/ subs[t].known
          /\ \A t \in DOMAIN subs : card'[t].charged # NoDate => card'[t].state # "none"
      BY <1>0, <2>2, <3>3 DEF CardSet
    <3> QED
      BY <1>0, <2>1, <2>2, <3>1, <3>4, SameAlike, LinkedKept
  <2>3. CASE /\ UNCHANGED <<ending, card, mail>>
             /\ \E r \in SubRows :
                      /\ Saved(s, r)
                      /\ RowIs(r, subs[s], subs[s].status, subs[s].expires, TRUE, subs[s].provisional, subs[s].known)
    <3>1. DOMAIN subs' = DOMAIN subs /\ \A t \in DOMAIN subs' : Alike(t)
      <4>1. PICK r \in SubRows :
              /\ Saved(s, r)
              /\ RowIs(r, subs[s], subs[s].status, subs[s].expires, TRUE, subs[s].provisional, subs[s].known)
        BY <2>3
      <4>2. /\ r.mode = subs[s].mode /\ r.product = subs[s].product /\ r.key = subs[s].key /\ (r.known <=> subs[s].known)
            /\ r.status = subs[s].status
        BY <4>1 DEF RowIs
      <4> QED
        BY <4>1, <4>2, KeptAlike
    <3> QED
      BY <1>4, <2>1, <2>3, <3>1
  <2> QED
    BY <2>1, <2>2, <2>3
<1>8. CASE CancelSave
  <2>1. /\ ending \in DOMAIN subs /\ subs' = [subs EXCEPT ![ending].cancel = TRUE] /\ Touch(ending)
        /\ ending' = 0 /\ UNCHANGED <<now, invoices, seen, core, probe, contracting, ran, history>>
    BY <1>8 DEF CancelSave, Typed, TypeOK
  <2>2. \E r \in SubRows :
          /\ Saved(ending, r)
          /\ RowIs(r, subs[ending], subs[ending].status, subs[ending].expires, TRUE, subs[ending].provisional, subs[ending].known)
    BY <2>1, Canceled
  <2>3. DOMAIN subs' = DOMAIN subs /\ \A t \in DOMAIN subs' : Alike(t)
    <3>1. PICK r \in SubRows :
            /\ Saved(ending, r)
            /\ RowIs(r, subs[ending], subs[ending].status, subs[ending].expires, TRUE,
                     subs[ending].provisional, subs[ending].known)
      BY <2>2
    <3>2. /\ r.mode = subs[ending].mode /\ r.product = subs[ending].product /\ r.key = subs[ending].key /\ (r.known <=> subs[ending].known)
          /\ r.status = subs[ending].status
      BY <3>1 DEF RowIs
    <3> QED
      BY <2>1, <3>1, <3>2, KeptAlike
  <2> QED
    BY <1>4, <2>1, <2>3 DEF core
<1>9. ASSUME NEW m \in DOMAIN mail, CardWebhook(m) PROVE Linked'
  <2>1. /\ mail' \in {mail, Without(m)} /\ Apply(mail[m])
        /\ UNCHANGED <<now, invoices, payment, card, probe, ending, contracting, ran>>
    BY <1>9 DEF CardWebhook
  <2>2. \A k \in DOMAIN mail' : \E n \in DOMAIN mail : mail'[k] = mail[n]
    BY <2>1, DroppedOne
  <2>3. mail[m] \in Mails /\ mail[m].of \in DOMAIN subs
    BY Elements DEF Typed
  <2>4. DOMAIN subs' = DOMAIN subs /\ \A t \in DOMAIN subs' : Alike(t)
    <3> DEFINE s == mail[m].of
               old == subs[s]
    <3>1. CASE UNCHANGED <<subs, recent>>
      BY <3>1, SameAlike
    <3>2. ASSUME NEW r \in SubRows, Saved(s, r),
                 RowIs(r, old, "active", mail[m].day + Term, old.cancel, FALSE, old.known)
          PROVE  DOMAIN subs' = DOMAIN subs /\ \A t \in DOMAIN subs' : Alike(t)
      <4>1. /\ r.mode = old.mode /\ r.product = old.product /\ r.key = old.key /\ (r.known <=> old.known)
            /\ r.status = "active" \/ r.status = old.status
        BY <3>2 DEF RowIs
      <4> QED
        BY <2>3, <3>2, <4>1, KeptAlike
    <3>3. ASSUME NEW r \in SubRows, Saved(s, r),
                 RowIs(r, old, old.status, now - 1, TRUE, old.provisional, old.known)
          PROVE  DOMAIN subs' = DOMAIN subs /\ \A t \in DOMAIN subs' : Alike(t)
      <4>1. /\ r.mode = old.mode /\ r.product = old.product /\ r.key = old.key /\ (r.known <=> old.known)
            /\ r.status = "active" \/ r.status = old.status
        BY <3>3 DEF RowIs
      <4> QED
        BY <2>3, <3>3, <4>1, KeptAlike
    <3> QED
      BY <2>1, <2>3, <3>1, <3>2, <3>3, ApplyDoes, Zenon
  <2> QED
    BY <1>4, <2>1, <2>2, <2>4
<1>10. ASSUME NEW m \in DOMAIN mail, Lose(m) PROVE Linked'
  <2>1. mail' = Without(m) /\ UNCHANGED <<card, now, rows, probe, ending>>
    BY <1>10 DEF Lose, Core
  <2>2. \A k \in DOMAIN mail' : \E n \in DOMAIN mail : mail'[k] = mail[n]
    BY <2>1, DroppedOne
  <2> QED
    BY <1>4, <2>1, <2>2, SameAlike DEF rows
<1> QED
  BY <1>1, <1>3, <1>5, <1>6, <1>7, <1>8, <1>9, <1>10 DEF Next, Elsewhere

-----------------------------------------------------------------------------
(* The invoices of one subscription *)

\* what they are to each other and to its row
Bills ==
  /\ OneTermOpen
  /\ \A j \in DOMAIN invoices :
       invoices[j].status = "paid"
         => subs[invoices[j].sub].status = "active" /\ subs[invoices[j].sub].expires >= Paid(j)
  /\ \A i, j \in DOMAIN invoices :
       invoices[i].status = "pending" /\ invoices[j].status = "paid" /\ invoices[i].sub = invoices[j].sub
         => PaidUntil(i) >= Paid(j)

\* a row to which a contract adds an invoice has others of the same day at most,
\* and is not one that is to be renewed
Client(i) == invoices[i].key \in {"client"} \X Keys
Today(t) ==
  /\ subs[t].status = "active" => subs[t].expires >= now + Term
  /\ \A j \in DOMAIN invoices :
       invoices[j].sub = t =>
         /\ invoices[j].status = "pending" => invoices[j].start = now /\ Client(j)
         /\ invoices[j].status = "paid" => Paid(j) <= now + Term
Todays ==
  \A c \in contracting :
    IF c.closed THEN \A t \in DOMAIN subs \ {c.sub} : subs[t].key = <<"fixed", c.product>> => Today(t)
    ELSE Today(c.sub)

\* a row that is active stays so to the same day, and no other becomes so
StillPaid(s) ==
  /\ subs'[s].status = "active" <=> subs[s].status = "active"
  /\ subs[s].status = "active" => subs'[s].expires = subs[s].expires
SameBill(i) ==
  /\ invoices'[i].sub = invoices[i].sub /\ invoices'[i].start = invoices[i].start
  /\ invoices'[i].status = invoices[i].status /\ invoices'[i].paid = invoices[i].paid
  /\ invoices'[i].key = invoices[i].key

\* what a step of the same day may do to a row and its invoices
BillGrown(i) ==
  \/ /\ i \in DOMAIN invoices
     /\ invoices'[i].sub = invoices[i].sub /\ invoices'[i].start = invoices[i].start
     /\ invoices'[i].key = invoices[i].key
     /\ \/ invoices'[i].status = invoices[i].status /\ invoices'[i].paid = invoices[i].paid
        \/ invoices'[i].status = "canceled"
        \/ invoices[i].status = "pending" /\ invoices'[i].status = "paid" /\ invoices'[i].paid = now
  \/ /\ i \notin DOMAIN invoices
     /\ invoices'[i].status = "pending" /\ invoices'[i].start = now /\ Client(i)'
BillsGrown(t) == \A i \in DOMAIN invoices' : invoices'[i].sub = t => BillGrown(i)
RowGrown(t) ==
  subs'[t].status = "active" =>
    \/ subs'[t].expires >= now + Term
    \/ subs[t].status = "active" /\ subs'[t].expires >= subs[t].expires
Grown(t) == BillsGrown(t) /\ RowGrown(t)
\* a row that has a fixed key had it before, or is new
FixedRow(t) ==
  \A p \in Products :
    subs'[t].key = <<"fixed", p>> =>
      \/ t \in DOMAIN subs /\ subs[t].key = <<"fixed", p>>
      \/ t \notin DOMAIN subs /\ subs'[t].status = "pending" /\ BillsGrown(t)

Dates ==
  /\ now \in Nat /\ Term \in Nat /\ Lead \in Nat /\ Lead < Term
  /\ \A i \in DOMAIN invoices :
       invoices[i].start \in Int /\ invoices[i].paid \in Int /\ invoices[i].sub \in DOMAIN subs
  /\ \A s \in DOMAIN subs : subs[s].expires \in Int

LEMMA DatesHold == ASSUME Typed PROVE Dates
<1>1. \A i \in DOMAIN invoices : invoices[i] \in InvoiceRows /\ invoices[i].sub \in DOMAIN subs
  BY Elements DEF Typed
<1>2. \A s \in DOMAIN subs : subs[s] \in SubRows
  BY Elements DEF Typed
<1>3. now \in Nat
  BY DEF Typed, TypeOK
<1> QED
  BY <1>1, <1>2, <1>3, BillingAssumption DEF Dates, InvoiceRows, SubRows

LEMMA NewDates == ASSUME Typed' PROVE \A t \in DOMAIN subs' : subs'[t].expires \in Int
<1>1. subs' \in Seq(SubRows)
  BY DEF Typed, TypeOK
<1>2. DOMAIN subs' = 1 .. Len(subs')
  BY <1>1, LenProperties
<1>3. \A t \in DOMAIN subs' : subs'[t] \in SubRows
  BY <1>1, <1>2, ElementOfSeq
<1> QED
  BY <1>3 DEF SubRows

LEMMA SamePaid ==
  ASSUME NEW i, SameBill(i)
  PROVE  Paid(i)' = Paid(i)
BY DEF SameBill, Paid

LEMMA TodayGrows ==
  ASSUME Typed, Typed', NEW t \in DOMAIN subs, t \in DOMAIN subs', Today(t), Grown(t), now' = now
  PROVE  Today(t)'
<1>0. Dates /\ subs'[t].expires \in Int
  BY DatesHold, NewDates
<1>1. subs'[t].status = "active" => subs'[t].expires >= now + Term
  BY <1>0 DEF Today, Grown, RowGrown, Dates
<1>2. ASSUME NEW j \in DOMAIN invoices', invoices'[j].sub = t
      PROVE  /\ invoices'[j].status = "pending" => invoices'[j].start = now /\ Client(j)'
             /\ invoices'[j].status = "paid" => Paid(j)' <= now + Term
  <2>1. BillGrown(j)
    BY <1>2 DEF Grown, BillsGrown
  <2>2. CASE j \notin DOMAIN invoices
    BY <2>1, <2>2 DEF BillGrown
  <2>3. CASE j \in DOMAIN invoices
    <3>1. /\ invoices[j].sub = t /\ invoices'[j].start = invoices[j].start /\ invoices'[j].key = invoices[j].key
          /\ \/ invoices'[j].status = invoices[j].status /\ invoices'[j].paid = invoices[j].paid
             \/ invoices'[j].status = "canceled"
             \/ invoices[j].status = "pending" /\ invoices'[j].status = "paid" /\ invoices'[j].paid = now
      BY <1>2, <2>1, <2>3 DEF BillGrown
    <3>2. /\ invoices[j].status = "pending" => invoices[j].start = now /\ Client(j)
          /\ invoices[j].status = "paid" => Paid(j) <= now + Term
      BY <2>3, <3>1 DEF Today
    <3>3. Client(j) => Client(j)'
      BY <3>1 DEF Client
    <3>4. invoices'[j].status = "paid" => Paid(j)' <= now + Term
      <4>1. CASE invoices'[j].status = invoices[j].status /\ invoices'[j].paid = invoices[j].paid
        BY <3>1, <3>2, <4>1 DEF Paid
      <4>2. CASE invoices[j].status = "pending" /\ invoices'[j].status = "paid" /\ invoices'[j].paid = now
        <5>1. invoices'[j].start = now /\ invoices'[j].paid = now
          BY <3>1, <3>2, <4>2
        <5> QED
          BY <1>0, <5>1 DEF Paid, Dates
      <4> QED
        BY <3>1, <4>1, <4>2
    <3>5. invoices'[j].status = "pending" => invoices[j].status = "pending"
      BY <3>1
    <3> QED
      BY <3>1, <3>2, <3>3, <3>4, <3>5
  <2> QED
    BY <2>2, <2>3
<1> QED
  BY <1>1, <1>2 DEF Today

LEMMA TodaysGo ==
  ASSUME Typed, Typed', Linked, Todays, now' = now, contracting' \subseteq contracting,
         DOMAIN subs \subseteq DOMAIN subs',
         \A t \in DOMAIN subs : ~Card(t) /\ Today(t) => Grown(t),
         \A t \in DOMAIN subs' : FixedRow(t)
  PROVE  Todays'
<1>1. ASSUME NEW t \in DOMAIN subs, ~Card(t), Today(t) PROVE Today(t)'
  BY <1>1, TodayGrows
<1>2. ASSUME NEW c \in contracting', c.closed, NEW t \in DOMAIN subs' \ {c.sub},
             subs'[t].key = <<"fixed", c.product>>
      PROVE  Today(t)'
  <2>1. c \in contracting /\ c.product \in Products
    BY DEF Typed, TypeOK
  <2>2. CASE t \in DOMAIN subs /\ subs[t].key = <<"fixed", c.product>>
    <3>1. Today(t)
      BY <1>2, <2>1, <2>2 DEF Todays
    <3>2. ~Card(t)
      BY <2>1, <2>2 DEF Linked, Card
    <3> QED
      BY <1>1, <2>2, <3>1, <3>2
  <2>3. CASE t \notin DOMAIN subs /\ subs'[t].status = "pending" /\ BillsGrown(t)
    <3>1. \A i \in DOMAIN invoices : invoices[i].sub # t
      BY <2>3, DatesHold DEF Dates
    <3>2. ASSUME NEW i \in DOMAIN invoices', invoices'[i].sub = t
          PROVE  invoices'[i].status = "pending" /\ invoices'[i].start = now /\ Client(i)'
      <4>1. BillGrown(i)
        BY <2>3, <3>2 DEF BillsGrown
      <4> QED
        BY <3>1, <3>2, <4>1 DEF BillGrown
    <3> QED
      BY <2>3, <3>2 DEF Today
  <2> QED
    BY <1>2, <2>1, <2>2, <2>3 DEF FixedRow
<1>3. ASSUME NEW c \in contracting', ~c.closed PROVE Today(c.sub)'
  <2>1. c \in contracting /\ c.sub \in DOMAIN subs /\ Today(c.sub)
    BY <1>3 DEF Typed, TypeOK, Todays
  <2>2. ~Card(c.sub)
    BY <2>1 DEF Linked, Card
  <2> QED
    BY <1>1, <2>1, <2>2
<1> QED
  BY <1>2, <1>3 DEF Todays

LEMMA BillsKept ==
  ASSUME Typed, Bills, DOMAIN invoices' = DOMAIN invoices, now' \in Nat, now <= now',
         \A i \in DOMAIN invoices : SameBill(i) /\ StillPaid(invoices[i].sub)
  PROVE  Bills'
<1>0. Dates
  BY DatesHold
<1>1. \A i \in DOMAIN invoices : Paid(i)' = Paid(i) /\ Paid(i) \in Int
  BY <1>0, SamePaid DEF Dates, Paid
<1>2. OneTermOpen'
  BY DEF Bills, OneTermOpen, SameBill
<1>3. \A j \in DOMAIN invoices' :
        invoices'[j].status = "paid"
          => subs'[invoices'[j].sub].status = "active" /\ subs'[invoices'[j].sub].expires >= Paid(j)'
  BY <1>1 DEF Bills, SameBill, StillPaid
<1>4. \A i \in DOMAIN invoices : PaidUntil(i)' >= PaidUntil(i) /\ PaidUntil(i) \in Int /\ PaidUntil(i)' \in Int
  BY <1>0 DEF Dates, SameBill, PaidUntil
<1>5. ASSUME NEW i \in DOMAIN invoices', NEW j \in DOMAIN invoices',
             invoices'[i].status = "pending", invoices'[j].status = "paid", invoices'[i].sub = invoices'[j].sub
      PROVE  PaidUntil(i)' >= Paid(j)'
  <2>1. PaidUntil(i) >= Paid(j)
    BY <1>5 DEF Bills, SameBill
  <2> QED
    BY <1>1, <1>4, <2>1
<1> QED
  BY <1>2, <1>3, <1>5 DEF Bills

LEMMA GrownKept ==
  ASSUME Typed, NEW t \in DOMAIN subs, StillPaid(t), DOMAIN invoices' = DOMAIN invoices,
         \A i \in DOMAIN invoices : SameBill(i)
  PROVE  Grown(t)
<1>1. \A i \in DOMAIN invoices' : BillGrown(i)
  BY DEF SameBill, BillGrown
<1>2. RowGrown(t)
  BY DatesHold DEF Dates, StillPaid, RowGrown
<1> QED
  BY <1>1, <1>2 DEF Grown, BillsGrown

\* an invoice is added that pays for the same time as those that wait on its row,
\* and for no less than those that are paid
LEMMA BillsOneMore ==
  ASSUME Typed, Bills, now' = now, \A s \in DOMAIN subs : StillPaid(s),
         NEW v, Billed(<<v>>), v.status = "pending",
         \A i \in DOMAIN invoices :
           invoices[i].sub = v.sub =>
             /\ invoices[i].status = "pending"
                  => invoices[i].start = v.start /\ Client(i) /\ v.key \in {"client"} \X Keys
             /\ invoices[i].status = "paid" => v.start = now /\ Paid(i) <= now + Term
  PROVE  Bills'
<1> DEFINE n == Len(invoices) + 1
<1>0. Dates
  BY DatesHold
<1>1. DOMAIN invoices' = DOMAIN invoices \cup {n} /\ n \notin DOMAIN invoices /\ invoices'[n] = v
  BY OneBilled
<1>2. \A i \in DOMAIN invoices : invoices'[i] = invoices[i]
  BY OneBilled
<1>3. \A i \in DOMAIN invoices :
        /\ invoices[i].sub \in DOMAIN subs /\ Paid(i)' = Paid(i) /\ PaidUntil(i)' = PaidUntil(i)
        /\ Paid(i) \in Int
  <2>1. \A i \in DOMAIN invoices : SameBill(i)
    BY <1>2 DEF SameBill
  <2> QED
    BY <1>0, <1>2, <2>1, SamePaid DEF Dates, Paid, PaidUntil
<1> HIDE DEF n
<1>4. OneTermOpen'
  <2>1. ASSUME NEW i \in DOMAIN invoices', NEW j \in DOMAIN invoices', i # j,
               invoices'[i].sub = invoices'[j].sub,
               invoices'[i].status = "pending", invoices'[j].status = "pending"
        PROVE  /\ invoices'[i].start = invoices'[j].start
               /\ invoices'[i].key \in {"client"} \X Keys /\ invoices'[j].key \in {"client"} \X Keys
    <3>1. CASE i \in DOMAIN invoices /\ j \in DOMAIN invoices
      BY <1>2, <2>1, <3>1 DEF Bills, OneTermOpen
    <3>2. CASE i = n
      BY <1>1, <1>2, <2>1, <3>2 DEF Client
    <3>3. CASE j = n
      BY <1>1, <1>2, <2>1, <3>3 DEF Client
    <3> QED
      BY <1>1, <3>1, <3>2, <3>3
  <2> QED
    BY <2>1 DEF OneTermOpen
<1>5. \A j \in DOMAIN invoices' :
        invoices'[j].status = "paid"
          => subs'[invoices'[j].sub].status = "active" /\ subs'[invoices'[j].sub].expires >= Paid(j)'
  BY <1>1, <1>2, <1>3 DEF Bills, StillPaid
<1>6. ASSUME NEW i \in DOMAIN invoices', NEW j \in DOMAIN invoices',
             invoices'[i].status = "pending", invoices'[j].status = "paid", invoices'[i].sub = invoices'[j].sub
      PROVE  PaidUntil(i)' >= Paid(j)'
  <2>1. j \in DOMAIN invoices /\ invoices[j].status = "paid"
    BY <1>1, <1>2, <1>6
  <2>2. CASE i \in DOMAIN invoices
    BY <1>2, <1>3, <1>6, <2>1, <2>2 DEF Bills
  <2>3. CASE i = n
    <3>1. invoices[j].sub = v.sub /\ v.start = now /\ Paid(j) <= now + Term
      BY <1>1, <1>2, <1>6, <2>1, <2>3
    <3>2. PaidUntil(i)' = now + Term
      BY <1>0, <1>1, <2>3, <3>1 DEF PaidUntil, Dates
    <3> QED
      BY <1>0, <1>3, <2>1, <3>1, <3>2 DEF Dates
  <2> QED
    BY <1>1, <2>2, <2>3
<1> QED
  BY <1>4, <1>5, <1>6 DEF Bills

LEMMA GrownOneMore ==
  ASSUME Typed, now' = now, NEW v, Billed(<<v>>), v.status = "pending", v.start = now,
         v.key \in {"client"} \X Keys
  PROVE  /\ \A t : BillsGrown(t)
         /\ \A t \in DOMAIN subs : StillPaid(t) => Grown(t)
<1>1. /\ DOMAIN invoices' = DOMAIN invoices \cup {Len(invoices) + 1}
      /\ Len(invoices) + 1 \notin DOMAIN invoices
      /\ invoices'[Len(invoices) + 1] = v
      /\ \A i \in DOMAIN invoices : invoices'[i] = invoices[i]
  BY OneBilled
<1>2. ASSUME NEW i \in DOMAIN invoices', i \notin DOMAIN invoices PROVE BillGrown(i)
  <2>1. invoices'[i] = v
    BY <1>1, <1>2
  <2>2. Client(i)'
    BY <2>1 DEF Client
  <2> QED
    BY <1>2, <2>1, <2>2 DEF BillGrown
<1>3. \A i \in DOMAIN invoices : BillGrown(i)
  BY <1>1 DEF BillGrown
<1>4. \A t : BillsGrown(t)
  BY <1>1, <1>2, <1>3 DEF BillsGrown
<1>5. \A t \in DOMAIN subs : StillPaid(t) => RowGrown(t)
  BY DatesHold DEF Dates, StillPaid, RowGrown
<1> QED
  BY <1>4, <1>5 DEF Grown

LEMMA ClientInvoice ==
  ASSUME NEW s, NEW k \in Keys
  PROVE  LET v == Invoice(s, now, <<"client", k>>)
         IN  v.sub = s /\ v.start = now /\ v.status = "pending" /\ v.key \in {"client"} \X Keys
BY NewBill

LEMMA BillsNewOne ==
  ASSUME Typed, Typed', Linked, Bills, Todays, NEW p \in Products, NEW k \in Keys, NewOne(p, k), now' = now,
         contracting' \subseteq contracting
  PROVE  Bills' /\ Todays'
<1> DEFINE fixed == <<"fixed", p>>
           v == Invoice(Len(subs) + 1, now, <<"client", k>>)
<1>0. /\ \A i \in DOMAIN invoices : invoices[i].sub \in DOMAIN subs
      /\ Len(subs) \in Nat /\ DOMAIN subs = 1 .. Len(subs)
  BY Elements DEF Typed
<1>1. Added(Keyed(fixed), GivenUp(p), Row("invoice", p, fixed)) /\ Billed(<<v>>)
  BY DEF NewOne
<1>2. v.sub = Len(subs) + 1 /\ v.start = now /\ v.status = "pending" /\ v.key \in {"client"} \X Keys
  BY ClientInvoice
<1>3. \A t \in DOMAIN subs : subs'[t] = GivenUp(p)[t]
  BY <1>1 DEF Added
<1>4. \A s \in DOMAIN subs : StillPaid(s)
  BY <1>3, GivenUpFields DEF StillPaid
<1> HIDE DEF v
<1>5. \A i \in DOMAIN invoices : invoices[i].sub # v.sub
  BY <1>0, <1>2
<1>6. Bills'
  BY <1>1, <1>2, <1>4, <1>5, BillsOneMore
<1>7. (\A t : BillsGrown(t)) /\ \A t \in DOMAIN subs : Grown(t)
  BY <1>1, <1>2, <1>4, GrownOneMore
<1>8. ASSUME NEW t \in DOMAIN subs' PROVE FixedRow(t)
  <2>1. CASE t \in DOMAIN subs
    BY <1>3, <2>1, GivenUpFields DEF FixedRow
  <2>2. CASE t \notin DOMAIN subs
    <3>1. subs'[t] = Row("invoice", p, fixed)
      BY <1>1, <2>2 DEF Added
    <3>2. subs'[t].status = "pending"
      BY <3>1 DEF Row
    <3> QED
      BY <1>7, <2>2, <3>2 DEF FixedRow
  <2> QED
    BY <2>1, <2>2
<1>9. Todays'
  BY <1>1, <1>7, <1>8, TodaysGo DEF Added
<1> QED
  BY <1>6, <1>9

LEMMA BillsInsert ==
  ASSUME Typed, Typed', Linked, Bills, Todays, NEW c \in contracting, ContractInsert(c)
  PROVE  Bills' /\ Todays'
<1>0. /\ c.product \in Products /\ c.key \in Keys /\ c.sub \in DOMAIN subs
      /\ now' = now /\ contracting' \subseteq contracting
      /\ \/ UNCHANGED <<subs, recent, card, invoices, payment>>
         \/ NewOne(c.product, c.key)
         \/ \E s \in DOMAIN subs :
              /\ IF c.closed THEN s # c.sub /\ s \in Keyed(<<"fixed", c.product>>) ELSE s = c.sub
              /\ Billed(<<Invoice(s, now, <<"client", c.key>>)>>)
              /\ UNCHANGED <<subs, recent, card>>
  BY InsertDoes
<1>1. CASE NewOne(c.product, c.key)
  BY <1>0, <1>1, BillsNewOne
<1>2. ASSUME UNCHANGED subs PROVE (\A t \in DOMAIN subs : StillPaid(t)) /\ \A t \in DOMAIN subs' : FixedRow(t)
  BY <1>2 DEF StillPaid, FixedRow
<1>3. CASE UNCHANGED <<subs, recent, card, invoices, payment>>
  <2>1. \A i \in DOMAIN invoices : SameBill(i) /\ invoices[i].sub \in DOMAIN subs
    BY <1>3, DatesHold DEF SameBill, Dates
  <2>2. now \in Nat
    BY DatesHold DEF Dates
  <2>3. Bills'
    BY <1>0, <1>2, <1>3, <2>1, <2>2, BillsKept
  <2>4. \A t \in DOMAIN subs : Grown(t)
    BY <1>2, <1>3, <2>1, GrownKept
  <2>5. Todays'
    BY <1>0, <1>2, <1>3, <2>4, TodaysGo
  <2> QED
    BY <2>3, <2>5
<1>4. ASSUME NEW s \in DOMAIN subs,
             IF c.closed THEN s # c.sub /\ s \in Keyed(<<"fixed", c.product>>) ELSE s = c.sub,
             Billed(<<Invoice(s, now, <<"client", c.key>>)>>), UNCHANGED <<subs, recent, card>>
      PROVE  Bills' /\ Todays'
  <2> DEFINE v == Invoice(s, now, <<"client", c.key>>)
  <2>1. v.sub = s /\ v.start = now /\ v.status = "pending" /\ v.key \in {"client"} \X Keys
    BY <1>0, ClientInvoice
  <2>2. Today(s)
    BY <1>0, <1>4 DEF Todays, Keyed
  <2> HIDE DEF v
  <2>3. \A i \in DOMAIN invoices :
           invoices[i].sub = v.sub =>
             /\ invoices[i].status = "pending"
                  => invoices[i].start = v.start /\ Client(i) /\ v.key \in {"client"} \X Keys
             /\ invoices[i].status = "paid" => v.start = now /\ Paid(i) <= now + Term
    BY <2>1, <2>2 DEF Today
  <2>4. Bills'
    BY <1>0, <1>2, <1>4, <2>1, <2>3, BillsOneMore DEF v
  <2>5. \A t \in DOMAIN subs : Grown(t)
    BY <1>0, <1>2, <1>4, <2>1, GrownOneMore DEF v
  <2>6. Todays'
    BY <1>0, <1>2, <1>4, <2>5, TodaysGo
  <2> QED
    BY <2>4, <2>6
<1> QED
  BY <1>0, <1>1, <1>3, <1>4

\* a contract reads its row when none of its invoices waits or was paid
LEMMA BillsTest ==
  ASSUME Typed, Linked, Bills, Todays, NEW p \in Products, NEW k \in Keys, ContractTest(p, k)
  PROVE  Bills' /\ Todays'
<1>1. UNCHANGED <<now, subs, invoices>>
  BY DEF ContractTest, rows
<1>2. Bills'
  BY <1>1 DEF Bills, OneTermOpen, Paid, PaidUntil
<1>3. PICK s \in Keyed(<<"fixed", p>>) :
        /\ subs[s].status = "pending" => ~Open(s)
        /\ contracting' = contracting \cup {[product |-> p, key |-> k, sub |-> s, closed |-> subs[s].status # "pending"]}
  BY DEF ContractTest
<1> DEFINE d == [product |-> p, key |-> k, sub |-> s, closed |-> subs[s].status # "pending"]
<1>4. s \in DOMAIN subs /\ subs[s].key = <<"fixed", p>>
  BY DEF Keyed
<1>5. d.closed \/ Today(s)
  <2>1. CASE subs[s].status = "pending"
    <3>1. \A i \in DOMAIN invoices : invoices[i].sub = s => invoices[i].status # "pending"
      BY <1>3, <2>1 DEF Open
    <3>2. \A i \in DOMAIN invoices : invoices[i].sub = s => invoices[i].status # "paid"
      BY <2>1 DEF Bills
    <3> QED
      BY <2>1, <3>1, <3>2 DEF Today
  <2>2. CASE subs[s].status # "pending"
    BY <2>2
  <2> QED
    BY <2>1, <2>2
<1>6. \A t \in DOMAIN subs \ {s} : subs[t].key # <<"fixed", p>>
  BY <1>4 DEF Typed, RowsApart
<1>7. d.product = p /\ d.sub = s
  OBVIOUS
<1>8. contracting' = contracting \cup {d}
  BY <1>3
<1> HIDE DEF d
<1>9. \A t \in DOMAIN subs : Today(t) <=> Today(t)'
  BY <1>1 DEF Today, Paid, Client
<1>10. ASSUME NEW c \in contracting'
       PROVE  IF c.closed THEN \A t \in DOMAIN subs \ {c.sub} : subs[t].key = <<"fixed", c.product>> => Today(t)
              ELSE Today(c.sub) /\ c.sub \in DOMAIN subs
  <2>1. CASE c \in contracting
    BY <2>1 DEF Todays, Typed, TypeOK
  <2>2. CASE c = d
    BY <1>4, <1>5, <1>6, <1>7, <2>2
  <2> QED
    BY <1>8, <2>1, <2>2
<1>11. Todays'
  BY <1>1, <1>9, <1>10 DEF Todays
<1> QED
  BY <1>2, <1>11

LEMMA BillsRetry ==
  ASSUME Typed, Typed', Linked, Bills, Todays, NEW i \in DOMAIN invoices, Retry(i)
  PROVE  Bills' /\ Todays'
<1> DEFINE s == invoices[i].sub
           v == Invoice(Len(subs) + 1, now, <<"retry", i>>)
           row == Row("invoice", subs[s].product, <<"retry", i>>)
<1>0. /\ \A j \in DOMAIN invoices : invoices[j].sub \in DOMAIN subs
      /\ Len(subs) \in Nat /\ DOMAIN subs = 1 .. Len(subs)
      /\ s \in DOMAIN subs /\ subs[s] \in SubRows
  BY Elements DEF Typed
<1>1. PICK S \in SUBSET {s}, rest \in Seq(SubRows) :
        /\ Added(S, rest, row)
        /\ \A t \in DOMAIN subs \ {s} : rest[t] = subs[t]
        /\ rest[s] = [subs[s] EXCEPT !.status = "canceled"]
        /\ subs[s].status \notin Live
        /\ Billed(<<v>>)
        /\ UNCHANGED <<now, seen, mail, probe, ending, contracting, ran, history>>
  BY RetryDoes, Zenon
<1>2. v.sub = Len(subs) + 1 /\ v.status = "pending"
  BY NewBill
<1>2a. rest[s].key = subs[s].key /\ rest[s].status = "canceled"
  BY <1>0, <1>1 DEF SubRows
<1>2b. row.key = <<"retry", i>>
  BY DEF Row
<1> HIDE DEF row
<1>3. ASSUME NEW t \in DOMAIN subs PROVE StillPaid(t) /\ subs'[t].key = subs[t].key
  <2>1. subs'[t] = rest[t]
    BY <1>1 DEF Added
  <2>2. CASE t = s
    BY <1>1, <1>2a, <2>1, <2>2 DEF StillPaid, Live
  <2>3. CASE t # s
    BY <1>1, <2>1, <2>3 DEF StillPaid
  <2> QED
    BY <2>2, <2>3
<1> HIDE DEF v, s
<1>4. \A j \in DOMAIN invoices : invoices[j].sub # v.sub
  BY <1>0, <1>2
<1>5. Bills'
  BY <1>1, <1>2, <1>3, <1>4, BillsOneMore
<1>6. ASSUME NEW t \in DOMAIN subs' PROVE FixedRow(t)
  <2>1. CASE t \in DOMAIN subs
    BY <1>3, <2>1 DEF FixedRow
  <2>2. CASE t \notin DOMAIN subs
    <3>1. subs'[t] = row
      BY <1>1, <2>2 DEF Added
    <3>2. \A q \in Products : subs'[t].key # <<"fixed", q>>
      BY <1>2b, <3>1
    <3> QED
      BY <3>2 DEF FixedRow
  <2> QED
    BY <2>1, <2>2
<1>7. ASSUME NEW t \in DOMAIN subs PROVE Grown(t)
  <2>1. /\ DOMAIN invoices' = DOMAIN invoices \cup {Len(invoices) + 1}
        /\ invoices'[Len(invoices) + 1] = v
        /\ \A j \in DOMAIN invoices : invoices'[j] = invoices[j]
    BY <1>1, OneBilled
  <2>2. v.sub # t
    BY <1>0, <1>2
  <2>3. BillsGrown(t)
    BY <2>1, <2>2 DEF BillsGrown, BillGrown
  <2>4. RowGrown(t)
    BY <1>3, DatesHold DEF Dates, StillPaid, RowGrown
  <2> QED
    BY <2>3, <2>4 DEF Grown
<1>8. Todays'
  BY <1>1, <1>6, <1>7, TodaysGo DEF Added
<1> QED
  BY <1>5, <1>8

LEMMA BillsSettle ==
  ASSUME Typed, Typed', Linked, Bills, Todays, NEW i \in DOMAIN invoices, NEW outcome, Settle(i, outcome),
         UNCHANGED <<now, contracting>>
  PROVE  Bills' /\ Todays'
<1> DEFINE s == invoices[i].sub
<1>0. Dates /\ now \in Nat /\ Term \in Nat
  BY DatesHold DEF Dates
<1>0a. \A j \in DOMAIN invoices : PaidUntil(j) \in Int /\ Paid(j) \in Int
  BY <1>0 DEF Dates, Paid, PaidUntil
<1>0b. s \in DOMAIN subs
  BY <1>0 DEF Dates
<1>1. CASE UNCHANGED <<invoices, subs, recent>>
  <2>1. \A j \in DOMAIN invoices : SameBill(j) /\ invoices[j].sub \in DOMAIN subs
    BY <1>0, <1>1 DEF SameBill, Dates
  <2>2. (\A t \in DOMAIN subs : StillPaid(t)) /\ \A t \in DOMAIN subs' : FixedRow(t)
    BY <1>1 DEF StillPaid, FixedRow
  <2>3. Bills'
    BY <1>0, <1>1, <2>1, <2>2, BillsKept
  <2>4. \A t \in DOMAIN subs : Grown(t)
    BY <1>1, <2>1, <2>2, GrownKept
  <2> QED
    BY <1>1, <2>2, <2>3, <2>4, TodaysGo
<1>2. ASSUME invoices[i].status = "pending",
             NEW v \in InvoiceRows, BillIs(v, invoices[i], "paid", now), Marked(i, v),
             NEW r \in SubRows, Saved(s, r),
             RowIs(r, subs[s], "active", PaidUntil(i), subs[s].cancel, subs[s].provisional, subs[s].known)
      PROVE  Bills' /\ Todays'
  <2>1. DOMAIN invoices' = DOMAIN invoices /\ invoices'[i] = v
        /\ \A j \in DOMAIN invoices : j # i => invoices'[j] = invoices[j]
    BY <1>2 DEF Marked
  <2>2. /\ invoices'[i].sub = s /\ invoices'[i].start = invoices[i].start /\ invoices'[i].key = invoices[i].key
        /\ invoices'[i].status = "paid" /\ invoices'[i].paid = now
    BY <1>2, <2>1 DEF BillIs
  <2>3. \A j \in DOMAIN invoices : j # i => Paid(j)' = Paid(j) /\ PaidUntil(j)' = PaidUntil(j)
    BY <2>1 DEF Paid, PaidUntil
  <2>4. Paid(i)' = PaidUntil(i)
    BY <2>2 DEF Paid, PaidUntil
  <2>6. subs'[s].status = "active" /\ subs'[s].expires = PaidUntil(i) /\ subs'[s].key = subs[s].key
    BY <1>2 DEF Saved, RowIs
  <2>7. DOMAIN subs' = DOMAIN subs /\ \A t \in DOMAIN subs : t # s => subs'[t] = subs[t]
    BY <1>2 DEF Saved
  <2>8. OneTermOpen'
    BY <2>1, <2>2 DEF Bills, OneTermOpen
  <2>9. ASSUME NEW j \in DOMAIN invoices', invoices'[j].status = "paid"
        PROVE  subs'[invoices'[j].sub].status = "active" /\ subs'[invoices'[j].sub].expires >= Paid(j)'
    <3>1. CASE j = i
      BY <1>0a, <2>2, <2>4, <2>6, <3>1
    <3>2. CASE j # i /\ invoices[j].sub = s
      <4>1. PaidUntil(i) >= Paid(j)
        BY <1>2, <2>1, <2>9, <3>2 DEF Bills
      <4> QED
        BY <2>1, <2>3, <2>6, <3>2, <4>1
    <3>3. CASE j # i /\ invoices[j].sub # s
      BY <1>0, <2>1, <2>3, <2>7, <2>9, <3>3 DEF Bills, Dates
    <3> QED
      BY <3>1, <3>2, <3>3
  <2>10. ASSUME NEW a \in DOMAIN invoices', NEW b \in DOMAIN invoices',
                invoices'[a].status = "pending", invoices'[b].status = "paid", invoices'[a].sub = invoices'[b].sub
         PROVE  PaidUntil(a)' >= Paid(b)'
    <3>1. a # i
      BY <2>2, <2>10
    <3>2. CASE b = i
      <4>1. invoices[a].status = "pending" /\ invoices[a].sub = s
        BY <2>1, <2>2, <2>10, <3>1, <3>2
      <4>2. invoices[a].start = invoices[i].start
        BY <1>2, <2>1, <3>1, <4>1 DEF Bills, OneTermOpen
      <4>3. PaidUntil(a) = PaidUntil(i)
        BY <4>2 DEF PaidUntil
      <4> QED
        BY <1>0a, <2>1, <2>3, <2>4, <3>1, <3>2, <4>3
    <3>3. CASE b # i
      BY <2>1, <2>3, <2>10, <3>1, <3>3 DEF Bills
    <3> QED
      BY <3>2, <3>3
  <2>11. Bills'
    BY <2>8, <2>9, <2>10 DEF Bills
  <2>12. \A j \in DOMAIN invoices' : BillGrown(j)
    BY <1>2, <2>1, <2>2 DEF BillGrown
  <2>13. ASSUME NEW t \in DOMAIN subs PROVE RowGrown(t)
    <3>1. CASE t = s
      BY <1>0, <2>6, <3>1 DEF RowGrown, PaidUntil, Dates
    <3>2. CASE t # s
      BY <1>0, <2>7, <3>2 DEF RowGrown, Dates
    <3> QED
      BY <3>1, <3>2
  <2>14. ASSUME NEW t \in DOMAIN subs' PROVE FixedRow(t)
    BY <2>6, <2>7 DEF FixedRow
  <2>15. Todays'
    BY <2>7, <2>12, <2>13, <2>14, TodaysGo DEF Grown, BillsGrown
  <2> QED
    BY <2>11, <2>15
<1>3. ASSUME NEW v \in InvoiceRows, BillIs(v, invoices[i], "canceled", invoices[i].paid), Marked(i, v),
             UNCHANGED <<subs, recent>>
      PROVE  Bills' /\ Todays'
  <2>1. DOMAIN invoices' = DOMAIN invoices /\ invoices'[i] = v
        /\ \A j \in DOMAIN invoices : j # i => invoices'[j] = invoices[j]
    BY <1>3 DEF Marked
  <2>2. /\ invoices'[i].status = "canceled" /\ invoices'[i].sub = s
        /\ invoices'[i].start = invoices[i].start /\ invoices'[i].key = invoices[i].key
    BY <1>3, <2>1 DEF BillIs
  <2>3. \A j \in DOMAIN invoices : j # i => Paid(j)' = Paid(j) /\ PaidUntil(j)' = PaidUntil(j)
    BY <2>1 DEF Paid, PaidUntil
  <2>4. OneTermOpen'
    BY <2>1, <2>2 DEF Bills, OneTermOpen
  <2>5. \A j \in DOMAIN invoices' :
          invoices'[j].status = "paid"
            => subs'[invoices'[j].sub].status = "active" /\ subs'[invoices'[j].sub].expires >= Paid(j)'
    BY <1>3, <2>1, <2>2, <2>3 DEF Bills
  <2>6. \A a, b \in DOMAIN invoices' :
          invoices'[a].status = "pending" /\ invoices'[b].status = "paid" /\ invoices'[a].sub = invoices'[b].sub
            => PaidUntil(a)' >= Paid(b)'
    BY <2>1, <2>2, <2>3 DEF Bills
  <2>7. Bills'
    BY <2>4, <2>5, <2>6 DEF Bills
  <2>8. \A j \in DOMAIN invoices' : BillGrown(j)
    BY <2>1, <2>2 DEF BillGrown
  <2>9. (\A t \in DOMAIN subs : RowGrown(t)) /\ \A t \in DOMAIN subs' : FixedRow(t)
    BY <1>0, <1>3 DEF RowGrown, FixedRow, Dates
  <2>10. Todays'
    BY <1>3, <2>8, <2>9, TodaysGo DEF Grown, BillsGrown
  <2> QED
    BY <2>7, <2>10
<1> HIDE DEF s
<1>4. \/ UNCHANGED <<invoices, subs, recent>>
      \/ /\ invoices[i].status = "pending"
         /\ \E v \in InvoiceRows : BillIs(v, invoices[i], "paid", now) /\ Marked(i, v)
         /\ \E r \in SubRows :
              /\ Saved(s, r)
              /\ RowIs(r, subs[s], "active", PaidUntil(i), subs[s].cancel, subs[s].provisional, subs[s].known)
      \/ /\ \E v \in InvoiceRows : BillIs(v, invoices[i], "canceled", invoices[i].paid) /\ Marked(i, v)
         /\ UNCHANGED <<subs, recent>>
  BY SettleDoes, Zenon DEF s
<1> QED
  BY <1>1, <1>2, <1>3, <1>4

LEMMA BillsDue ==
  ASSUME Typed, Typed', Linked, Bills, Todays, GenerateDue
  PROVE  Bills' /\ Todays'
<1> DEFINE S == {s \in Due : ~Open(s)}
           new == NextInvoices(S)
<1>0. Dates /\ now \in Nat
  BY DatesHold DEF Dates
<1>1. /\ UNCHANGED <<now, subs>>
      /\ \/ UNCHANGED invoices
         \/ /\ Billed(new) /\ S \in SUBSET DOMAIN subs
            /\ \A n \in DOMAIN new :
                 new[n].sub \in S /\ new[n].status = "pending" /\ new[n].start = subs[new[n].sub].expires
            /\ \A m, n \in DOMAIN new : new[m].sub = new[n].sub => m = n
  BY GenerateDoes
<1>1a. contracting' = contracting
  BY DEF GenerateDue
<1>1b. (\A t \in DOMAIN subs : StillPaid(t) /\ RowGrown(t)) /\ \A t \in DOMAIN subs' : FixedRow(t)
  BY <1>0, <1>1 DEF StillPaid, RowGrown, FixedRow, Dates
<1>2. CASE UNCHANGED invoices
  <2>1. \A i \in DOMAIN invoices : SameBill(i) /\ invoices[i].sub \in DOMAIN subs
    BY <1>0, <1>2 DEF SameBill, Dates
  <2>2. Bills'
    BY <1>0, <1>1, <1>1b, <1>2, <2>1, BillsKept
  <2>3. \A t \in DOMAIN subs : Grown(t)
    BY <1>1b, <1>2, <2>1, GrownKept
  <2> QED
    BY <1>1, <1>1a, <1>1b, <2>2, <2>3, TodaysGo
<1>3. \A s \in S : ~Open(s)
  OBVIOUS
<1>3a. \A s \in S : subs[s].status = "active" /\ subs[s].expires <= now + Lead
  BY DEF Due
<1> HIDE DEF S, new
<1>4. CASE /\ Billed(new) /\ S \in SUBSET DOMAIN subs
           /\ \A n \in DOMAIN new :
                new[n].sub \in S /\ new[n].status = "pending" /\ new[n].start = subs[new[n].sub].expires
           /\ \A m, n \in DOMAIN new : new[m].sub = new[n].sub => m = n
  <2> DEFINE Old == DOMAIN invoices
             Added_ == DOMAIN invoices' \ DOMAIN invoices
  <2>1. \A i \in Old : /\ invoices'[i] = invoices[i] /\ invoices[i].sub \in DOMAIN subs
                       /\ Paid(i)' = Paid(i) /\ PaidUntil(i)' = PaidUntil(i)
    <3>1. \A i \in Old : invoices'[i] = invoices[i]
      BY <1>4 DEF Billed
    <3>2. \A i \in Old : SameBill(i)
      BY <3>1 DEF SameBill
    <3> QED
      BY <1>0, <1>1, <3>1, <3>2, SamePaid DEF Dates, PaidUntil
  <2>2. \A i \in Added_ :
          /\ invoices'[i].sub \in S /\ invoices'[i].status = "pending"
          /\ invoices'[i].start = subs[invoices'[i].sub].expires
    BY <1>4 DEF Billed
  <2>3. \A i, j \in Added_ : invoices'[i].sub = invoices'[j].sub => i = j
    <3>1. Len(invoices) \in Nat /\ DOMAIN invoices' \subseteq Int
      BY <1>4, Elements DEF Billed, Typed
    <3>2. ASSUME NEW i \in Added_, NEW j \in Added_, invoices'[i].sub = invoices'[j].sub PROVE i = j
      <4>1. /\ i - Len(invoices) \in DOMAIN new /\ invoices'[i] = new[i - Len(invoices)]
            /\ j - Len(invoices) \in DOMAIN new /\ invoices'[j] = new[j - Len(invoices)]
        BY <1>4 DEF Billed
      <4>2. i - Len(invoices) = j - Len(invoices)
        BY <1>4, <3>2, <4>1
      <4>3. i \in Int /\ j \in Int
        BY <3>1
      <4> QED
        BY <3>1, <4>2, <4>3
    <3> QED
      BY <3>2
  <2>4. \A i \in Old, a \in Added_ : invoices[i].sub = invoices'[a].sub => invoices[i].status # "pending"
    BY <1>3, <2>2 DEF Open
  <2>5. \A i \in DOMAIN invoices' : i \in Old \/ i \in Added_
    OBVIOUS
  <2>6. OneTermOpen'
    <3>1. ASSUME NEW i \in DOMAIN invoices', NEW j \in DOMAIN invoices', i # j, invoices'[i].sub = invoices'[j].sub,
                 invoices'[i].status = "pending", invoices'[j].status = "pending"
          PROVE  /\ i \in Old /\ j \in Old
                 /\ invoices'[i] = invoices[i] /\ invoices'[j] = invoices[j]
      BY <2>1, <2>3, <2>4, <2>5, <3>1
    <3> QED
      BY <3>1 DEF Bills, OneTermOpen
  <2>7. \A j \in DOMAIN invoices' :
          invoices'[j].status = "paid"
            => subs'[invoices'[j].sub].status = "active" /\ subs'[invoices'[j].sub].expires >= Paid(j)'
    BY <1>1, <2>1, <2>2, <2>5 DEF Bills
  <2>8. ASSUME NEW a \in DOMAIN invoices', NEW b \in DOMAIN invoices',
               invoices'[a].status = "pending", invoices'[b].status = "paid", invoices'[a].sub = invoices'[b].sub
        PROVE  PaidUntil(a)' >= Paid(b)'
    <3>1. b \in Old /\ invoices'[b] = invoices[b] /\ Paid(b)' = Paid(b)
      BY <2>1, <2>2, <2>5, <2>8
    <3>2. CASE a \in Old
      BY <2>1, <2>8, <3>1, <3>2 DEF Bills
    <3>3. CASE a \in Added_
      <4>1. invoices'[a].start = subs[invoices[b].sub].expires /\ invoices[b].sub \in DOMAIN subs
        BY <2>1, <2>2, <2>8, <3>1, <3>3
      <4>2. invoices'[a].start >= Paid(b) /\ Paid(b) \in Int
        BY <1>0, <2>8, <3>1, <4>1 DEF Bills, Dates, Paid
      <4>3. invoices'[a].start \in Int
        BY <1>0, <4>1 DEF Dates
      <4> QED
        BY <1>0, <1>1, <3>1, <4>2, <4>3 DEF PaidUntil, Dates
    <3> QED
      BY <2>5, <3>2, <3>3
  <2>9. ASSUME NEW t \in DOMAIN subs, Today(t) PROVE Grown(t)
    <3>1. t \notin S
      BY <1>0, <1>3a, <2>9 DEF Today, Dates
    <3>2. BillsGrown(t)
      <4>1. \A i \in Added_ : invoices'[i].sub # t
        BY <2>2, <3>1
      <4> QED
        BY <2>1, <2>5, <4>1 DEF BillsGrown, BillGrown
    <3> QED
      BY <1>1b, <3>2 DEF Grown
  <2>10. Todays'
    BY <1>1, <1>1a, <1>1b, <2>9, TodaysGo
  <2> QED
    BY <2>6, <2>7, <2>8, <2>10 DEF Bills
<1> QED
  BY <1>1, <1>2, <1>4

LEMMA BillsStep ==
  ASSUME Typed, Typed', Linked, Bills, Todays, [Next]_vars
  PROVE  Bills' /\ Todays'
<1>0. /\ \A m \in DOMAIN mail : mail[m].of \in DOMAIN subs /\ subs[mail[m].of].known
      /\ probe \subseteq DOMAIN subs /\ ending \in DOMAIN subs \cup {0}
      /\ \A s \in probe : subs[s].known
      /\ \A s \in DOMAIN subs : subs[s].known => Card(s)
      /\ \A i \in DOMAIN invoices : invoices[i].sub \in DOMAIN subs /\ ~Card(invoices[i].sub)
      /\ now \in Nat
  BY DEF Typed, TypeOK, Linked, Card
<1>0a. now' = now \/ (now' = now + 1 /\ contracting' = {})
  BY NotesKept
<1>1. ASSUME DOMAIN invoices' = DOMAIN invoices, \A i \in DOMAIN invoices : SameBill(i),
             \A s \in DOMAIN subs : ~Card(s) => StillPaid(s),
             \A t \in DOMAIN subs' : FixedRow(t), DOMAIN subs \subseteq DOMAIN subs',
             contracting' = contracting
      PROVE  Bills' /\ Todays'
  <2>1. Bills'
    BY <1>0, <1>0a, <1>1, BillsKept
  <2>2. CASE now' = now
    <3>1. \A t \in DOMAIN subs : ~Card(t) /\ Today(t) => Grown(t)
      BY <1>1, GrownKept
    <3>2. contracting' \subseteq contracting
      BY <1>1
    <3> QED
      BY <1>1, <2>1, <2>2, <3>1, <3>2, TodaysGo
  <2>3. CASE contracting' = {}
    <3>1. \A c \in contracting' : FALSE
      BY <2>3
    <3>2. Todays'
      BY <3>1, Zenon DEF Todays
    <3> QED
      BY <2>1, <3>2
  <2> QED
    BY <1>0a, <2>1, <2>2, <2>3
<1>2. ASSUME UNCHANGED <<subs, invoices, contracting>> PROVE Bills' /\ Todays'
  BY <1>1, <1>2 DEF StillPaid, SameBill, FixedRow
<1>3. ASSUME NEW s \in DOMAIN subs, NEW r, Saved(s, r), r.key = subs[s].key,
             Card(s) \/ (r.status = subs[s].status /\ r.expires = subs[s].expires), UNCHANGED <<invoices, contracting>>
      PROVE  Bills' /\ Todays'
  <2>1. ASSUME NEW t \in DOMAIN subs PROVE (~Card(t) => StillPaid(t)) /\ subs'[t].key = subs[t].key
    <3>1. CASE t = s
      BY <1>3, <3>1 DEF Saved, StillPaid
    <3>2. CASE t # s
      <4>1. subs'[t] = subs[t]
        BY <1>3, <3>2 DEF Saved
      <4> QED
        BY <4>1 DEF StillPaid
    <3> QED
      BY <3>1, <3>2
  <2>2. DOMAIN subs' = DOMAIN subs
    BY <1>3 DEF Saved
  <2>3. \A t \in DOMAIN subs' : FixedRow(t)
    BY <2>1, <2>2 DEF FixedRow
  <2>4. \A i \in DOMAIN invoices : SameBill(i)
    BY <1>3 DEF SameBill
  <2> QED
    BY <1>1, <1>3, <2>1, <2>2, <2>3, <2>4
<1>4. ASSUME NEW p \in Products, NEW k \in Keys, ContractCard(p, k) PROVE Bills' /\ Todays'
  <2>1. Added({}, subs, Row("card", p, <<"client", k>>)) /\ UNCHANGED <<invoices, contracting>>
    BY <1>4, ContractCardDoes
  <2>2. \A t \in DOMAIN subs : StillPaid(t)
    BY <2>1 DEF Added, StillPaid
  <2>3. ASSUME NEW t \in DOMAIN subs' PROVE FixedRow(t)
    <3>1. CASE t \in DOMAIN subs
      BY <2>1, <3>1 DEF Added, FixedRow
    <3>2. CASE t \notin DOMAIN subs
      <4>1. subs'[t] = Row("card", p, <<"client", k>>)
        BY <2>1, <3>2 DEF Added
      <4>2. subs'[t].key = <<"client", k>>
        BY <4>1 DEF Row
      <4> QED
        BY <4>2 DEF FixedRow
    <3> QED
      BY <3>1, <3>2
  <2>4. DOMAIN subs \subseteq DOMAIN subs' /\ \A i \in DOMAIN invoices : SameBill(i)
    BY <2>1 DEF Added, SameBill
  <2> QED
    BY <1>1, <2>1, <2>2, <2>3, <2>4
<1>5. ASSUME NEW i \in DOMAIN invoices, Checkout(i) PROVE Bills' /\ Todays'
  <2>1. UNCHANGED <<subs, contracting>>
    BY <1>5 DEF Checkout
  <2>2. CASE UNCHANGED invoices
    BY <1>2, <2>1, <2>2
  <2>3. CASE \E v \in InvoiceRows : BillIs(v, invoices[i], invoices[i].status, invoices[i].paid) /\ Marked(i, v)
    <3>1. DOMAIN invoices' = DOMAIN invoices /\ \A j \in DOMAIN invoices : SameBill(j)
      BY <2>3 DEF Marked, BillIs, SameBill
    <3>2. (\A t \in DOMAIN subs : StillPaid(t)) /\ \A t \in DOMAIN subs' : FixedRow(t)
      BY <2>1 DEF StillPaid, FixedRow
    <3> QED
      BY <1>1, <2>1, <3>1, <3>2
  <2> QED
    BY <1>5, <2>2, <2>3, CheckoutDoes
<1>6. ASSUME NEW i \in DOMAIN invoices, Pay(i) \/ Refund(i) PROVE Bills' /\ Todays'
  BY <1>2, <1>6 DEF Pay, Refund, Core, rows
<1>7. ASSUME NEW s \in DOMAIN subs, CardCheckout(s) PROVE Bills' /\ Todays'
  <2>1. UNCHANGED <<invoices, contracting>>
    BY <1>7 DEF CardCheckout
  <2>2. PICK r \in SubRows :
          /\ Saved(s, r) /\ Card(s)
          /\ RowIs(r, subs[s], subs[s].status, subs[s].expires, subs[s].cancel, subs[s].provisional, TRUE)
    BY <1>7, CardCheckoutDoes DEF Card
  <2>3. r.key = subs[s].key
    BY <2>2 DEF RowIs
  <2> QED
    BY <1>3, <2>1, <2>2, <2>3
<1>8. ASSUME NEW s \in DOMAIN subs, ProbeAnswer(s) PROVE Bills' /\ Todays'
  <2>1. UNCHANGED <<invoices, contracting>> /\ Card(s)
    BY <1>0, <1>8 DEF ProbeAnswer
  <2>2. \/ UNCHANGED <<subs, recent>>
        \/ \E r \in SubRows : Saved(s, r) /\ RowIs(r, subs[s], "active", now + 1, subs[s].cancel, TRUE, subs[s].known)
    BY <1>8, ProbeAnswerDoes, Zenon
  <2>3. UNCHANGED <<subs, recent>> \/ \E r \in SubRows : Saved(s, r) /\ r.key = subs[s].key
    BY <2>2 DEF RowIs
  <2> QED
    BY <1>2, <1>3, <2>1, <2>3
<1>9. ASSUME NEW s \in DOMAIN subs, Authorize(s) \/ Charge(s) \/ Chargeback(s) \/ Inactivate(s)
      PROVE  Bills' /\ Todays'
  BY <1>2, <1>9 DEF Authorize, Charge, Chargeback, Inactivate, Core, rows
<1>10. CASE Probe \/ Tick \/ UNCHANGED vars
  <2>1. UNCHANGED <<subs, invoices, contracting>>
    BY <1>10 DEF Probe, Tick, vars, rows
  <2> QED
    BY <1>2, <2>1
<1>11. CASE Cancel
  <2>0. contracting' = contracting
    BY <1>11 DEF Cancel
  <2>1. PICK s \in DOMAIN subs :
          /\ UNCHANGED invoices
          /\ \/ UNCHANGED <<subs, recent>>
             \/ \E r \in SubRows :
                  /\ Saved(s, r)
                  /\ RowIs(r, subs[s], subs[s].status, subs[s].expires, TRUE, subs[s].provisional, subs[s].known)
    BY <1>11, CancelDoes, Zenon
  <2>2. ASSUME NEW r \in SubRows, Saved(s, r),
               RowIs(r, subs[s], subs[s].status, subs[s].expires, TRUE, subs[s].provisional, subs[s].known)
        PROVE  Bills' /\ Todays'
    BY <1>3, <2>0, <2>1, <2>2 DEF RowIs
  <2> QED
    BY <1>2, <2>0, <2>1, <2>2
<1>12. CASE CancelSave
  <2>1. /\ ending \in DOMAIN subs /\ subs' = [subs EXCEPT ![ending].cancel = TRUE] /\ Touch(ending)
        /\ UNCHANGED <<invoices, contracting>>
    BY <1>12 DEF CancelSave, Typed, TypeOK
  <2>2. PICK r \in SubRows :
          /\ Saved(ending, r)
          /\ RowIs(r, subs[ending], subs[ending].status, subs[ending].expires, TRUE, subs[ending].provisional, subs[ending].known)
    BY <2>1, Canceled
  <2> QED
    BY <1>3, <2>1, <2>2 DEF RowIs
<1>13. ASSUME NEW m \in DOMAIN mail, CardWebhook(m) PROVE Bills' /\ Todays'
  <2>1. Apply(mail[m]) /\ UNCHANGED <<invoices, contracting>>
    BY <1>13 DEF CardWebhook
  <2>2. mail[m] \in Mails /\ mail[m].of \in DOMAIN subs /\ Card(mail[m].of)
    BY <1>0, Elements DEF Typed
  <2> DEFINE s == mail[m].of
             old == subs[s]
  <2>3. ASSUME NEW r \in SubRows, Saved(s, r),
               RowIs(r, old, "active", mail[m].day + Term, old.cancel, FALSE, old.known)
        PROVE  Bills' /\ Todays'
    BY <1>3, <2>1, <2>2, <2>3 DEF RowIs
  <2>4. ASSUME NEW r \in SubRows, Saved(s, r),
               RowIs(r, old, old.status, now - 1, TRUE, old.provisional, old.known)
        PROVE  Bills' /\ Todays'
    BY <1>3, <2>1, <2>2, <2>4 DEF RowIs
  <2>5. CASE UNCHANGED <<subs, recent>>
    BY <1>2, <2>1, <2>5
  <2> QED
    BY <2>1, <2>2, <2>3, <2>4, <2>5, ApplyDoes, Zenon
<1>14. ASSUME NEW m \in DOMAIN mail, Lose(m) PROVE Bills' /\ Todays'
  BY <1>2, <1>14 DEF Lose, Core, rows
<1>15. ASSUME NEW i \in DOMAIN invoices, Reconcile(i) \/ InvoiceWebhook(i) PROVE Bills' /\ Todays'
  BY <1>15, BillsSettle DEF Reconcile, InvoiceWebhook
<1>16. ASSUME NEW p \in Products, NEW k \in Keys, Contract(p, k) PROVE Bills' /\ Todays'
  <2>1. NewOne(p, k) /\ UNCHANGED <<now, contracting>>
    BY <1>16, NewContractDoes DEF Contract
  <2> QED
    BY <2>1, BillsNewOne
<1> QED
  BY <1>4, <1>5, <1>6, <1>7, <1>8, <1>9, <1>10, <1>11, <1>12, <1>13, <1>14, <1>15, <1>16,
     BillsInsert, BillsTest, BillsRetry, BillsDue DEF Next

-----------------------------------------------------------------------------
(* A trial comes before every subscription that was activated *)

Trials ==
  \A s, t \in DOMAIN subs :
    subs[s].status = "active" /\ subs[t].status = "trialing" => recent[t] < recent[s]

LEMMA TrialsSame == ASSUME Trials, UNCHANGED <<subs, recent>> PROVE Trials'
BY DEF Trials

LEMMA TrialsSaved ==
  ASSUME Trials, NEW s \in DOMAIN subs, NEW r, Saved(s, r),
         \/ r.status = "active"
         \/ /\ r.status = subs[s].status
            /\ r.status = "trialing" => \A t \in DOMAIN subs : subs[t].status # "active"
  PROVE  Trials'
<1>1. /\ DOMAIN subs' = DOMAIN subs /\ subs'[s] = r
      /\ \A t \in DOMAIN subs : t # s => subs'[t] = subs[t]
      /\ \A a, b \in DOMAIN subs \ {s} : recent[a] < recent[b] => recent'[a] < recent'[b]
      /\ \A b \in DOMAIN subs \ {s} : recent'[b] < recent'[s]
  BY DEF Saved
<1>2. ASSUME NEW a \in DOMAIN subs, NEW t \in DOMAIN subs, subs'[a].status = "active", subs'[t].status = "trialing"
      PROVE  recent'[t] < recent'[a]
  <2>1. CASE t = s
    <3>1. subs[s].status = "trialing" /\ \A b \in DOMAIN subs : subs[b].status # "active"
      BY <1>1, <1>2, <2>1
    <3>2. a # s
      BY <1>1, <1>2, <2>1
    <3> QED
      BY <1>1, <1>2, <3>1, <3>2
  <2>2. CASE t # s /\ a = s
    BY <1>1, <2>2
  <2>3. CASE t # s /\ a # s
    BY <1>1, <1>2, <2>3 DEF Trials
  <2> QED
    BY <2>1, <2>2, <2>3
<1> QED
  BY <1>1, <1>2 DEF Trials

LEMMA TrialsAdded ==
  ASSUME Trials, NEW S, NEW rest, NEW mode, NEW product, NEW key,
         Added(S, rest, Row(mode, product, key)),
         \A t \in DOMAIN subs \cap S : rest[t].status # "trialing",
         \A t \in DOMAIN subs : rest[t].status \in Live => rest[t].status = subs[t].status
  PROVE  Trials'
<1> DEFINE n == Len(subs) + 1
<1>1. /\ DOMAIN subs' = DOMAIN subs \cup {n} /\ subs'[n] = Row(mode, product, key)
      /\ \A t \in DOMAIN subs : subs'[t] = rest[t]
      /\ \A a, b \in DOMAIN subs \ S : recent[a] < recent[b] => recent'[a] < recent'[b]
      /\ \A a \in S, b \in DOMAIN subs \ S : recent'[b] < recent'[a]
  BY DEF Added
<1>2. Row(mode, product, key).status = "pending"
  BY DEF Row
<1>3. ASSUME NEW a \in DOMAIN subs', NEW t \in DOMAIN subs', subs'[a].status = "active", subs'[t].status = "trialing"
      PROVE  recent'[t] < recent'[a]
  <2>1. a \in DOMAIN subs /\ t \in DOMAIN subs \ S
    BY <1>1, <1>2, <1>3
  <2>2. subs[a].status = "active" /\ subs[t].status = "trialing"
    BY <1>1, <1>3, <2>1 DEF Live
  <2> QED
    BY <1>1, <2>1, <2>2 DEF Trials
<1> QED
  BY <1>3 DEF Trials

\* a subscription that gives its key up, or is tried again, is no trial
LEMMA TrialsNewOne ==
  ASSUME Typed, Linked, Trials, NEW p \in Products, NEW k, NewOne(p, k)
  PROVE  Trials'
<1> DEFINE fixed == <<"fixed", p>>
<1>1. Added(Keyed(fixed), GivenUp(p), Row("invoice", p, fixed))
  BY DEF NewOne
<1>2. \A t \in DOMAIN subs : GivenUp(p)[t].status = subs[t].status
  BY GivenUpFields
<1>3. \A t \in Keyed(fixed) : subs[t].status # "trialing"
  BY DEF Keyed, Linked, Card
<1> QED
  BY <1>1, <1>2, <1>3, TrialsAdded

LEMMA TrialsRetry ==
  ASSUME Typed, Trials, NEW i \in DOMAIN invoices, Retry(i)
  PROVE  Trials'
<1> DEFINE s == invoices[i].sub
<1>1. PICK S \in SUBSET {s}, rest \in Seq(SubRows) :
        /\ Added(S, rest, Row("invoice", subs[s].product, <<"retry", i>>))
        /\ \A t \in DOMAIN subs \ {s} : rest[t] = subs[t]
        /\ rest[s] = [subs[s] EXCEPT !.status = "canceled"]
  BY RetryDoes, Zenon
<1>2. subs[s] \in SubRows
  BY Elements DEF Typed
<1>3. rest[s].status = "canceled"
  BY <1>1, <1>2 DEF SubRows
<1>4. \A t \in DOMAIN subs \cap S : rest[t].status # "trialing"
  BY <1>3
<1>5. ASSUME NEW t \in DOMAIN subs, rest[t].status \in Live PROVE rest[t].status = subs[t].status
  <2>1. t # s
    BY <1>3, <1>5 DEF Live
  <2> QED
    BY <1>1, <2>1
<1> QED
  BY <1>1, <1>4, <1>5, TrialsAdded

LEMMA Places ==
  ASSUME Typed
  PROVE  \A s \in DOMAIN subs : recent[s] \in Int
<1>1. Len(subs) \in Nat /\ DOMAIN subs = 1 .. Len(subs) /\ DOMAIN recent = DOMAIN subs
  BY Elements DEF Typed
<1>2. recent \in Seq(1 .. Len(subs)) /\ Len(recent) = Len(subs)
  BY <1>1 DEF Typed, TypeOK
<1>3. \A s \in DOMAIN subs : recent[s] \in 1 .. Len(subs)
  BY <1>1, <1>2, ElementOfSeq
<1> QED
  BY <1>1, <1>3

LEMMA TrialsCancel ==
  ASSUME Typed, Trials, Cancel
  PROVE  Trials'
<1>1. PICK s \in DOMAIN subs :
        /\ s = Current
        /\ \/ UNCHANGED <<subs, recent>>
           \/ \E r \in SubRows :
                /\ Saved(s, r)
                /\ RowIs(r, subs[s], subs[s].status, subs[s].expires, TRUE, subs[s].provisional, subs[s].known)
  BY CancelDoes, Zenon
<1>2. ASSUME NEW r \in SubRows, Saved(s, r),
             RowIs(r, subs[s], subs[s].status, subs[s].expires, TRUE, subs[s].provisional, subs[s].known)
      PROVE  Trials'
  <2>1. r.status = subs[s].status
    BY <1>2 DEF RowIs
  <2>2. ASSUME subs[s].status = "trialing", NEW t \in DOMAIN subs, subs[t].status = "active" PROVE FALSE
    <3>1. Rank(s) = 0 /\ Rank(t) = 0 /\ t # s
      BY <2>2 DEF Rank, Live
    <3>2. subs # <<>>
      BY DEF Cancel
    <3>3. recent[t] < recent[s]
      BY <1>1, <3>1, <3>2, Governs
    <3>4. recent[s] < recent[t]
      BY <2>2 DEF Trials
    <3>5. recent[s] \in Int /\ recent[t] \in Int
      BY Places
    <3> QED
      BY <3>3, <3>4, <3>5
  <2> QED
    BY <1>2, <2>1, <2>2, TrialsSaved
<1> QED
  BY <1>1, <1>2, TrialsSame

LEMMA TrialsStep ==
  ASSUME Typed, Linked, Trials, [Next]_vars
  PROVE  Trials'
<1>0. /\ \A m \in DOMAIN mail : mail[m].of \in DOMAIN subs /\ subs[mail[m].of].known
      /\ ending \in DOMAIN subs \cup {0}
      /\ ending # 0 => subs[ending].known
      /\ \A s \in DOMAIN subs : subs[s].known => subs[s].status # "trialing"
  BY DEF Typed, TypeOK, Linked
<1>1. ASSUME NEW p \in Products, NEW k \in Keys, ContractCard(p, k) PROVE Trials'
  <2>1. Added({}, subs, Row("card", p, <<"client", k>>))
    BY <1>1, ContractCardDoes
  <2> QED
    BY <2>1, TrialsAdded
<1>2. ASSUME NEW i \in DOMAIN invoices, Reconcile(i) \/ InvoiceWebhook(i) PROVE Trials'
  <2>1. PICK outcome : Settle(i, outcome)
    BY <1>2 DEF Reconcile, InvoiceWebhook
  <2>2. \/ UNCHANGED <<subs, recent>>
        \/ \E r \in SubRows :
             /\ Saved(invoices[i].sub, r)
             /\ RowIs(r, subs[invoices[i].sub], "active", PaidUntil(i), subs[invoices[i].sub].cancel,
                      subs[invoices[i].sub].provisional, subs[invoices[i].sub].known)
    BY <2>1, SettleDoes, Zenon
  <2>3. ASSUME NEW r \in SubRows, Saved(invoices[i].sub, r),
               RowIs(r, subs[invoices[i].sub], "active", PaidUntil(i), subs[invoices[i].sub].cancel,
                      subs[invoices[i].sub].provisional, subs[invoices[i].sub].known)
        PROVE  Trials'
    <3>1. r.status = "active" /\ invoices[i].sub \in DOMAIN subs
      BY <2>3 DEF RowIs, Typed, TypeOK
    <3> QED
      BY <2>3, <3>1, TrialsSaved
  <2> QED
    BY <2>2, <2>3, TrialsSame
<1>3. ASSUME NEW s \in DOMAIN subs, CardCheckout(s) PROVE Trials'
  <2>1. PICK r \in SubRows :
          /\ subs[s].status # "trialing" /\ Saved(s, r)
          /\ RowIs(r, subs[s], subs[s].status, subs[s].expires, subs[s].cancel, subs[s].provisional, TRUE)
    BY <1>3, CardCheckoutDoes
  <2>2. r.status = subs[s].status /\ r.status # "trialing"
    BY <2>1 DEF RowIs
  <2> QED
    BY <2>1, <2>2, TrialsSaved
<1>4. ASSUME NEW s \in DOMAIN subs, ProbeAnswer(s) PROVE Trials'
  <2>1. \/ UNCHANGED <<subs, recent>>
        \/ \E r \in SubRows :
             Saved(s, r) /\ RowIs(r, subs[s], "active", now + 1, subs[s].cancel, TRUE, subs[s].known)
    BY <1>4, ProbeAnswerDoes, Zenon
  <2>2. ASSUME NEW r \in SubRows, Saved(s, r),
               RowIs(r, subs[s], "active", now + 1, subs[s].cancel, TRUE, subs[s].known)
        PROVE  Trials'
    <3>1. r.status = "active"
      BY <2>2 DEF RowIs
    <3> QED
      BY <2>2, <3>1, TrialsSaved
  <2> QED
    BY <2>1, <2>2, TrialsSame
<1>5. CASE CancelSave
  <2>1. /\ ending \in DOMAIN subs /\ subs' = [subs EXCEPT ![ending].cancel = TRUE] /\ Touch(ending)
        /\ subs[ending].status # "trialing"
    BY <1>0, <1>5 DEF CancelSave
  <2>2. PICK r \in SubRows :
          /\ Saved(ending, r)
          /\ RowIs(r, subs[ending], subs[ending].status, subs[ending].expires, TRUE, subs[ending].provisional, subs[ending].known)
    BY <2>1, Canceled
  <2>3. r.status = subs[ending].status
    BY <2>2 DEF RowIs
  <2> QED
    BY <2>1, <2>2, <2>3, TrialsSaved
<1>6. ASSUME NEW m \in DOMAIN mail, CardWebhook(m) PROVE Trials'
  <2> DEFINE s == mail[m].of
             old == subs[s]
  <2>1. Apply(mail[m])
    BY <1>6 DEF CardWebhook
  <2>2. mail[m] \in Mails /\ s \in DOMAIN subs /\ old.status # "trialing"
    BY <1>0, Elements DEF Typed
  <2>3. ASSUME NEW r \in SubRows, Saved(s, r),
               RowIs(r, old, "active", mail[m].day + Term, old.cancel, FALSE, old.known)
        PROVE  Trials'
    <3>1. r.status = "active"
      BY <2>3 DEF RowIs
    <3> QED
      BY <2>2, <2>3, <3>1, TrialsSaved
  <2>4. ASSUME NEW r \in SubRows, Saved(s, r),
               RowIs(r, old, old.status, now - 1, TRUE, old.provisional, old.known)
        PROVE  Trials'
    <3>1. r.status = old.status
      BY <2>4 DEF RowIs
    <3> QED
      BY <2>2, <2>4, <3>1, TrialsSaved
  <2>5. CASE UNCHANGED <<subs, recent>>
    BY <2>5, TrialsSame
  <2> QED
    BY <2>1, <2>2, <2>3, <2>4, <2>5, ApplyDoes, Zenon
<1>7. ASSUME NEW s \in DOMAIN subs, Authorize(s) \/ Charge(s) \/ Chargeback(s) \/ Inactivate(s) PROVE Trials'
  BY <1>7, TrialsSame DEF Authorize, Charge, Chargeback, Inactivate, Core, rows
<1>8. ASSUME NEW i \in DOMAIN invoices, Checkout(i) \/ Pay(i) \/ Refund(i) PROVE Trials'
  BY <1>8, TrialsSame DEF Checkout, Pay, Refund, Core, rows
<1>9. ASSUME NEW m \in DOMAIN mail, Lose(m) PROVE Trials'
  BY <1>9, TrialsSame DEF Lose, Core, rows
<1>10. CASE GenerateDue \/ Probe \/ Tick \/ UNCHANGED vars
  BY <1>10, TrialsSame DEF GenerateDue, Probe, Tick, vars, rows
<1>11. ASSUME NEW p \in Products, NEW k \in Keys, Contract(p, k) PROVE Trials'
  BY <1>11, NewContractDoes, TrialsNewOne DEF Contract
<1>12. ASSUME NEW p \in Products, NEW k \in Keys, ContractTest(p, k) PROVE Trials'
  BY <1>12, TrialsSame DEF ContractTest, rows
<1>13. ASSUME NEW c \in contracting, ContractInsert(c) PROVE Trials'
  <2>1. c.product \in Products /\ (UNCHANGED <<subs, recent>> \/ NewOne(c.product, c.key))
    BY <1>13, InsertDoes
  <2> QED
    BY <2>1, TrialsSame, TrialsNewOne
<1> QED
  BY <1>1, <1>2, <1>3, <1>4, <1>5, <1>6, <1>7, <1>8, <1>9, <1>10, <1>11, <1>12, <1>13, TrialsRetry, TrialsCancel DEF Next


-----------------------------------------------------------------------------
(* What the gateway sends and what was applied of it lies in the past *)

Events == {"received", "refunded", "inactivated", "ended"}
Heard(s, e, d) == <<s, e, d>> \in seen

DatedCard(s) ==
  /\ card[s].charged \in Int /\ card[s].charged <= now
  /\ card[s].charged = NoDate \/ 0 <= card[s].charged
DatedMail(m) ==
  /\ 0 <= mail[m].day /\ mail[m].day <= now
  /\ mail[m].event \in {"received", "refunded"} => mail[m].day <= card[mail[m].of].charged
DatedEvent(s, e, d) ==
  /\ s \in DOMAIN subs /\ subs[s].known /\ 0 <= d /\ d <= now
  /\ e \in {"received", "refunded"} => d <= card[s].charged
  /\ e = "received" => subs[s].status = "active"
Dated ==
  /\ \A s \in DOMAIN subs : DatedCard(s)
  /\ \A m \in DOMAIN mail : DatedMail(m)
  /\ \A s \in Nat, e \in Events, d \in Int : Heard(s, e, d) => DatedEvent(s, e, d)

\* a row that stays with the same gateway's subscription, or later
Ongoing(s) ==
  /\ s \in DOMAIN subs'
  /\ subs[s].known => subs'[s].known
  /\ subs[s].known /\ subs[s].status = "active" => subs'[s].status = "active"
  /\ card[s].charged <= card'[s].charged /\ card'[s].charged \in Int
  /\ card'[s].charged <= now' /\ (card'[s].charged = NoDate \/ 0 <= card'[s].charged)

LEMMA DatedKept ==
  ASSUME Typed, Dated, now \in Int, now' \in Int, now <= now',
         \A s \in DOMAIN subs : Ongoing(s),
         \A s \in DOMAIN subs' : s \in DOMAIN subs \/ card'[s] = NewCard,
         \A n \in DOMAIN mail' : DatedMail(n)' \/ \E k \in DOMAIN mail : mail'[n] = mail[k],
         \A s \in Nat, e \in Events, d \in Int : Heard(s, e, d)' => Heard(s, e, d) \/ DatedEvent(s, e, d)'
  PROVE  Dated'
<1>0. /\ \A m \in DOMAIN mail : mail[m].of \in DOMAIN subs /\ mail[m].day \in Int
      /\ 0 <= now
  <2>1. \A m \in DOMAIN mail : mail[m] \in Mails /\ mail[m].of \in DOMAIN subs
    BY Elements DEF Typed
  <2> QED
    BY <2>1 DEF Typed, TypeOK, Mails
<1>1. ASSUME NEW s \in DOMAIN subs' PROVE DatedCard(s)'
  <2>1. CASE s \in DOMAIN subs
    BY <2>1 DEF Ongoing, DatedCard
  <2>2. CASE card'[s] = NewCard
    BY <1>0, <2>2 DEF DatedCard, NewCard, NoDate
  <2> QED
    BY <2>1, <2>2
<1>2. ASSUME NEW n \in DOMAIN mail' PROVE DatedMail(n)'
  <2>1. ASSUME NEW k \in DOMAIN mail, mail'[n] = mail[k] PROVE DatedMail(n)'
    <3>1. DatedMail(k) /\ DatedCard(mail[k].of) /\ Ongoing(mail[k].of) /\ mail[k].day \in Int
      BY <1>0 DEF Dated
    <3> QED
      BY <2>1, <3>1 DEF DatedMail, DatedCard, Ongoing
  <2> QED
    BY <2>1
<1>3. ASSUME NEW s \in Nat, NEW e \in Events, NEW d \in Int, Heard(s, e, d)' PROVE DatedEvent(s, e, d)'
  <2>1. CASE Heard(s, e, d)
    <3>1. DatedEvent(s, e, d) /\ DatedCard(s) /\ Ongoing(s)
      BY <2>1 DEF Dated, DatedEvent
    <3> QED
      BY <3>1 DEF DatedEvent, DatedCard, Ongoing
  <2> QED
    BY <1>3, <2>1
<1> QED
  BY <1>1, <1>2, <1>3 DEF Dated

LEMMA DatedInit == ASSUME Init PROVE Dated
<1>1. mail = <<>> /\ seen = {} /\ now = 0
  BY DEF Init
<1>2. \A s \in DOMAIN subs : card[s] = NewCard
  BY DEF Init
<1>3. \A s \in DOMAIN subs : DatedCard(s)
  BY <1>1, <1>2 DEF DatedCard, NewCard, NoDate
<1> QED
  BY <1>1, <1>3 DEF Dated, Heard

\* a row that keeps its card
LEMMA OngoingSame ==
  ASSUME Typed, Dated, NEW s \in DOMAIN subs, s \in DOMAIN subs', now \in Int, now' \in Int, now <= now',
         card'[s].charged = card[s].charged,
         subs[s].known => subs'[s].known,
         subs[s].known /\ subs[s].status = "active" => subs'[s].status = "active"
  PROVE  Ongoing(s)
<1>1. DatedCard(s)
  BY DEF Dated
<1> QED
  BY <1>1 DEF Ongoing, DatedCard

\* an event is one heard before, or that of the webhook
LEMMA HeardOne ==
  ASSUME NEW m, seen' = seen \cup {EventId(m)}, NEW s, NEW e, NEW d, Heard(s, e, d)'
  PROVE  Heard(s, e, d) \/ (s = m.of /\ e = m.event /\ d = m.day)
<1>1. <<s, e, d>> \in seen \/ <<s, e, d>> = <<m.of, m.event, m.day>>
  BY DEF Heard, EventId
<1>2. <<s, e, d>> = <<m.of, m.event, m.day>> => s = m.of /\ e = m.event /\ d = m.day
  OBVIOUS
<1> QED
  BY <1>1, <1>2 DEF Heard

\* what a webhook does to the rows
Granted(s, m, r) ==
  /\ m.event = "received" /\ Saved(s, r)
  /\ RowIs(r, subs[s], "active", m.day + Term, subs[s].cancel, FALSE, subs[s].known)
Locked(s, m, r) ==
  /\ m.event # "received" /\ (m.event # "refunded" => ~subs[s].cancel) /\ Saved(s, r)
  /\ RowIs(r, subs[s], subs[s].status, now - 1, TRUE, subs[s].provisional, subs[s].known)
Ignored(s, m) ==
  m.event \in {"ended", "inactivated"} /\ subs[s].cancel /\ UNCHANGED <<subs, recent>>

LEMMA WebhookDoes ==
  ASSUME Typed, NEW m \in DOMAIN mail, CardWebhook(m)
  PROVE  /\ mail[m] \in Mails /\ mail[m].of \in DOMAIN subs
         /\ mail' \in {mail, Without(m)}
         /\ UNCHANGED <<now, invoices, payment, card, probe, ending, contracting, ran>>
         /\ DOMAIN subs' = DOMAIN subs
         /\ \/ EventId(mail[m]) \in seen /\ UNCHANGED <<subs, recent, seen>>
            \/ /\ EventId(mail[m]) \notin seen /\ seen' = seen \cup {EventId(mail[m])}
               /\ \/ \E r \in SubRows : Granted(mail[m].of, mail[m], r)
                  \/ \E r \in SubRows : Locked(mail[m].of, mail[m], r)
                  \/ Ignored(mail[m].of, mail[m])
<1> DEFINE x == mail[m]
           s == x.of
           old == subs[s]
<1>1. x \in Mails /\ s \in DOMAIN subs
  BY Elements DEF Typed
<1>2. /\ mail' \in {mail, Without(m)} /\ Apply(x)
      /\ UNCHANGED <<now, invoices, payment, card, probe, ending, contracting, ran>>
  BY DEF CardWebhook
<1>3. \/ EventId(x) \in seen /\ UNCHANGED <<subs, recent, seen>>
      \/ /\ EventId(x) \notin seen /\ seen' = seen \cup {EventId(x)}
         /\ \/ /\ x.event = "received"
               /\ \E r \in SubRows :
                    Saved(s, r) /\ RowIs(r, old, "active", x.day + Term, old.cancel, FALSE, old.known)
            \/ /\ x.event # "received" /\ (x.event # "refunded" => ~old.cancel)
               /\ \E r \in SubRows :
                    Saved(s, r) /\ RowIs(r, old, old.status, now - 1, TRUE, old.provisional, old.known)
            \/ /\ x.event \in {"ended", "inactivated"} /\ old.cancel
               /\ UNCHANGED <<subs, recent>>
  BY <1>1, <1>2, ApplyDoes, Zenon
<1>4. \/ EventId(x) \in seen /\ UNCHANGED <<subs, recent, seen>>
      \/ /\ EventId(x) \notin seen /\ seen' = seen \cup {EventId(x)}
         /\ \/ \E r \in SubRows : Granted(s, x, r)
            \/ \E r \in SubRows : Locked(s, x, r)
            \/ Ignored(s, x)
  BY <1>3 DEF Granted, Locked, Ignored
<1>5. DOMAIN subs' = DOMAIN subs
  BY <1>4 DEF Granted, Locked, Ignored, Saved
<1> QED
  BY <1>1, <1>2, <1>4, <1>5

\* what it leaves of the two exceptions: only those of its own subscription
LEMMA WebhookNotes ==
  ASSUME NEW m \in DOMAIN mail, CardWebhook(m)
  PROVE  /\ \A t : t # mail[m].of => (t \in crossed' <=> t \in crossed) /\ (t \in overtaken' <=> t \in overtaken)
         /\ mail[m].of \in probe \cup {ending} => mail[m].of \in crossed'
         /\ mail[m].of \in crossed /\ mail[m].of \notin crossed'
              => EventId(mail[m]) \notin seen /\ mail[m].event = "received"
         /\ overtaken \subseteq overtaken'
         /\ mail[m].of \notin overtaken' =>
              \A n \in 1 .. m - 1 : mail[n].of = mail[m].of => EventId(mail[n]) \in seen
<1>1. crossed' = IF mail[m].of \in probe \cup {ending} THEN crossed \cup {mail[m].of}
                 ELSE IF Fresh(m) /\ mail[m].event = "received" THEN crossed \ {mail[m].of}
                 ELSE crossed
  BY Zenon DEF CardWebhook
<1>2. overtaken' = IF \E n \in 1 .. m - 1 : mail[n].of = mail[m].of /\ Fresh(n)
                   THEN overtaken \cup {mail[m].of} ELSE overtaken
  BY Zenon DEF CardWebhook
<1>3. \A t : t # mail[m].of => (t \in crossed' <=> t \in crossed) /\ (t \in overtaken' <=> t \in overtaken)
  BY <1>1, <1>2
<1>4. /\ mail[m].of \in probe \cup {ending} => mail[m].of \in crossed'
      /\ mail[m].of \in crossed /\ mail[m].of \notin crossed' => Fresh(m) /\ mail[m].event = "received"
  BY <1>1
<1>5. /\ overtaken \subseteq overtaken'
      /\ mail[m].of \notin overtaken' => ~\E n \in 1 .. m - 1 : mail[n].of = mail[m].of /\ Fresh(n)
  BY <1>2
<1> QED
  BY <1>3, <1>4, <1>5 DEF Fresh

RowGoesOn(t) ==
  /\ t \in DOMAIN subs'
  /\ subs[t].known => subs'[t].known
  /\ subs[t].known /\ subs[t].status = "active" => subs'[t].status = "active"

LEMMA SavedGoesOn ==
  ASSUME NEW s \in DOMAIN subs, NEW r, Saved(s, r), r.known <=> subs[s].known,
         r.status = "active" \/ r.status = subs[s].status
  PROVE  DOMAIN subs' = DOMAIN subs /\ \A t \in DOMAIN subs : RowGoesOn(t)
<1>1. ASSUME NEW t \in DOMAIN subs PROVE RowGoesOn(t)
  <2>1. CASE t = s
    BY <2>1 DEF Saved, RowGoesOn
  <2>2. CASE t # s
    <3>1. subs'[t] = subs[t] /\ t \in DOMAIN subs'
      BY <2>2 DEF Saved
    <3> QED
      BY <3>1 DEF RowGoesOn
  <2> QED
    BY <2>1, <2>2
<1> QED
  BY <1>1 DEF Saved

\* a step of the rows alone
LEMMA DatedRows ==
  ASSUME Typed, Dated, UNCHANGED <<now, seen, card, mail>>, DOMAIN subs' = DOMAIN subs,
         \A t \in DOMAIN subs : RowGoesOn(t)
  PROVE  Dated'
<1>1. now \in Int /\ now <= now /\ now' = now
  BY DEF Typed, TypeOK
<1>2. \A s \in DOMAIN subs : Ongoing(s)
  BY <1>1, OngoingSame DEF RowGoesOn
<1>3. \A s \in Nat, e \in Events, d \in Int : Heard(s, e, d)' => Heard(s, e, d)
  BY DEF Heard
<1> QED
  BY <1>1, <1>2, <1>3, DatedKept

LEMMA DatedElsewhere ==
  ASSUME Typed, Linked, Dated, OthersOnly
  PROVE  Dated'
<1>1. now \in Int /\ now <= now /\ now' = now
  BY DEF Typed, TypeOK, OthersOnly
<1>2. ASSUME NEW s \in DOMAIN subs PROVE Ongoing(s)
  <2>1. s \in DOMAIN subs' /\ (Alike(s) \/ NewRow(s)) /\ card'[s] = card[s] /\ (Card(s) => Untouched(s))
    BY DEF OthersOnly
  <2>2. Alike(s)
    BY <2>1 DEF NewRow
  <2>3. subs[s].known => subs'[s].known /\ Untouched(s)
    BY <2>1, <2>2 DEF Alike, Linked
  <2> QED
    BY <1>1, <2>1, <2>3, OngoingSame DEF Untouched
<1>3. \A s \in DOMAIN subs' : s \in DOMAIN subs \/ card'[s] = NewCard
  BY DEF OthersOnly, Alike, NewRow
<1>4. \A s \in Nat, e \in Events, d \in Int : Heard(s, e, d)' => Heard(s, e, d)
  BY DEF Heard, OthersOnly
<1>5. mail' = mail
  BY DEF OthersOnly
<1> QED
  BY <1>1, <1>2, <1>3, <1>4, <1>5, DatedKept

\* a step of the Core, on one card that goes on
LEMMA DatedCore ==
  ASSUME Typed, Dated, UNCHANGED <<now, subs, seen>>, NEW s \in DOMAIN subs, NEW c,
         CardSet(s, c), c.charged \in {card[s].charged, now}, c.charged = card[s].charged \/ subs[s].known,
         mail' = mail \/ \E m : /\ Sent(m) /\ m.of = s /\ m.day \in {now, card[s].charged} /\ m.day # NoDate
                                /\ m.event \in {"received", "refunded"} => m.day <= c.charged
  PROVE  Dated'
<1>1. now \in Int /\ now <= now /\ now' = now /\ 0 <= now
  BY DEF Typed, TypeOK
<1>2. ASSUME NEW t \in DOMAIN subs PROVE Ongoing(t)
  <2>1. DatedCard(t) /\ DatedCard(s)
    BY DEF Dated
  <2>2. CASE t = s
    <3>1. card'[s].charged \in {card[s].charged, now}
      BY DEF CardSet
    <3> QED
      BY <1>1, <2>1, <2>2, <3>1 DEF Ongoing, DatedCard
  <2>3. CASE t # s
    <3>1. card'[t] = card[t]
      BY <2>3 DEF CardSet
    <3> QED
      BY <1>1, <3>1, OngoingSame
  <2> QED
    BY <2>2, <2>3
<1>3. \A n \in DOMAIN mail' : DatedMail(n)' \/ \E k \in DOMAIN mail : mail'[n] = mail[k]
  <2>1. CASE mail' = mail
    BY <2>1
  <2>2. ASSUME NEW m, Sent(m), m.of = s, m.day \in {now, card[s].charged}, m.day # NoDate,
               m.event \in {"received", "refunded"} => m.day <= c.charged
        PROVE  \A n \in DOMAIN mail' : DatedMail(n)' \/ \E k \in DOMAIN mail : mail'[n] = mail[k]
    <3>1. card'[s] = c
      BY DEF CardSet
    <3>2. 0 <= m.day /\ m.day <= now
      BY <1>1, <2>2 DEF Dated, DatedCard
    <3>3. ASSUME NEW n \in DOMAIN mail', mail'[n] = m PROVE DatedMail(n)'
      BY <1>1, <2>2, <3>1, <3>2, <3>3 DEF DatedMail
    <3> QED
      BY <2>2, <3>3, SentOne
  <2> QED
    BY <2>1, <2>2
<1>4. \A t \in Nat, e \in Events, d \in Int : Heard(t, e, d)' => Heard(t, e, d)
  BY DEF Heard
<1>5. \A t \in DOMAIN subs' : t \in DOMAIN subs
  OBVIOUS
<1> QED
  BY <1>1, <1>2, <1>3, <1>4, <1>5, DatedKept

LEMMA DatedWebhook ==
  ASSUME Typed, Linked, Dated, NEW m \in DOMAIN mail, CardWebhook(m)
  PROVE  Dated'
<1> DEFINE x == mail[m]
           s == x.of
<1>0. /\ x \in Mails /\ s \in DOMAIN subs /\ mail' \in {mail, Without(m)} /\ UNCHANGED <<now, card>>
      /\ DOMAIN subs' = DOMAIN subs
      /\ \/ EventId(x) \in seen /\ UNCHANGED <<subs, recent, seen>>
         \/ /\ EventId(x) \notin seen /\ seen' = seen \cup {EventId(x)}
            /\ \/ \E r \in SubRows : Granted(s, x, r)
               \/ \E r \in SubRows : Locked(s, x, r)
               \/ Ignored(s, x)
  BY WebhookDoes
<1>1. now \in Int /\ now <= now /\ now' = now
  BY <1>0 DEF Typed, TypeOK
<1>2. subs[s].known /\ DatedMail(m) /\ x.day \in Int /\ x.event \in Events /\ s \in Nat
  BY <1>0 DEF Linked, Dated, Mails, Events
<1> HIDE DEF x, s
<1>3. \A t \in DOMAIN subs : RowGoesOn(t)
  <2>1. CASE UNCHANGED <<subs, recent>>
    BY <2>1 DEF RowGoesOn
  <2>2. ASSUME NEW r \in SubRows, Granted(s, x, r) PROVE \A t \in DOMAIN subs : RowGoesOn(t)
    <3>1. Saved(s, r) /\ (r.known <=> subs[s].known) /\ r.status = "active"
      BY <2>2 DEF Granted, RowIs
    <3> QED
      BY <1>0, <3>1, SavedGoesOn
  <2>3. ASSUME NEW r \in SubRows, Locked(s, x, r) PROVE \A t \in DOMAIN subs : RowGoesOn(t)
    <3>1. Saved(s, r) /\ (r.known <=> subs[s].known) /\ r.status = subs[s].status
      BY <2>3 DEF Locked, RowIs
    <3> QED
      BY <1>0, <3>1, SavedGoesOn
  <2> QED
    BY <1>0, <2>1, <2>2, <2>3 DEF Ignored
<1>4. \A t \in DOMAIN subs : Ongoing(t)
  BY <1>0, <1>1, <1>3, OngoingSame DEF RowGoesOn
<1>5. \A n \in DOMAIN mail' : \E k \in DOMAIN mail : mail'[n] = mail[k]
  BY <1>0, DroppedOne
<1>6. ASSUME NEW t \in Nat, NEW e \in Events, NEW d \in Int, Heard(t, e, d)'
      PROVE  Heard(t, e, d) \/ DatedEvent(t, e, d)'
  <2>1. CASE seen' = seen
    BY <1>6, <2>1 DEF Heard
  <2>0. seen' # seen => /\ EventId(x) \notin seen /\ seen' = seen \cup {EventId(x)}
                       /\ \/ \E r \in SubRows : Granted(s, x, r)
                          \/ \E r \in SubRows : Locked(s, x, r)
                          \/ Ignored(s, x)
    BY <1>0
  <2>2. CASE seen' # seen /\ t = s /\ e = x.event /\ d = x.day
    <3>1. ASSUME x.event = "received" PROVE subs'[s].status = "active"
      <4>1. PICK r \in SubRows : Granted(s, x, r)
        BY <1>0, <2>2, <2>0, <3>1 DEF Locked, Ignored
      <4>2. r.status = "active" /\ subs'[s] = r
        BY <1>0, <4>1 DEF Granted, RowIs, Saved
      <4> QED
        BY <4>2
    <3>2. subs'[s].known /\ s \in DOMAIN subs'
      BY <1>0, <1>2, <1>3 DEF RowGoesOn
    <3>3. /\ 0 <= x.day /\ x.day <= now
          /\ x.event \in {"received", "refunded"} => x.day <= card[s].charged
      BY <1>2 DEF DatedMail, x, s
    <3> QED
      BY <1>0, <2>2, <3>1, <3>2, <3>3 DEF DatedEvent
  <2>3. CASE seen' # seen /\ ~(t = s /\ e = x.event /\ d = x.day)
    BY <1>6, <2>0, <2>3, HeardOne DEF s
  <2> QED
    BY <2>1, <2>2, <2>3
<1> QED
  BY <1>0, <1>1, <1>4, <1>5, <1>6, DatedKept

LEMMA DatedStep ==
  ASSUME Typed, Linked, Dated, [Next]_vars
  PROVE  Dated'
<1>0. now \in Int /\ 0 <= now /\ DOMAIN subs \subseteq Nat /\ \A s \in DOMAIN subs : card[s] \in Cards
  <2>1. now \in Nat
    BY DEF Typed, TypeOK
  <2>2. \A s \in DOMAIN subs : s \in Nat /\ card[s] \in Cards
    BY Elements DEF Typed
  <2> QED
    BY <2>1, <2>2
<1>1. CASE Elsewhere
  BY <1>1, ElsewhereOthers, DatedElsewhere
<1>2. CASE Probe \/ UNCHANGED vars
  BY <1>2, DatedRows DEF Probe, vars, rows, core, RowGoesOn
<1>3. ASSUME NEW s \in DOMAIN subs, ProbeAnswer(s) PROVE Dated'
  <2>1. UNCHANGED <<now, seen, card, mail>>
    BY <1>3 DEF ProbeAnswer, core
  <2>2. DOMAIN subs' = DOMAIN subs /\ \A t \in DOMAIN subs : RowGoesOn(t)
    <3>1. CASE UNCHANGED <<subs, recent>>
      BY <3>1 DEF RowGoesOn
    <3>2. ASSUME NEW r \in SubRows, Saved(s, r),
                 RowIs(r, subs[s], "active", now + 1, subs[s].cancel, TRUE, subs[s].known)
          PROVE  DOMAIN subs' = DOMAIN subs /\ \A t \in DOMAIN subs : RowGoesOn(t)
      <4>1. (r.known <=> subs[s].known) /\ r.status = "active"
        BY <3>2 DEF RowIs
      <4> QED
        BY <3>2, <4>1, SavedGoesOn
    <3> QED
      BY <1>3, <3>1, <3>2, ProbeAnswerDoes, Zenon
  <2> QED
    BY <2>1, <2>2, DatedRows
<1>4. ASSUME NEW s \in DOMAIN subs, Authorize(s) \/ Charge(s) \/ Chargeback(s) \/ Inactivate(s) PROVE Dated'
  <2>1. UNCHANGED <<now, subs, seen>>
    BY <1>4, CoreDoes DEF rows
  <2>2. PICK c \in Cards :
          /\ CardSet(s, c)
          /\ c.charged \in {card[s].charged, now}
          /\ c.charged = card[s].charged \/ card[s].state = "active"
          /\ mail' = mail \/ \E m : /\ Sent(m) /\ m.of = s /\ m.day \in {now, card[s].charged} /\ m.day # NoDate
                                    /\ m.event \in {"received", "refunded"} => m.day <= c.charged
    <3>1. PICK c \in Cards :
              /\ CardSet(s, c)
              /\ \/ /\ subs[s].known /\ c.state = "active" /\ c.charged = card[s].charged
                    /\ mail' = mail
                 \/ /\ card[s].state = "active" /\ (card[s].charged = NoDate \/ now >= card[s].charged + Term)
                    /\ c.state = "active" /\ c.charged = now
                    /\ Sent([of |-> s, event |-> "received", day |-> now])
                 \/ /\ card[s].charged # NoDate
                    /\ c.state = card[s].state /\ c.charged = card[s].charged
                    /\ Sent([of |-> s, event |-> "refunded", day |-> card[s].charged])
                 \/ /\ card[s].state = "active"
                    /\ c.state = "ended" /\ c.charged = card[s].charged
                    /\ Sent([of |-> s, event |-> "inactivated", day |-> now])
      BY <1>4, CoreDoes
    <3>2. now # NoDate /\ c.charged \in Int /\ c.charged <= c.charged
      BY <1>0 DEF NoDate, Cards
    <3> QED
      BY <3>1, <3>2
  <2>3. card[s].state = "active" => subs[s].known
    BY DEF Linked
  <2> QED
    BY <2>1, <2>2, <2>3, DatedCore
<1>5. CASE Cancel
  <2>1. PICK s \in DOMAIN subs :
           /\ \/ /\ CardSet(s, [card[s] EXCEPT !.state = "ended"])
                 /\ \/ Sent([of |-> s, event |-> "ended", day |-> now])
                    \/ mail' = mail
                 /\ UNCHANGED <<subs, recent>>
              \/ /\ UNCHANGED <<ending, card, mail>>
                 /\ \E r \in SubRows :
                      /\ Saved(s, r)
                      /\ RowIs(r, subs[s], subs[s].status, subs[s].expires, TRUE, subs[s].provisional, subs[s].known)
           /\ UNCHANGED <<now, seen>>
    BY <1>5, CancelDoes, Zenon
  <2>2. CASE /\ CardSet(s, [card[s] EXCEPT !.state = "ended"])
             /\ \/ Sent([of |-> s, event |-> "ended", day |-> now])
                \/ mail' = mail
             /\ UNCHANGED <<subs, recent>>
    <3> DEFINE c == [card[s] EXCEPT !.state = "ended"]
    <3>1. c.charged = card[s].charged
      BY <1>0 DEF Cards
    <3>2. now # NoDate
      BY <1>0 DEF NoDate
    <3>3. mail' = mail \/ \E m : /\ Sent(m) /\ m.of = s /\ m.day \in {now, card[s].charged} /\ m.day # NoDate
                                 /\ m.event \in {"received", "refunded"} => m.day <= c.charged
      BY <2>2, <3>2
    <3> HIDE DEF c
    <3> QED
      BY <2>1, <2>2, <3>1, <3>3, DatedCore DEF c
  <2>3. ASSUME UNCHANGED <<ending, card, mail>>,
               NEW r \in SubRows, Saved(s, r),
               RowIs(r, subs[s], subs[s].status, subs[s].expires, TRUE, subs[s].provisional, subs[s].known)
        PROVE  Dated'
    <3>1. (r.known <=> subs[s].known) /\ r.status = subs[s].status
      BY <2>3 DEF RowIs
    <3> QED
      BY <2>1, <2>3, <3>1, SavedGoesOn, DatedRows
  <2> QED
    BY <2>1, <2>2, <2>3
<1>6. CASE CancelSave
  <2>1. /\ ending \in DOMAIN subs /\ subs' = [subs EXCEPT ![ending].cancel = TRUE] /\ Touch(ending)
        /\ UNCHANGED <<now, seen, card, mail>>
    BY <1>6 DEF CancelSave, core, Typed, TypeOK
  <2>2. PICK r \in SubRows :
          /\ Saved(ending, r)
          /\ RowIs(r, subs[ending], subs[ending].status, subs[ending].expires, TRUE, subs[ending].provisional, subs[ending].known)
    BY <2>1, Canceled
  <2>3. (r.known <=> subs[ending].known) /\ r.status = subs[ending].status
    BY <2>2 DEF RowIs
  <2> QED
    BY <2>1, <2>2, <2>3, SavedGoesOn, DatedRows
<1>7. ASSUME NEW m \in DOMAIN mail, CardWebhook(m) PROVE Dated'
  BY <1>7, DatedWebhook
<1>8. ASSUME UNCHANGED <<subs, seen, card>>, now <= now', now' \in Int,
             \A n \in DOMAIN mail' : \E k \in DOMAIN mail : mail'[n] = mail[k]
      PROVE  Dated'
  <2>1. \A s \in DOMAIN subs : Ongoing(s)
    BY <1>0, <1>8, OngoingSame
  <2>2. \A s \in Nat, e \in Events, d \in Int : Heard(s, e, d)' => Heard(s, e, d)
    BY <1>8 DEF Heard
  <2>3. \A s \in DOMAIN subs' : s \in DOMAIN subs
    BY <1>8
  <2> QED
    BY <1>0, <1>8, <2>1, <2>2, <2>3, DatedKept
<1>9. ASSUME NEW m \in DOMAIN mail, Lose(m) PROVE Dated'
  <2>1. mail' = Without(m) /\ UNCHANGED <<now, subs, seen, card>>
    BY <1>9 DEF Lose, Core, rows
  <2>2. \A k \in DOMAIN mail' : \E n \in DOMAIN mail : mail'[k] = mail[n]
    BY <2>1, DroppedOne
  <2>3. now <= now' /\ now' \in Int
    BY <1>0, <2>1
  <2> QED
    BY <1>8, <2>1, <2>2, <2>3
<1>10. CASE Tick
  <2>1. UNCHANGED <<subs, seen, card, mail>> /\ now' = now + 1
    BY <1>10 DEF Tick, rows, core
  <2> QED
    BY <1>0, <1>8, <2>1
<1> QED
  BY <1>1, <1>2, <1>3, <1>4, <1>5, <1>6, <1>7, <1>9, <1>10 DEF Next, Elsewhere


-----------------------------------------------------------------------------
(* Steps that leave what a card subscription is open for as it is *)

StillOpen(s) ==
  /\ s \in DOMAIN subs' /\ subs'[s].mode = subs[s].mode /\ subs'[s].status = subs[s].status
  /\ subs'[s].expires = subs[s].expires /\ subs'[s].provisional = subs[s].provisional
  /\ subs[s].cancel => subs'[s].cancel
Quiet ==
  /\ seen' = seen /\ UNCHANGED history /\ now' \in Int /\ now <= now'
  /\ \A s \in DOMAIN subs' :
       \/ s \in DOMAIN subs /\ subs'[s].mode = subs[s].mode
       \/ s \notin DOMAIN subs /\ subs'[s].status = "pending"
  /\ \A s \in DOMAIN subs : Card(s) => StillOpen(s)

LEMMA QuietSaved ==
  ASSUME NEW s \in DOMAIN subs, NEW r, Saved(s, r), r.mode = subs[s].mode, r.status = subs[s].status,
         r.expires = subs[s].expires, r.provisional <=> subs[s].provisional, r.provisional \in BOOLEAN,
         subs[s].provisional \in BOOLEAN, subs[s].cancel => r.cancel
  PROVE  DOMAIN subs' = DOMAIN subs /\ \A t \in DOMAIN subs : StillOpen(t)
<1>1. ASSUME NEW t \in DOMAIN subs PROVE StillOpen(t)
  <2>1. CASE t = s
    <3>1. subs'[t] = r /\ t \in DOMAIN subs'
      BY <2>1 DEF Saved
    <3>2. r.provisional = subs[s].provisional
      OBVIOUS
    <3> QED
      BY <2>1, <3>1, <3>2 DEF StillOpen
  <2>2. CASE t # s
    <3>1. subs'[t] = subs[t] /\ t \in DOMAIN subs'
      BY <2>2 DEF Saved
    <3> QED
      BY <3>1 DEF StillOpen
  <2> QED
    BY <2>1, <2>2
<1> QED
  BY <1>1 DEF Saved

LEMMA QuietCanceled ==
  ASSUME Typed, NEW s \in DOMAIN subs, NEW r \in SubRows, Saved(s, r),
         RowIs(r, subs[s], subs[s].status, subs[s].expires, TRUE, subs[s].provisional, subs[s].known)
  PROVE  DOMAIN subs' = DOMAIN subs /\ \A t \in DOMAIN subs : StillOpen(t)
<1>1. r.provisional \in BOOLEAN /\ subs[s].provisional \in BOOLEAN
  BY Elements DEF Typed, SubRows
<1>2. /\ r.mode = subs[s].mode /\ r.status = subs[s].status /\ r.expires = subs[s].expires
      /\ (r.provisional <=> subs[s].provisional) /\ (subs[s].cancel => r.cancel)
  BY <1>1 DEF RowIs
<1> QED
  BY <1>1, <1>2, QuietSaved

QuietSteps ==
  \/ Elsewhere \/ Probe \/ Cancel \/ CancelSave \/ Tick \/ UNCHANGED vars
  \/ \E s \in DOMAIN subs : Authorize(s) \/ Charge(s) \/ Chargeback(s) \/ Inactivate(s)
  \/ \E m \in DOMAIN mail : Lose(m)

LEMMA Steps ==
  ASSUME [Next]_vars
  PROVE  \/ QuietSteps
         \/ \E s \in DOMAIN subs : ProbeAnswer(s)
         \/ \E m \in DOMAIN mail : CardWebhook(m)
BY DEF Next, QuietSteps, Elsewhere

LEMMA QuietStep ==
  ASSUME Typed, Linked, QuietSteps
  PROVE  Quiet
<1>0. now \in Int /\ now <= now
  BY DEF Typed, TypeOK
<1>1. CASE Elsewhere
  <2>1. OthersOnly
    BY <1>1, ElsewhereOthers
  <2>2. ASSUME NEW s \in DOMAIN subs, Card(s) PROVE StillOpen(s)
    <3>1. s \in DOMAIN subs' /\ Untouched(s) /\ (Alike(s) \/ NewRow(s))
      BY <2>1, <2>2 DEF OthersOnly
    <3>2. subs'[s].mode = subs[s].mode
      BY <3>1 DEF Alike, NewRow
    <3> QED
      BY <3>1, <3>2 DEF StillOpen, Untouched
  <2>3. \A s \in DOMAIN subs' :
          \/ s \in DOMAIN subs /\ subs'[s].mode = subs[s].mode
          \/ s \notin DOMAIN subs /\ subs'[s].status = "pending"
    BY <2>1 DEF OthersOnly, Alike, NewRow
  <2> QED
    BY <1>0, <2>1, <2>2, <2>3 DEF Quiet, OthersOnly
<1>2. ASSUME UNCHANGED <<now, seen, history>>, DOMAIN subs' = DOMAIN subs, \A t \in DOMAIN subs : StillOpen(t)
      PROVE  Quiet
  BY <1>0, <1>2 DEF Quiet, StillOpen
<1>3. ASSUME UNCHANGED <<seen, subs, history>>, now' \in Int, now <= now'
      PROVE  Quiet
  BY <1>3 DEF Quiet, StillOpen
<1>4. ASSUME NEW s \in DOMAIN subs, Authorize(s) \/ Charge(s) \/ Chargeback(s) \/ Inactivate(s) PROVE Quiet
  BY <1>0, <1>3, <1>4, CoreDoes DEF rows
<1>5. CASE Probe \/ UNCHANGED vars \/ \E m \in DOMAIN mail : Lose(m)
  BY <1>0, <1>3, <1>5 DEF Probe, vars, rows, Lose, Core
<1>6. CASE Tick
  BY <1>0, <1>3, <1>6 DEF Tick, rows
<1>7. CASE Cancel
  <2>1. PICK s \in DOMAIN subs :
           /\ \/ UNCHANGED <<subs, recent>>
              \/ \E r \in SubRows :
                   /\ Saved(s, r)
                   /\ RowIs(r, subs[s], subs[s].status, subs[s].expires, TRUE, subs[s].provisional, subs[s].known)
           /\ UNCHANGED <<now, seen, history>>
    BY <1>7, CancelDoes, Zenon
  <2>2. CASE UNCHANGED <<subs, recent>>
    BY <1>0, <1>3, <2>1, <2>2
  <2>3. ASSUME NEW r \in SubRows, Saved(s, r),
               RowIs(r, subs[s], subs[s].status, subs[s].expires, TRUE, subs[s].provisional, subs[s].known)
        PROVE  Quiet
    BY <1>2, <2>1, <2>3, QuietCanceled
  <2> QED
    BY <2>1, <2>2, <2>3
<1>8. CASE CancelSave
  <2>1. /\ ending \in DOMAIN subs /\ subs' = [subs EXCEPT ![ending].cancel = TRUE] /\ Touch(ending)
        /\ UNCHANGED <<now, seen, history>>
    BY <1>8 DEF CancelSave, core, Typed, TypeOK
  <2>2. PICK r \in SubRows :
          /\ Saved(ending, r)
          /\ RowIs(r, subs[ending], subs[ending].status, subs[ending].expires, TRUE, subs[ending].provisional, subs[ending].known)
    BY <2>1, Canceled
  <2> QED
    BY <1>2, <2>1, <2>2, QuietCanceled
<1> QED
  BY <1>1, <1>4, <1>5, <1>6, <1>7, <1>8 DEF QuietSteps

-----------------------------------------------------------------------------
(* The webhooks of a subscription lie in the order they were sent, and where *)
(* none overtook another they are applied in it                            *)

\* event e of day d comes before the webhook y: a charge is no older, and a
\* refund is of a charge before that of y
Before(e, d, y) ==
  /\ e = "received" => d <= y.day
  /\ e = "refunded" /\ y.event = "received" => d < y.day
Ordered == \A m, n \in DOMAIN mail : m < n /\ mail[m].of = mail[n].of => Before(mail[m].event, mail[m].day, mail[n])
InOrder ==
  /\ Ordered
  /\ \A m \in DOMAIN mail, e \in Events, d \in Int :
       mail[m].of \notin overtaken /\ Fresh(m) /\ Heard(mail[m].of, e, d) => Before(e, d, mail[m])

LEMMA InOrderKept ==
  ASSUME InOrder, mail' = mail, seen' = seen, UNCHANGED history
  PROVE  InOrder'
BY DEF InOrder, Ordered, Fresh, Heard, history

LEMMA InOrderSent ==
  ASSUME Typed, InOrder, seen' = seen, UNCHANGED history, NEW x, Sent(x),
         \A n \in DOMAIN mail : mail[n].of = x.of => Before(mail[n].event, mail[n].day, x),
         \A e \in Events, d \in Int : Heard(x.of, e, d) => Before(e, d, x)
  PROVE  InOrder'
<1>1. \A n \in DOMAIN mail' :
        \/ n \in DOMAIN mail /\ mail'[n] = mail[n]
        \/ n = Len(mail) + 1 /\ n \notin DOMAIN mail /\ mail'[n] = x
  BY SentOne
<1>2. Len(mail) \in Nat /\ DOMAIN mail = 1 .. Len(mail)
  BY Elements DEF Typed
<1>3. ASSUME NEW m \in DOMAIN mail', NEW n \in DOMAIN mail', m < n, mail'[m].of = mail'[n].of
      PROVE  Before(mail'[m].event, mail'[m].day, mail'[n])
  <2>1. m \in DOMAIN mail /\ mail'[m] = mail[m]
    <3>1. m # Len(mail) + 1
      BY <1>1, <1>2, <1>3
    <3> QED
      BY <1>1, <3>1
  <2>2. CASE n \in DOMAIN mail /\ mail'[n] = mail[n]
    BY <1>3, <2>1, <2>2 DEF InOrder, Ordered
  <2>3. CASE mail'[n] = x
    BY <1>3, <2>1, <2>3
  <2> QED
    BY <1>1, <2>2, <2>3
<1>4. ASSUME NEW m \in DOMAIN mail', NEW e \in Events, NEW d \in Int, mail'[m].of \notin overtaken', Fresh(m)',
             Heard(mail[m].of, e, d)'
      PROVE  Before(e, d, mail'[m])
  <2>1. EventId(mail'[m]) \notin seen /\ Heard(mail'[m].of, e, d) /\ mail'[m].of \notin overtaken
    BY <1>4 DEF Fresh, Heard, history
  <2>2. CASE m \in DOMAIN mail /\ mail'[m] = mail[m]
    BY <2>1, <2>2 DEF InOrder, Fresh
  <2>3. CASE mail'[m] = x
    BY <2>1, <2>3
  <2> QED
    BY <1>1, <2>2, <2>3
<1>5. Ordered'
  BY <1>3 DEF Ordered, Before
<1> QED
  BY <1>4, <1>5 DEF InOrder, Before

\* webhooks that are left were there, in the same order
LEMMA InOrderDropped ==
  ASSUME Typed, Ordered, NEW m \in DOMAIN mail, mail' \in {mail, Without(m)}
  PROVE  /\ Ordered'
         /\ \A n \in DOMAIN mail' : \E k \in DOMAIN mail : mail'[n] = mail[k]
<1>1. CASE mail' = mail
  BY <1>1 DEF Ordered
<1>2. CASE \A n \in DOMAIN mail' :
             Moved(m, n) \in DOMAIN mail \ {m} /\ mail'[n] = mail[Moved(m, n)] /\ n \in Nat
  <2>1. m \in Nat
    BY Elements DEF Typed
  <2>2. ASSUME NEW a \in DOMAIN mail', NEW b \in DOMAIN mail', a < b, mail'[a].of = mail'[b].of
        PROVE  Before(mail'[a].event, mail'[a].day, mail'[b])
    <3>1. Moved(m, a) < Moved(m, b)
      BY <1>2, <2>1, <2>2, MovedApart
    <3> QED
      BY <1>2, <2>2, <3>1 DEF Ordered
  <2> QED
    BY <1>2, <2>2 DEF Ordered, Before
<1> QED
  BY <1>1, <1>2, DroppedOne

LEMMA InOrderWebhook ==
  ASSUME Typed, Linked, InOrder, NEW m \in DOMAIN mail, CardWebhook(m)
  PROVE  InOrder'
<1> DEFINE x == mail[m]
<1>0. /\ mail' \in {mail, Without(m)}
      /\ seen' = seen \/ seen' = seen \cup {EventId(x)}
      /\ EventId(x) \in seen'
  BY WebhookDoes
<1>0a. /\ overtaken \subseteq overtaken'
       /\ x.of \notin overtaken' => \A n \in 1 .. m - 1 : mail[n].of = x.of => EventId(mail[n]) \in seen
  BY WebhookNotes
<1>1. /\ Ordered'
      /\ \A n \in DOMAIN mail' : \E k \in DOMAIN mail : mail'[n] = mail[k]
  BY <1>0, InOrderDropped DEF InOrder
<1>2. DOMAIN mail \subseteq Nat \ {0}
  BY Elements DEF Typed
<1>3. ASSUME NEW n \in DOMAIN mail', NEW e \in Events, NEW d \in Int, mail'[n].of \notin overtaken', Fresh(n)',
             Heard(mail[n].of, e, d)'
      PROVE  Before(e, d, mail'[n])
  <2>1. PICK k \in DOMAIN mail : mail'[n] = mail[k]
    BY <1>1
  <2>2. EventId(mail[k]) \notin seen' /\ EventId(mail[k]) \notin seen /\ k # m /\ mail[k].of \notin overtaken
    BY <1>0, <1>0a, <1>3, <2>1 DEF Fresh
  <2>3. CASE Heard(mail[k].of, e, d)
    BY <1>0, <2>1, <2>2, <2>3 DEF InOrder, Fresh
  <2>4. CASE mail[k].of = x.of /\ e = x.event /\ d = x.day
    <3>1. m < k
      <4>1. ~(k \in 1 .. m - 1)
        BY <1>0a, <1>3, <2>1, <2>2, <2>4
      <4> QED
        BY <1>2, <2>2, <4>1
    <3> QED
      BY <2>1, <2>4, <3>1 DEF InOrder, Ordered
  <2>5. Heard(mail[k].of, e, d) \/ (mail[k].of = x.of /\ e = x.event /\ d = x.day)
    <3>1. CASE seen' = seen
      BY <1>3, <2>1, <3>1 DEF Heard
    <3>2. CASE seen' = seen \cup {EventId(x)}
      BY <1>3, <2>1, <3>2, HeardOne
    <3> QED
      BY <1>0, <3>1, <3>2
  <2> QED
    BY <2>3, <2>4, <2>5
<1> HIDE DEF x
<1> QED
  BY <1>1, <1>3 DEF InOrder, Before

\* what the Core sends comes after what it sent
LEMMA InOrderNow ==
  ASSUME Typed, Dated, InOrder, UNCHANGED <<seen, history>>, NEW x, Sent(x), x.day = now,
         x.event = "received" => card[x.of].charged < now
  PROVE  InOrder'
<1>1. ASSUME NEW n \in DOMAIN mail, mail[n].of = x.of
      PROVE  Before(mail[n].event, mail[n].day, x)
  <2>1. DatedMail(n)
    BY DEF Dated
  <2>2. mail[n].day \in Int /\ card[x.of].charged \in Int /\ now \in Int
    <3>1. mail[n] \in Mails /\ mail[n].of \in DOMAIN subs /\ now \in Int
      BY Elements DEF Typed, TypeOK
    <3>2. DatedCard(mail[n].of)
      BY <3>1 DEF Dated
    <3> QED
      BY <1>1, <3>1, <3>2 DEF Mails, DatedCard
  <2> QED
    BY <1>1, <2>1, <2>2 DEF DatedMail, Before
<1>2. ASSUME NEW e \in Events, NEW d \in Int, Heard(x.of, e, d) PROVE Before(e, d, x)
  <2>1. x.of \in Nat
    BY <1>2 DEF Heard, Typed, TypeOK
  <2>2. DatedEvent(x.of, e, d)
    BY <1>2, <2>1 DEF Dated
  <2>3. card[x.of].charged \in Int /\ now \in Int
    <3>1. DatedCard(x.of)
      BY <2>2 DEF DatedEvent, Dated
    <3>2. now \in Int
      BY DEF Typed, TypeOK
    <3> QED
      BY <3>1, <3>2 DEF DatedCard
  <2> QED
    BY <2>2, <2>3 DEF DatedEvent, Before
<1> QED
  BY <1>1, <1>2, InOrderSent

LEMMA InOrderRefund ==
  ASSUME Typed, Dated, InOrder, UNCHANGED <<seen, history>>, NEW x, Sent(x),
         x.event = "refunded", x.day = card[x.of].charged
  PROVE  InOrder'
<1>1. ASSUME NEW n \in DOMAIN mail, mail[n].of = x.of
      PROVE  Before(mail[n].event, mail[n].day, x)
  BY <1>1 DEF Dated, DatedMail, Before
<1>2. ASSUME NEW e \in Events, NEW d \in Int, Heard(x.of, e, d) PROVE Before(e, d, x)
  <2>1. x.of \in Nat
    BY <1>2 DEF Heard, Typed, TypeOK
  <2> QED
    BY <1>2, <2>1 DEF Dated, DatedEvent, Before
<1> QED
  BY <1>1, <1>2, InOrderSent

LEMMA InOrderStep ==
  ASSUME Typed, Linked, Dated, InOrder, [Next]_vars
  PROVE  InOrder'
<1> USE BillingAssumption
<1>1. CASE Elsewhere
  BY <1>1, ElsewhereOthers, InOrderKept DEF OthersOnly
<1>2. CASE Probe \/ CancelSave \/ Tick \/ UNCHANGED vars \/ \E s \in DOMAIN subs : ProbeAnswer(s)
  <2>1. mail' = mail /\ seen' = seen /\ UNCHANGED history
    BY <1>2 DEF Probe, CancelSave, Tick, ProbeAnswer, vars, rows, core
  <2> QED
    BY <2>1, InOrderKept
<1>3. ASSUME NEW s \in DOMAIN subs, Authorize(s) \/ Charge(s) \/ Chargeback(s) \/ Inactivate(s) PROVE InOrder'
  <2>0. UNCHANGED <<now, subs, seen, history>>
    BY <1>3, CoreDoes DEF rows
  <2>1. CASE mail' = mail
    BY <2>0, <2>1, InOrderKept
  <2>2. CASE /\ card[s].charged = NoDate \/ now >= card[s].charged + Term
             /\ Sent([of |-> s, event |-> "received", day |-> now])
    <3>1. card[s].charged < now
      <4>1. DatedCard(s)
        BY DEF Dated
      <4>2. now \in Int /\ 0 <= now
        BY DEF Typed, TypeOK
      <4> QED
        BY <2>2, <4>1, <4>2 DEF DatedCard, NoDate
    <3> DEFINE x == [of |-> s, event |-> "received", day |-> now]
    <3>2. x.day = now /\ x.event = "received" /\ x.of = s
      OBVIOUS
    <3> HIDE DEF x
    <3> QED
      BY <2>0, <2>2, <3>1, <3>2, InOrderNow DEF x
  <2>3. CASE Sent([of |-> s, event |-> "refunded", day |-> card[s].charged])
    <3> DEFINE x == [of |-> s, event |-> "refunded", day |-> card[s].charged]
    <3>2. x.day = card[s].charged /\ x.event = "refunded" /\ x.of = s
      OBVIOUS
    <3> HIDE DEF x
    <3> QED
      BY <2>0, <2>3, <3>2, InOrderRefund DEF x
  <2>4. CASE Sent([of |-> s, event |-> "inactivated", day |-> now])
    <3> DEFINE x == [of |-> s, event |-> "inactivated", day |-> now]
    <3>2. x.day = now /\ x.event = "inactivated" /\ x.of = s
      OBVIOUS
    <3> HIDE DEF x
    <3> QED
      BY <2>0, <2>4, <3>2, InOrderNow DEF x
  <2> QED
    BY <1>3, <2>1, <2>2, <2>3, <2>4, CoreDoes
<1>4. CASE Cancel
  <2>1. PICK s \in DOMAIN subs :
           /\ UNCHANGED <<now, seen, history>>
           /\ mail' = mail \/ Sent([of |-> s, event |-> "ended", day |-> now])
    BY <1>4, CancelDoes
  <2>2. CASE mail' = mail
    BY <2>1, <2>2, InOrderKept
  <2>3. CASE Sent([of |-> s, event |-> "ended", day |-> now])
    <3> DEFINE x == [of |-> s, event |-> "ended", day |-> now]
    <3>2. x.day = now /\ x.event = "ended" /\ x.of = s
      OBVIOUS
    <3> HIDE DEF x
    <3> QED
      BY <2>1, <2>3, <3>2, InOrderNow DEF x
  <2> QED
    BY <2>1, <2>2, <2>3
<1>5. ASSUME NEW m \in DOMAIN mail, CardWebhook(m) PROVE InOrder'
  BY <1>5, InOrderWebhook
<1>6. ASSUME NEW m \in DOMAIN mail, Lose(m) PROVE InOrder'
  <2>1. mail' = Without(m) /\ seen' = seen /\ overtaken' = overtaken
    BY <1>6 DEF Lose, Core, rows, history
  <2>2. Ordered' /\ \A n \in DOMAIN mail' : \E k \in DOMAIN mail : mail'[n] = mail[k]
    BY <2>1, InOrderDropped DEF InOrder
  <2>3. ASSUME NEW n \in DOMAIN mail', NEW e \in Events, NEW d \in Int, mail'[n].of \notin overtaken', Fresh(n)',
               Heard(mail[n].of, e, d)'
        PROVE  Before(e, d, mail'[n])
    BY <2>1, <2>2, <2>3 DEF InOrder, Fresh, Heard
  <2> QED
    BY <2>2, <2>3 DEF InOrder, Before
<1> QED
  BY <1>1, <1>2, <1>3, <1>4, <1>5, <1>6 DEF Next, Elsewhere

-----------------------------------------------------------------------------
(* What falls between the read and the write of a session is known *)

\* a row that is being asked about was not paid for, unless a webhook of it came
\* meanwhile; and the end of a subscription is told only after its owner's
\* cancellation is on its way
Undisturbed ==
  /\ \A s \in probe \ crossed : \A d \in Int : ~Heard(s, "received", d)
  /\ \A m \in DOMAIN mail : mail[m].event = "ended" => subs[mail[m].of].cancel \/ ending = mail[m].of

StaysCanceled == \A s \in DOMAIN subs : Card(s) /\ subs[s].cancel => subs'[s].cancel

LEMMA UndisturbedKept ==
  ASSUME Typed, Linked, Undisturbed, StaysCanceled, probe' \subseteq probe,
         \A s \in probe' \ crossed' : s \notin crossed /\ \A d \in Int : Heard(s, "received", d)' => Heard(s, "received", d),
         \A n \in DOMAIN mail' : mail'[n].event = "ended" =>
            (\E k \in DOMAIN mail : mail'[n] = mail[k]) \/ ending' = mail'[n].of,
         \A s \in DOMAIN subs : ending = s => subs'[s].cancel \/ ending' = s
  PROVE  Undisturbed'
<1>0. /\ \A m \in DOMAIN mail : mail[m].of \in DOMAIN subs /\ Card(mail[m].of)
      /\ \A s \in probe : s \in DOMAIN subs
  BY DEF Linked, Typed, TypeOK
<1>1. ASSUME NEW n \in DOMAIN mail', mail'[n].event = "ended"
      PROVE  subs'[mail'[n].of].cancel \/ ending' = mail'[n].of
  <2>1. ASSUME NEW k \in DOMAIN mail, mail'[n] = mail[k] PROVE subs'[mail'[n].of].cancel \/ ending' = mail'[n].of
    <3>1. subs[mail[k].of].cancel \/ ending = mail[k].of
      BY <1>1, <2>1 DEF Undisturbed
    <3> QED
      BY <1>0, <2>1, <3>1 DEF StaysCanceled
  <2> QED
    BY <1>1, <2>1
<1>2. \A s \in probe' \ crossed' : \A d \in Int : ~Heard(s, "received", d)'
  BY DEF Undisturbed
<1> QED
  BY <1>1, <1>2 DEF Undisturbed

\* a step that hears nothing keeps the first part
LEMMA ProbesKept ==
  ASSUME seen' = seen, UNCHANGED history
  PROVE  \A s \in probe' \ crossed' : s \notin crossed /\ \A d \in Int : Heard(s, "received", d)' => Heard(s, "received", d)
BY DEF Heard, history

LEMMA UndisturbedInit == ASSUME Init PROVE Undisturbed
<1>1. mail = <<>> /\ probe = {}
  BY DEF Init
<1> QED
  BY <1>1 DEF Undisturbed

LEMMA UndisturbedWebhook ==
  ASSUME Typed, Linked, Undisturbed, NEW m \in DOMAIN mail, CardWebhook(m)
  PROVE  Undisturbed'
<1> DEFINE x == mail[m]
           s == x.of
<1>1. /\ mail' \in {mail, Without(m)} /\ UNCHANGED <<probe, ending>> /\ s \in DOMAIN subs
      /\ seen' = seen \/ seen' = seen \cup {EventId(x)}
      /\ \/ UNCHANGED <<subs, recent>>
         \/ \E r \in SubRows : Granted(s, x, r)
         \/ \E r \in SubRows : Locked(s, x, r)
  BY WebhookDoes DEF Ignored
<1>1a. /\ \A t : t # s => (t \in crossed' <=> t \in crossed)
       /\ s \in probe => s \in crossed'
  BY WebhookNotes
<1>1b. ASSUME NEW t \in probe' \ crossed', NEW d \in Int, Heard(t, "received", d)'
       PROVE  Heard(t, "received", d)
  <2>1. t # s
    BY <1>1, <1>1a, <1>1b
  <2> QED
    BY <1>1, <1>1b, <2>1, HeardOne DEF Heard
<1>1c. \A t \in probe' \ crossed' : t \notin crossed /\ \A d \in Int : Heard(t, "received", d)' => Heard(t, "received", d)
  BY <1>1, <1>1a, <1>1b
<1> HIDE DEF s, x
<1>2. StaysCanceled
  <2>1. CASE UNCHANGED <<subs, recent>>
    BY <2>1 DEF StaysCanceled
  <2>2. ASSUME NEW r \in SubRows, Saved(s, r), subs[s].cancel => r.cancel PROVE StaysCanceled
    <3>1. ASSUME NEW t \in DOMAIN subs, subs[t].cancel PROVE subs'[t].cancel
      <4>1. CASE t = s
        <5>1. subs'[t] = r
          BY <2>2, <4>1 DEF Saved
        <5> QED
          BY <2>2, <3>1, <4>1, <5>1
      <4>2. CASE t # s
        <5>1. subs'[t] = subs[t]
          BY <2>2, <4>2 DEF Saved
        <5> QED
          BY <3>1, <5>1
      <4> QED
        BY <4>1, <4>2
    <3> QED
      BY <3>1 DEF StaysCanceled
  <2>3. ASSUME NEW r \in SubRows, Granted(s, x, r) PROVE StaysCanceled
    <3>1. Saved(s, r) /\ r.cancel = subs[s].cancel
      BY <2>3 DEF Granted, RowIs
    <3> QED
      BY <2>2, <3>1
  <2>4. ASSUME NEW r \in SubRows, Locked(s, x, r) PROVE StaysCanceled
    <3>1. Saved(s, r) /\ r.cancel
      BY <2>4 DEF Locked, RowIs
    <3> QED
      BY <2>2, <3>1
  <2> QED
    BY <1>1, <2>1, <2>3, <2>4
<1>3. \A n \in DOMAIN mail' : \E k \in DOMAIN mail : mail'[n] = mail[k]
  BY <1>1, DroppedOne
<1>4. probe' \subseteq probe /\ \A t \in DOMAIN subs : ending = t => ending' = t
  BY <1>1
<1> QED
  BY <1>1c, <1>2, <1>3, <1>4, UndisturbedKept

LEMMA UndisturbedStep ==
  ASSUME Typed, Linked, Dated, Undisturbed, [Next]_vars
  PROVE  Undisturbed'
<1>0. /\ 0 \notin DOMAIN subs /\ probe \subseteq probe /\ DOMAIN subs \subseteq Nat
      /\ \A m \in DOMAIN mail : mail[m].of \in DOMAIN subs
  BY Elements DEF Typed
<1>1. QuietSteps =>
        /\ StaysCanceled
        /\ \A s \in probe' \ crossed' : s \notin crossed /\ \A d \in Int : Heard(s, "received", d)' => Heard(s, "received", d)
  BY QuietStep, ProbesKept DEF Quiet, StillOpen, StaysCanceled
<1>2. CASE Elsewhere \/ Tick \/ UNCHANGED vars
  <2>1. UNCHANGED <<mail, probe, ending, history>>
    BY <1>2, ElsewhereOthers DEF OthersOnly, Tick, vars, core
  <2> QED
    BY <1>0, <1>1, <1>2, <2>1, UndisturbedKept DEF QuietSteps
<1>3. CASE Probe
  <2>1. \A s \in probe' : s \in DOMAIN subs /\ subs[s].status = "pending"
    BY <1>3 DEF Probe
  <2>2. \A s \in probe', d \in Int : ~Heard(s, "received", d)
    <3>1. "received" \in Events
      BY DEF Events
    <3> QED
      BY <1>0, <2>1, <3>1 DEF Dated, DatedEvent
  <2>3. UNCHANGED <<subs, mail, seen, ending>>
    BY <1>3 DEF Probe, rows, core
  <2>4. \A s \in probe' \ crossed' : \A d \in Int : ~Heard(s, "received", d)'
    BY <2>2, <2>3 DEF Heard
  <2> QED
    BY <2>3, <2>4 DEF Undisturbed
<1>4. ASSUME NEW s \in DOMAIN subs, ProbeAnswer(s) PROVE Undisturbed'
  <2>1. /\ probe' = probe \ {s} /\ UNCHANGED <<seen, mail, ending, history>>
        /\ \/ UNCHANGED <<subs, recent>>
           \/ \E r \in SubRows :
                Saved(s, r) /\ RowIs(r, subs[s], "active", now + 1, subs[s].cancel, TRUE, subs[s].known)
    BY <1>4, ProbeAnswerDoes, Zenon DEF core
  <2>2. CASE UNCHANGED <<subs, recent>>
    BY <2>1, <2>2, ProbesKept, UndisturbedKept DEF StaysCanceled
  <2>3. ASSUME NEW r \in SubRows, Saved(s, r),
               RowIs(r, subs[s], "active", now + 1, subs[s].cancel, TRUE, subs[s].known)
        PROVE  Undisturbed'
    <3>1. r.cancel = subs[s].cancel
      BY <2>3 DEF RowIs
    <3>2. ASSUME NEW t \in DOMAIN subs PROVE subs'[t].cancel = subs[t].cancel
      <4>1. CASE t = s
        BY <2>3, <3>1, <4>1 DEF Saved
      <4>2. CASE t # s
        <5>1. subs'[t] = subs[t]
          BY <2>3, <4>2 DEF Saved
        <5> QED
          BY <5>1
      <4> QED
        BY <4>1, <4>2
    <3>3. StaysCanceled
      BY <3>2 DEF StaysCanceled
    <3> QED
      BY <2>1, <3>3, ProbesKept, UndisturbedKept
  <2> QED
    BY <2>1, <2>2, <2>3
<1>5. ASSUME NEW s \in DOMAIN subs, Authorize(s) \/ Charge(s) \/ Chargeback(s) \/ Inactivate(s) PROVE Undisturbed'
  <2>1. UNCHANGED <<probe, ending>>
    BY <1>5, CoreDoes
  <2>2. mail' = mail \/ \E x : Sent(x) /\ x.event # "ended"
    <3>1. \/ mail' = mail
          \/ Sent([of |-> s, event |-> "received", day |-> now])
          \/ Sent([of |-> s, event |-> "refunded", day |-> card[s].charged])
          \/ Sent([of |-> s, event |-> "inactivated", day |-> now])
      BY <1>5, CoreDoes
    <3>2. ASSUME NEW e, NEW d, e # "ended", Sent([of |-> s, event |-> e, day |-> d])
          PROVE  \E x : Sent(x) /\ x.event # "ended"
      BY <3>2
    <3> QED
      BY <3>1, <3>2
  <2>3. \A n \in DOMAIN mail' : mail'[n].event = "ended" => \E k \in DOMAIN mail : mail'[n] = mail[k]
    BY <2>2, SentOne
  <2>4. QuietSteps
    BY <1>5 DEF QuietSteps
  <2> QED
    BY <1>0, <1>1, <2>1, <2>3, <2>4, UndisturbedKept
<1>6. CASE Cancel
  <2>1. PICK s \in DOMAIN subs :
          /\ ending = 0 /\ probe' = probe
          /\ \/ mail' = mail
             \/ ending' = s /\ Sent([of |-> s, event |-> "ended", day |-> now])
    BY <1>6, CancelDoes
  <2>2. \A n \in DOMAIN mail' : (\E k \in DOMAIN mail : mail'[n] = mail[k]) \/ ending' = mail'[n].of
    <3>1. CASE mail' = mail
      BY <3>1
    <3>2. CASE ending' = s /\ Sent([of |-> s, event |-> "ended", day |-> now])
      BY <3>2, SentOne
    <3> QED
      BY <2>1, <3>1, <3>2
  <2> QED
    BY <1>0, <1>1, <1>6, <2>1, <2>2, UndisturbedKept DEF QuietSteps
<1>7. CASE CancelSave
  <2>1. /\ ending \in DOMAIN subs /\ subs' = [subs EXCEPT ![ending].cancel = TRUE]
        /\ UNCHANGED <<mail, probe>>
    BY <1>7 DEF CancelSave, core, Typed, TypeOK
  <2>2. subs'[ending].cancel
    BY <2>1, Elements DEF Typed, SubRows
  <2> QED
    BY <1>0, <1>1, <1>7, <2>1, <2>2, UndisturbedKept DEF QuietSteps
<1>8. ASSUME NEW m \in DOMAIN mail, CardWebhook(m) PROVE Undisturbed'
  BY <1>8, UndisturbedWebhook
<1>9. ASSUME NEW m \in DOMAIN mail, Lose(m) PROVE Undisturbed'
  <2>1. mail' = Without(m) /\ UNCHANGED <<probe, ending>>
    BY <1>9 DEF Lose, Core
  <2>2. \A n \in DOMAIN mail' : \E k \in DOMAIN mail : mail'[n] = mail[k]
    BY <2>1, DroppedOne
  <2>3. QuietSteps
    BY <1>9 DEF QuietSteps
  <2> QED
    BY <1>0, <1>1, <2>1, <2>2, <2>3, UndisturbedKept
<1> QED
  BY <1>2, <1>3, <1>4, <1>5, <1>6, <1>7, <1>8, <1>9, Steps DEF QuietSteps


-----------------------------------------------------------------------------
(* What was charged and not taken back is not cut short *)

Back(s, e, d) == \E n \in Int : Heard(s, e, n) /\ d <= n
Kept ==
  \A s \in DOMAIN subs \ (crossed \cup overtaken), d \in Int :
    Heard(s, "received", d) /\ ~Back(s, "refunded", d) /\ ~Back(s, "inactivated", d)
      => subs[s].expires >= d + Term
Covered ==
  \A s \in DOMAIN subs \ overtaken :
    Card(s) /\ subs[s].status = "active" =>
      /\ subs[s].expires > NoDate
      /\ subs[s].expires >= now /\ ~subs[s].provisional =>
           \E d \in Int : Heard(s, "received", d) /\ subs[s].expires <= d + Term /\ ~Back(s, "refunded", d)

LEMMA HeardOf ==
  ASSUME Typed, Linked, Dated, NEW s \in DOMAIN subs, NEW e \in Events, NEW d \in Int, Heard(s, e, d)
  PROVE  DatedEvent(s, e, d) /\ Card(s) /\ s \in Nat
<1>1. s \in Nat
  BY Elements DEF Typed
<1>2. DatedEvent(s, e, d)
  BY <1>1 DEF Dated
<1> QED
  BY <1>1, <1>2 DEF DatedEvent, Linked

LEMMA SameHeard ==
  ASSUME seen' = seen, NEW s, NEW e, NEW d
  PROVE  (Heard(s, e, d)' <=> Heard(s, e, d)) /\ (Back(s, e, d)' <=> Back(s, e, d))
BY DEF Heard, Back

LEMMA NewRowsUnheard ==
  ASSUME Typed, Dated, NEW s \in Nat, NEW e \in Events, NEW d \in Int, Heard(s, e, d)
  PROVE  s \in DOMAIN subs
BY DEF Dated, DatedEvent

LEMMA KeptInit == ASSUME Init PROVE Kept
BY DEF Init, Kept, Heard

LEMMA CoveredInit == ASSUME Init PROVE Covered
<1>1. CASE Trial
  <2>1. DOMAIN subs = {1} /\ subs[1].status = "trialing"
    <3> DEFINE r == [Row("card", "trial", <<"trial">>) EXCEPT !.status = "trialing", !.expires = Term]
    <3>1. subs = <<r>>
      BY <1>1 DEF Init
    <3>2. r.status = "trialing"
      BY DEF Row
    <3> HIDE DEF r
    <3> QED
      BY <3>1, <3>2
  <2> QED
    BY <2>1 DEF Covered
<1>2. CASE ~Trial
  BY <1>2 DEF Init, Covered
<1> QED
  BY <1>1, <1>2

\* a step that hears nothing and changes no card subscription but one
LEMMA KeptQuiet ==
  ASSUME Typed, Linked, Dated, Kept, seen' = seen, DOMAIN subs' \subseteq Nat,
         \A s \in DOMAIN subs : s \notin crossed' \cup overtaken' => s \notin crossed \cup overtaken,
         \A s \in DOMAIN subs :
           Card(s) /\ (\E d \in Int : Heard(s, "received", d))
             => s \in crossed' \/ subs'[s].expires = subs[s].expires
  PROVE  Kept'
<1>1. ASSUME NEW s \in DOMAIN subs' \ (crossed' \cup overtaken'), NEW d \in Int, Heard(s, "received", d)',
             ~Back(s, "refunded", d)', ~Back(s, "inactivated", d)'
      PROVE  subs'[s].expires >= d + Term
  <2>1. Heard(s, "received", d) /\ ~Back(s, "refunded", d) /\ ~Back(s, "inactivated", d)
    BY <1>1, SameHeard
  <2>2. "received" \in Events
    BY DEF Events
  <2>3. s \in DOMAIN subs /\ Card(s)
    BY <2>1, <2>2, HeardOf, NewRowsUnheard
  <2> QED
    BY <2>1, <2>3 DEF Kept
<1> QED
  BY <1>1 DEF Kept

LEMMA KeptWebhook ==
  ASSUME Typed, Linked, Dated, InOrder, Undisturbed, Kept, NEW m \in DOMAIN mail, CardWebhook(m)
  PROVE  Kept'
<1> USE BillingAssumption
<1> DEFINE x == mail[m]
           s == x.of
<1>0. /\ x \in Mails /\ s \in DOMAIN subs /\ DOMAIN subs' = DOMAIN subs
      /\ \/ EventId(x) \in seen /\ UNCHANGED <<subs, recent, seen>>
         \/ /\ EventId(x) \notin seen /\ seen' = seen \cup {EventId(x)}
            /\ \/ \E r \in SubRows : Granted(s, x, r)
               \/ \E r \in SubRows : Locked(s, x, r)
               \/ Ignored(s, x)
  BY WebhookDoes
<1>1. /\ DOMAIN subs \subseteq Nat \ {0} /\ now \in Int /\ x.day \in Int /\ x.event \in Events /\ Term \in Int
      /\ \A t \in DOMAIN subs : subs[t].expires \in Int
  <2>1. \A t \in DOMAIN subs : subs[t] \in SubRows
    BY Elements DEF Typed
  <2>2. DOMAIN subs = 1 .. Len(subs) /\ Len(subs) \in Nat
    BY Elements DEF Typed
  <2>3. now \in Int
    BY DEF Typed, TypeOK
  <2>4. x.day \in Int /\ x.event \in Events
    BY <1>0 DEF Mails, Events
  <2> QED
    BY <2>1, <2>2, <2>3, <2>4 DEF SubRows
<1>1a. /\ \A t : t # s => (t \in crossed' <=> t \in crossed) /\ (t \in overtaken' <=> t \in overtaken)
       /\ s = ending => s \in crossed'
       /\ s \in crossed /\ s \notin crossed' => EventId(x) \notin seen /\ x.event = "received"
       /\ overtaken \subseteq overtaken'
  BY WebhookNotes
<1>2. x.event = "ended" => subs[s].cancel \/ s \in crossed'
  BY <1>1a DEF Undisturbed
<1>3. s \notin overtaken' /\ EventId(x) \notin seen => \A e \in Events, d \in Int : Heard(s, e, d) => Before(e, d, x)
  BY <1>1a DEF InOrder, Fresh
<1> HIDE DEF s, x
<1>4. CASE EventId(x) \in seen /\ UNCHANGED <<subs, recent, seen>>
  <2>2. \A t \in DOMAIN subs : t \notin crossed' \cup overtaken' => t \notin crossed \cup overtaken
    BY <1>1a, <1>4
  <2>3. DOMAIN subs' \subseteq Nat
    BY <1>0, <1>1
  <2> QED
    BY <1>4, <2>2, <2>3, KeptQuiet
<1>5. CASE EventId(x) \notin seen /\ seen' = seen \cup {EventId(x)}
  <2>1. ASSUME NEW t \in DOMAIN subs' \ (crossed' \cup overtaken'), NEW d \in Int, Heard(t, "received", d)',
               ~Back(t, "refunded", d)', ~Back(t, "inactivated", d)'
        PROVE  subs'[t].expires >= d + Term
    <3>1. Heard(t, "received", d) \/ (t = s /\ x.event = "received" /\ d = x.day)
      BY <1>5, <2>1, HeardOne DEF s
    <3>2. \A e \in Events, n \in Int : Heard(t, e, n) => Heard(t, e, n)'
      BY <1>5 DEF Heard
    <3>3. ~Back(t, "refunded", d) /\ ~Back(t, "inactivated", d)
      BY <2>1, <3>2 DEF Back, Events
    <3>4. <<s, x.event, x.day>> \in seen'
      BY <1>5 DEF EventId, s
    <3>4a. t \notin overtaken /\ (t \notin crossed \/ (t = s /\ x.event = "received"))
      BY <1>1a
    <3>5. Heard(t, "received", d) /\ t \notin crossed => subs[t].expires >= d + Term
      BY <1>0, <2>1, <3>3, <3>4a DEF Kept
    <3>6. CASE \E r \in SubRows : Granted(s, x, r)
      <4>1. PICK r \in SubRows : Granted(s, x, r)
        BY <3>6
      <4>2. subs'[s].expires = x.day + Term /\ \A a \in DOMAIN subs \ {s} : subs'[a] = subs[a]
        BY <4>1 DEF Granted, Saved, RowIs
      <4>3. CASE t = s
        <5>1. d <= x.day
          BY <1>1, <1>3, <1>5, <3>1, <4>3 DEF Before, Events
        <5> QED
          BY <1>1, <4>2, <4>3, <5>1
      <4>4. CASE t # s
        BY <1>0, <3>1, <3>4a, <3>5, <4>2, <4>4
      <4> QED
        BY <4>3, <4>4
    <3>7. CASE \E r \in SubRows : Locked(s, x, r)
      <4>1. PICK r \in SubRows : Locked(s, x, r)
        BY <3>7
      <4>2. \A a \in DOMAIN subs \ {s} : subs'[a] = subs[a]
        BY <4>1 DEF Locked, Saved
      <4>3. x.event # "received" /\ (x.event # "refunded" => ~subs[s].cancel)
        BY <4>1 DEF Locked
      <4>4. t = s => x.event \in {"refunded", "inactivated"}
        <5>1. x.event = "ended" => subs[s].cancel \/ t # s
          BY <1>2
        <5> QED
          BY <1>1, <4>3, <5>1 DEF Events
      <4>5. CASE t = s
        <5>1. Heard(s, "received", d)
          BY <3>1, <4>3, <4>5
        <5>2. d <= x.day
          BY <1>1, <1>3, <1>5, <4>5, <5>1 DEF Before, Events
        <5>3. x.event = "refunded" => Back(t, "refunded", d)'
          BY <1>1, <3>4, <4>5, <5>2 DEF Back, Heard
        <5>4. x.event = "inactivated" => Back(t, "inactivated", d)'
          BY <1>1, <3>4, <4>5, <5>2 DEF Back, Heard
        <5> QED
          BY <2>1, <4>4, <4>5, <5>3, <5>4
      <4>6. CASE t # s
        BY <1>0, <3>1, <3>4a, <3>5, <4>2, <4>6
      <4> QED
        BY <4>5, <4>6
    <3>8. CASE Ignored(s, x)
      <4>1. x.event # "received" /\ subs' = subs
        BY <3>8 DEF Ignored
      <4> QED
        BY <3>1, <3>4a, <3>5, <4>1
    <3> QED
      BY <1>0, <1>5, <3>6, <3>7, <3>8
  <2> QED
    BY <2>1 DEF Kept
<1> QED
  BY <1>0, <1>4, <1>5

LEMMA KeptStep ==
  ASSUME Typed, Typed', Linked, Dated, InOrder, Undisturbed, Kept, [Next]_vars
  PROVE  Kept'
<1>0. DOMAIN subs' \subseteq Nat /\ DOMAIN subs \subseteq Nat
  <2>1. subs \in Seq(SubRows)
    BY DEF Typed, TypeOK
  <2>2. subs' \in Seq(SubRows)
    BY DEF Typed, TypeOK
  <2>3. \A q \in Seq(SubRows) : DOMAIN q = 1 .. Len(q) /\ Len(q) \in Nat
    OBVIOUS
  <2>4. \A q \in Seq(SubRows) : DOMAIN q \subseteq Nat
    BY <2>3
  <2> QED
    BY <2>1, <2>2, <2>4
<1>1. CASE QuietSteps
  BY <1>0, <1>1, QuietStep, KeptQuiet DEF Quiet, StillOpen, history
<1>2. ASSUME NEW s \in DOMAIN subs, ProbeAnswer(s) PROVE Kept'
  <2>1. s \in probe /\ seen' = seen /\ crossed' = crossed /\ overtaken' = overtaken
    BY <1>2 DEF ProbeAnswer, history
  <2>2. \A t \in DOMAIN subs : t # s => subs'[t] = subs[t]
    BY <1>2, ProbeAnswerDoes DEF Saved
  <2>3. s \in crossed' \/ \A d \in Int : ~Heard(s, "received", d)
    BY <2>1 DEF Undisturbed
  <2> QED
    BY <1>0, <2>1, <2>2, <2>3, KeptQuiet
<1>3. ASSUME NEW m \in DOMAIN mail, CardWebhook(m) PROVE Kept'
  BY <1>3, KeptWebhook
<1> QED
  BY <1>1, <1>2, <1>3, Steps

\* a step that hears nothing and opens no card subscription
LEMMA CoveredQuiet ==
  ASSUME Typed, Covered, Quiet
  PROVE  Covered'
<1>0. \A s \in DOMAIN subs : subs[s].expires \in Int /\ now \in Int
  <2>1. \A s \in DOMAIN subs : subs[s] \in SubRows
    BY Elements DEF Typed
  <2> QED
    BY <2>1 DEF SubRows, Typed, TypeOK
<1>1. ASSUME NEW s \in DOMAIN subs' \ overtaken', subs'[s].mode = "card", subs'[s].status = "active"
      PROVE  /\ s \in DOMAIN subs \ overtaken /\ Card(s) /\ subs[s].status = "active"
             /\ subs'[s].expires = subs[s].expires /\ subs'[s].provisional = subs[s].provisional
  BY <1>1 DEF Quiet, StillOpen, Card, history
<1>2. ASSUME NEW s \in DOMAIN subs' \ overtaken', subs'[s].mode = "card", subs'[s].status = "active"
      PROVE  subs'[s].expires > NoDate
  BY <1>1, <1>2 DEF Covered
<1>3. ASSUME NEW s \in DOMAIN subs' \ overtaken', subs'[s].mode = "card", subs'[s].status = "active",
             subs'[s].expires >= now', ~subs'[s].provisional
      PROVE  \E d \in Int : Heard(s, "received", d)' /\ subs'[s].expires <= d + Term /\ ~Back(s, "refunded", d)'
  <2>1. /\ s \in DOMAIN subs \ overtaken /\ Card(s) /\ subs[s].status = "active"
        /\ subs'[s].expires = subs[s].expires /\ subs'[s].provisional = subs[s].provisional
    BY <1>1, <1>3
  <2>2. subs[s].expires >= now /\ ~subs[s].provisional
    BY <1>0, <1>3, <2>1 DEF Quiet
  <2>3. PICK d \in Int : Heard(s, "received", d) /\ subs[s].expires <= d + Term /\ ~Back(s, "refunded", d)
    BY <2>1, <2>2 DEF Covered
  <2>4. Heard(s, "received", d)' /\ ~Back(s, "refunded", d)'
    BY <2>3, SameHeard DEF Quiet
  <2> QED
    BY <2>1, <2>3, <2>4
<1> QED
  BY <1>2, <1>3 DEF Covered, Card

\* of the rows only one is changed
LEMMA CoveredSaved ==
  ASSUME Typed, Linked, Dated, Covered, UNCHANGED now, overtaken \subseteq overtaken',
         NEW s \in DOMAIN subs, NEW r, Saved(s, r), subs[s].known,
         \A t \in DOMAIN subs, e \in Events, d \in Int : t # s => (Heard(t, e, d)' <=> Heard(t, e, d)),
         s \notin overtaken' /\ r.status = "active" =>
           /\ r.expires > NoDate
           /\ r.expires >= now /\ ~r.provisional =>
                \E d \in Int : Heard(s, "received", d)' /\ r.expires <= d + Term /\ ~Back(s, "refunded", d)'
  PROVE  Covered'
<1>1. ASSUME NEW t \in DOMAIN subs, t # s PROVE subs'[t] = subs[t]
  BY <1>1 DEF Saved
<1>2. subs'[s] = r /\ DOMAIN subs' = DOMAIN subs
  BY DEF Saved
<1>3. ASSUME NEW t \in DOMAIN subs' \ overtaken', subs'[t].mode = "card", subs'[t].status = "active"
      PROVE  /\ subs'[t].expires > NoDate
             /\ subs'[t].expires >= now' /\ ~subs'[t].provisional =>
                  \E d \in Int : Heard(t, "received", d)' /\ subs'[t].expires <= d + Term /\ ~Back(t, "refunded", d)'
  <2>1. CASE t = s
    BY <1>2, <1>3, <2>1
  <2>2. CASE t # s
    <3>1. \A d \in Int : /\ Heard(t, "received", d)' <=> Heard(t, "received", d)
                         /\ Back(t, "refunded", d)' <=> Back(t, "refunded", d)
      BY <1>2, <2>2 DEF Back, Events
    <3>2. subs'[t] = subs[t] /\ Card(t) /\ subs[t].status = "active" /\ t \in DOMAIN subs \ overtaken
      BY <1>1, <1>2, <1>3, <2>2 DEF Card
    <3> QED
      BY <3>1, <3>2 DEF Covered
  <2> QED
    BY <2>1, <2>2
<1> QED
  BY <1>3 DEF Covered, Card

LEMMA CoveredWebhook ==
  ASSUME Typed, Linked, Dated, InOrder, Covered, NEW m \in DOMAIN mail, CardWebhook(m)
  PROVE  Covered'
<1> DEFINE x == mail[m]
           s == x.of
<1>0. /\ x \in Mails /\ s \in DOMAIN subs /\ UNCHANGED now
      /\ DOMAIN subs' = DOMAIN subs /\ overtaken \subseteq overtaken'
      /\ \/ UNCHANGED <<subs, recent, seen>>
         \/ /\ EventId(x) \notin seen /\ seen' = seen \cup {EventId(x)}
            /\ \/ \E r \in SubRows : Granted(s, x, r)
               \/ \E r \in SubRows : Locked(s, x, r)
               \/ Ignored(s, x)
  BY WebhookDoes, WebhookNotes
<1>1. x.day \in Int /\ x.event \in Events /\ Term \in Int /\ now \in Int /\ 0 <= now /\ 0 <= x.day /\ Term > 0
  BY <1>0, BillingAssumption DEF Typed, TypeOK, Mails, Events, Dated, DatedMail
<1>2. subs[s].known
  BY DEF Linked
<1>3. s \notin overtaken' /\ EventId(x) \notin seen => \A e \in Events, d \in Int : Heard(s, e, d) => Before(e, d, x)
  BY <1>0 DEF InOrder, Fresh
<1> HIDE DEF s, x
<1>4. CASE UNCHANGED <<subs, recent, seen>>
  BY <1>0, <1>4, SameHeard DEF Covered, Card
<1>5. CASE EventId(x) \notin seen /\ seen' = seen \cup {EventId(x)}
  <2>1. ASSUME NEW t \in DOMAIN subs, NEW e \in Events, NEW d \in Int, t # s \/ e # x.event
        PROVE  Heard(t, e, d)' <=> Heard(t, e, d)
    <3>1. Heard(t, e, d)' => Heard(t, e, d)
      BY <1>5, <2>1, HeardOne DEF s
    <3>2. Heard(t, e, d) => Heard(t, e, d)'
      BY <1>5 DEF Heard
    <3> QED
      BY <3>1, <3>2
  <2>2. ASSUME NEW r \in SubRows, Granted(s, x, r) PROVE Covered'
    <3>1. Saved(s, r) /\ r.expires = x.day + Term /\ x.event = "received"
      BY <2>2 DEF Granted, RowIs
    <3>2. <<s, "received", x.day>> \in seen'
      BY <1>5, <3>1 DEF EventId, s
    <3>3. ASSUME s \notin overtaken', NEW t, t = s, NEW day \in Int, day = x.day
          PROVE  \E d \in Int : Heard(t, "received", d)' /\ r.expires <= d + Term /\ ~Back(t, "refunded", d)'
      <4>1. Heard(t, "received", day)'
        BY <3>2, <3>3 DEF Heard
      <4>2. ASSUME NEW n \in Int, Heard(t, "refunded", n)', day <= n PROVE FALSE
        <5>1. Heard(s, "refunded", n) /\ "refunded" \in Events /\ "received" \in Events
          BY <1>0, <2>1, <3>1, <3>3, <4>2 DEF Events
        <5>2. n < x.day
          BY <1>3, <1>5, <3>1, <3>3, <5>1 DEF Before
        <5> QED
          BY <1>1, <3>3, <4>2, <5>2
      <4>3. ~Back(t, "refunded", day)'
        BY <4>2 DEF Back
      <4>4. r.expires <= day + Term
        BY <1>1, <3>1, <3>3
      <4> QED
        BY <4>1, <4>3, <4>4
    <3>4. r.expires > NoDate
      BY <1>1, <3>1 DEF NoDate
    <3> QED
      BY <1>0, <1>1, <1>2, <2>1, <3>1, <3>3, <3>4, CoveredSaved
  <2>3. ASSUME NEW r \in SubRows, Locked(s, x, r) PROVE Covered'
    <3>1. Saved(s, r) /\ r.expires = now - 1
      BY <2>3 DEF Locked, RowIs
    <3>2. r.expires > NoDate /\ ~(r.expires >= now)
      BY <1>1, <3>1 DEF NoDate
    <3> QED
      BY <1>0, <1>2, <2>1, <3>1, <3>2, CoveredSaved
  <2>4. CASE Ignored(s, x)
    <3>1. UNCHANGED <<subs, now>> /\ x.event \in {"ended", "inactivated"}
      BY <1>0, <2>4 DEF Ignored
    <3>2. ASSUME NEW t \in DOMAIN subs, NEW e \in {"received", "refunded"}, NEW d \in Int
          PROVE  Heard(t, e, d)' <=> Heard(t, e, d)
      BY <2>1, <3>1 DEF Events
    <3>3. ASSUME NEW t \in DOMAIN subs, NEW d \in Int, ~Back(t, "refunded", d) PROVE ~Back(t, "refunded", d)'
      BY <3>2, <3>3 DEF Back
    <3>4. ASSUME NEW t \in DOMAIN subs' \ overtaken', Card(t)', subs'[t].status = "active", subs'[t].expires >= now', ~subs'[t].provisional
          PROVE  \E d \in Int : Heard(t, "received", d)' /\ subs'[t].expires <= d + Term /\ ~Back(t, "refunded", d)'
      <4>1. t \in DOMAIN subs \ overtaken /\ Card(t) /\ subs[t].status = "active" /\ subs[t].expires >= now /\ ~subs[t].provisional
        BY <1>0, <3>1, <3>4 DEF Card
      <4>2. PICK d \in Int : Heard(t, "received", d) /\ subs[t].expires <= d + Term /\ ~Back(t, "refunded", d)
        BY <4>1 DEF Covered
      <4> QED
        BY <3>1, <3>2, <3>3, <4>1, <4>2
    <3> QED
      BY <1>0, <3>1, <3>4 DEF Covered, Card
  <2> QED
    BY <1>0, <1>5, <2>2, <2>3, <2>4
<1> QED
  BY <1>0, <1>4, <1>5

LEMMA CoveredStep ==
  ASSUME Typed, Linked, Dated, InOrder, Covered, [Next]_vars
  PROVE  Covered'
<1>1. CASE QuietSteps
  BY <1>1, QuietStep, CoveredQuiet
<1>2. ASSUME NEW s \in DOMAIN subs, ProbeAnswer(s) PROVE Covered'
  <2>0. now \in Int /\ now <= now /\ 0 <= now /\ now + 1 > NoDate
    BY DEF Typed, TypeOK, NoDate
  <2>1. s \in probe /\ seen' = seen /\ now' = now /\ UNCHANGED history
    BY <1>2 DEF ProbeAnswer
  <2>2. subs[s].known
    BY <2>1 DEF Linked
  <2>3. \/ UNCHANGED <<subs, recent>>
        \/ \E r \in SubRows :
             Saved(s, r) /\ RowIs(r, subs[s], "active", now + 1, subs[s].cancel, TRUE, subs[s].known)
    BY <1>2, ProbeAnswerDoes, Zenon
  <2>4. CASE UNCHANGED <<subs, recent>>
    BY <2>0, <2>1, <2>4, CoveredQuiet DEF Quiet, StillOpen
  <2>5. ASSUME NEW r \in SubRows, Saved(s, r),
               RowIs(r, subs[s], "active", now + 1, subs[s].cancel, TRUE, subs[s].known)
        PROVE  Covered'
    <3>1. r.expires = now + 1 /\ r.provisional
      BY <2>5 DEF RowIs
    <3> QED
      BY <2>0, <2>1, <2>2, <2>5, <3>1, SameHeard, CoveredSaved DEF history
  <2> QED
    BY <2>3, <2>4, <2>5
<1>3. ASSUME NEW m \in DOMAIN mail, CardWebhook(m) PROVE Covered'
  BY <1>3, CoveredWebhook
<1> QED
  BY <1>1, <1>2, <1>3, Steps

-----------------------------------------------------------------------------
(* The properties *)

LEMMA BillsInit == ASSUME Init PROVE Bills
<1>1. DOMAIN invoices = {}
  BY DEF Init
<1> QED
  BY <1>1 DEF Bills, OneTermOpen

LEMMA TodaysInit == ASSUME Init PROVE Todays
<1>1. \A c \in contracting : FALSE
  BY DEF Init
<1> QED
  BY <1>1, Zenon DEF Todays

LEMMA TrialsInit == ASSUME Init PROVE Trials
<1>1. CASE Trial
  <2> DEFINE r == [Row("card", "trial", <<"trial">>) EXCEPT !.status = "trialing", !.expires = Term]
  <2>1. subs = <<r>>
    BY <1>1 DEF Init
  <2>2. r.status = "trialing"
    BY DEF Row
  <2> HIDE DEF r
  <2> QED
    BY <2>1, <2>2 DEF Trials
<1>2. CASE ~Trial
  BY <1>2 DEF Init, Trials
<1> QED
  BY <1>1, <1>2

LEMMA InOrderInit == ASSUME Init PROVE InOrder
BY DEF Init, InOrder, Ordered, Heard

\* the inductive invariant
BillingInv ==
  /\ Typed /\ Linked /\ Bills /\ Todays /\ Trials /\ Dated
  /\ InOrder /\ Undisturbed /\ Kept /\ Covered

LEMMA BillingInduction == Spec => []BillingInv
<1>1. Init => BillingInv
  BY TypedInit, LinkedInit, BillsInit, TodaysInit, TrialsInit, DatedInit, InOrderInit, CoveredInit, UndisturbedInit,
     KeptInit DEF BillingInv
<1>2. BillingInv /\ [Next]_vars => BillingInv'
  <2> SUFFICES ASSUME BillingInv, [Next]_vars PROVE BillingInv'
    OBVIOUS
  <2>1. Typed'
    BY TypedStep DEF BillingInv
  <2>2. Linked' /\ Trials' /\ Dated'
    BY LinkedStep, TrialsStep, DatedStep DEF BillingInv
  <2>3. Bills' /\ Todays'
    BY <2>1, BillsStep DEF BillingInv
  <2>4. InOrder' /\ Covered' /\ Undisturbed'
    BY InOrderStep, CoveredStep, UndisturbedStep DEF BillingInv
  <2>5. Kept'
    BY <2>1, KeptStep DEF BillingInv
  <2> QED
    BY <2>1, <2>2, <2>3, <2>4, <2>5 DEF BillingInv
<1> QED
  BY <1>1, <1>2, PTL DEF Spec

\* Nobody is asked for two terms of a subscription at a time: contracts that
\* overlap, each of which has tested the row before the other added to it, open
\* invoices of the same day only, and neither the daily job nor a retry adds one
\* to those, whatever is interleaved.
THEOREM OneOpenInvoice == Spec => []OneTermOpen
<1>1. BillingInv => OneTermOpen
  BY DEF BillingInv, Bills
<1> QED
  BY <1>1, BillingInduction, PTL

\* the terms a subscription is paid for are those of its invoices or its charges
LEMMA TermsOf ==
  ASSUME BillingInv, NEW s \in DOMAIN subs \ (crossed \cup overtaken), NEW d \in Terms(s)
  PROVE  subs[s].expires >= d /\ subs[s].status = "active"
<1>0. now \in Int
  BY DEF BillingInv, Typed, TypeOK
<1>1. ASSUME NEW i \in DOMAIN invoices, invoices[i].sub = s, invoices[i].status = "paid", d = Paid(i)
      PROVE  subs[s].expires >= d /\ subs[s].status = "active"
  BY <1>1 DEF BillingInv, Bills
<1>2. ASSUME NEW n \in 0 .. now, <<s, "received", n>> \in seen, d = n + Term,
             ~\E e \in {"refunded", "inactivated"}, m \in n .. now : <<s, e, m>> \in seen
      PROVE  subs[s].expires >= d /\ subs[s].status = "active"
  <2>1. n \in Int /\ Heard(s, "received", n) /\ "received" \in Events /\ Typed /\ Linked /\ Dated
    BY <1>0, <1>2 DEF Heard, Events, BillingInv
  <2>2. ASSUME NEW e \in {"refunded", "inactivated"} PROVE ~Back(s, e, n)
    <3>1. ASSUME NEW m \in Int, Heard(s, e, m), n <= m PROVE FALSE
      <4>1. e \in Events
        BY DEF Events
      <4>2. m <= now
        BY <2>1, <3>1, <4>1, HeardOf DEF DatedEvent
      <4>3. m \in n .. now
        BY <1>0, <2>1, <3>1, <4>2
      <4> QED
        BY <1>2, <3>1, <4>3 DEF Heard
    <3> QED
      BY <3>1 DEF Back
  <2>3. subs[s].expires >= d
    BY <1>2, <2>1, <2>2 DEF BillingInv, Kept
  <2>4. subs[s].status = "active"
    BY <2>1, HeardOf DEF DatedEvent
  <2> QED
    BY <2>3, <2>4
<1> QED
  BY <1>1, <1>2 DEF Terms, Bought

LEMMA TermsInt ==
  ASSUME Typed, NEW s, NEW d \in Terms(s)
  PROVE  d \in Int
<1>1. ASSUME NEW i \in DOMAIN invoices PROVE Paid(i) \in Int
  <2>1. invoices[i] \in InvoiceRows
    BY Elements DEF Typed
  <2> QED
    BY <2>1, BillingAssumption DEF InvoiceRows, Paid
<1>2. now \in Int /\ Term \in Int
  BY BillingAssumption DEF Typed, TypeOK
<1>3. \A n \in 0 .. now : n + Term \in Int
  BY <1>2
<1>4. \/ \E i \in DOMAIN invoices : d = Paid(i)
      \/ \E n \in 0 .. now : d = n + Term
  BY DEF Terms, Bought
<1> QED
  BY <1>1, <1>3, <1>4

\* What has been paid for is never cut short, of a subscription none of whose
\* webhooks overtook another or came between the read and the write of a session,
\* whatever happens to the others.
THEOREM TermsKept == Spec => []PaidTermKept
<1>1. BillingInv => PaidTermKept
  BY TermsOf DEF PaidTermKept
<1> QED
  BY <1>1, BillingInduction, PTL

\* With the same exception the owner of the one subscription that was ever
\* activated is let in while a term that is paid for lasts: of the rows that are
\* live the trial was updated before.
THEOREM PaidHasAccess == Spec => []AccessWhilePaid
<1>1. ASSUME BillingInv, NEW s \in DOMAIN subs \ (crossed \cup overtaken), NEW d \in Terms(s), d >= now,
             \A t \in DOMAIN subs \ {s} : subs[t].status # "active"
      PROVE  Allowed
  <2>0. /\ subs # <<>> /\ now \in Int
        /\ \A t \in DOMAIN subs : subs[t].expires \in Int /\ recent[t] \in Int
    <3>1. \A t \in DOMAIN subs : subs[t] \in SubRows
      BY <1>1, Elements DEF BillingInv, Typed
    <3>2. recent \in Seq(DOMAIN subs) /\ DOMAIN recent = DOMAIN subs /\ DOMAIN subs \subseteq Int
      BY <1>1, Elements DEF BillingInv, Typed, TypeOK
    <3>3. subs # <<>> /\ now \in Int
      BY <1>1 DEF BillingInv, Typed, TypeOK
    <3> QED
      BY <3>1, <3>2, <3>3 DEF SubRows
  <2>1. subs[s].expires >= d /\ subs[s].status = "active"
    BY <1>1, TermsOf
  <2>2. /\ Current \in DOMAIN subs
        /\ \A t \in DOMAIN subs \ {Current} :
             \/ Rank(Current) < Rank(t)
             \/ Rank(Current) = Rank(t) /\ recent[t] < recent[Current]
    BY <1>1, <2>0, Governs DEF BillingInv
  <2> DEFINE c == Current
  <2> HIDE DEF c
  <2>3. \A t \in DOMAIN subs : Rank(t) \in Int /\ Rank(t) >= 0 /\ (Rank(t) = 0 => subs[t].status \in Live)
    BY DEF Rank
  <2>4. Rank(s) = 0
    BY <2>1 DEF Rank, Live
  <2>5. c = s
    <3>1. CASE c # s
      <4>1. Rank(c) < 0 \/ (Rank(c) = 0 /\ recent[s] < recent[c])
        BY <2>2, <2>4, <3>1 DEF c
      <4>2. Rank(c) = 0 /\ recent[s] < recent[c] /\ c \in DOMAIN subs
        BY <2>2, <2>3, <4>1 DEF c
      <4>3. subs[c].status = "trialing"
        BY <1>1, <2>3, <3>1, <4>2 DEF Live
      <4>4. recent[c] < recent[s]
        BY <1>1, <2>1, <4>2, <4>3 DEF BillingInv, Trials
      <4> QED
        BY <2>0, <4>2, <4>4
    <3> QED
      BY <3>1
  <2>6. Effective(s) = "active"
    <3>1. now <= subs[s].expires
      <4>1. d \in Int
        BY <1>1, TermsInt DEF BillingInv
      <4> QED
        BY <1>1, <2>0, <2>1, <4>1
    <3> QED
      BY <2>0, <2>1, <3>1 DEF Effective
  <2> QED
    BY <2>0, <2>5, <2>6 DEF Allowed, Live, c
<1>2. BillingInv => AccessWhilePaid
  BY <1>1 DEF AccessWhilePaid
<1> QED
  BY <1>2, BillingInduction, PTL

\* No card subscription none of whose webhooks overtook another is open without a
\* term that was charged and not refunded, or the 24 hours of grace for its first
\* charge, whatever falls between the read and the write of a session.
THEOREM NothingFree == Spec => []NoFreeAccess
<1>1. ASSUME BillingInv, NEW s \in DOMAIN subs \ overtaken, subs[s].mode = "card", Effective(s) = "active", ~subs[s].provisional
      PROVE  \E d \in Bought(s, {"refunded"}) : d >= now
  <2>0. now \in Int /\ subs[s].expires \in Int /\ Term \in Int
    <3>1. subs[s] \in SubRows /\ now \in Int
      BY <1>1, Elements DEF BillingInv, Typed, TypeOK
    <3> QED
      BY <3>1, BillingAssumption DEF SubRows
  <2>1. subs[s].status = "active" /\ (subs[s].expires = NoDate \/ now <= subs[s].expires)
    BY <1>1, <2>0 DEF Effective
  <2>2. PICK d \in Int : Heard(s, "received", d) /\ subs[s].expires <= d + Term /\ ~Back(s, "refunded", d)
    BY <1>1, <2>0, <2>1 DEF BillingInv, Covered, Card, NoDate
  <2>3. d \in 0 .. now
    BY <1>1, <2>0, <2>2, HeardOf DEF DatedEvent, Events, BillingInv
  <2>4. ~\E m \in d .. now : <<s, "refunded", m>> \in seen
    BY <2>0, <2>2 DEF Back, Heard
  <2>5. d + Term \in Bought(s, {"refunded"})
    BY <2>2, <2>3, <2>4 DEF Bought, Heard
  <2> QED
    BY <2>0, <2>1, <2>2, <2>5, <1>1 DEF BillingInv, Covered, Card, NoDate
<1>2. BillingInv => NoFreeAccess
  BY <1>1 DEF NoFreeAccess
<1> QED
  BY <1>2, BillingInduction, PTL

================================================================================
