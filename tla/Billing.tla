------------------------------- MODULE Billing -------------------------------
(***************************************************************************)
(* What one owner pays for the plan: subscriptions paid by invoice and     *)
(* subscriptions charged to a card, the jobs that make, reconcile and      *)
(* grant them, the webhooks of the Billing Core, and the access that plan  *)
(* checks grant from the rows.  The clock counts days; a day is the unit   *)
(* the code compares.  Rows are numbered in the order of their creation.   *)
(* Definitions named after a slip (Open_Known) are broken variants         *)
(* no specification uses.                                                  *)
(***************************************************************************)
EXTENDS Integers, Sequences, FiniteSets

CONSTANTS
  Products,     \* plans and cycles one can buy
  Keys,         \* idempotency keys, one for each time the dialog is opened
  Modes,        \* ways to pay that the owner uses, of "invoice" and "card"
  Trial,        \* TRUE: the owner starts with a trial subscription
  Term, Lead, Grace, \* PERIOD_DAYS, INVOICE_LEAD_DAYS and GRACE_DAYS
  BatchLimit,   \* invoices a reconciliation asks about, 50 in the code
  EarlyRefund,  \* TRUE: a payment may be refunded before its webhook is applied
  MaxSubs, MaxInvoices, MaxDay \* bounds

ASSUME BillingAssumption ==
  /\ Modes \subseteq {"invoice", "card"}
  /\ {Trial, EarlyRefund} \subseteq BOOLEAN
  /\ Term \in Nat \ {0} /\ Lead \in Nat /\ Grace \in Nat /\ Lead < Term
  /\ BatchLimit \in Nat /\ MaxSubs \in Nat /\ MaxInvoices \in Nat
  /\ MaxDay \in Nat

VARIABLES
  now,      \* the day
  subs,     \* rows of billing_subscriptions, and
  recent,   \* the place of each among them in the order of the last update
  invoices, \* rows of billing_invoices
  seen,     \* ids of the events in billing_events
  payment,  \* at the Billing Core: the payment of each invoice
  card,     \* at the Billing Core: the card subscription of each subscription
  mail,     \* card webhooks sent and not dropped yet, oldest first
  probe,    \* the pending card subscriptions read, to ask the gateway about
  ending,   \* the card subscription a cancellation is asking the gateway to end
  contracting, \* the contracts that have tested their row and not added to it yet
  ran,      \* the last day on which the job that makes invoices has run
  crossed,  \* for the properties: subscriptions of which a webhook came between
            \* the read and the write of a session, and no charge since, and
  overtaken \* those of which one came before an older one

rows == <<subs, recent, invoices, seen>>
core == <<payment, card, mail>>
history == <<crossed, overtaken>>
vars == <<now, rows, core, probe, ending, contracting, ran, history>>

NoDate == -2 \* locking on day 0 writes -1
Live == {"active", "trialing"}

\* the fields of the rows and of what the Core knows, and a webhook of its own
RowKeys ==
  ({"client"} \X Keys) \cup ({"fixed"} \X Products) \cup ({"closed", "retry"} \X Nat) \cup {<<"trial">>}
SubRows ==
  [mode : {"invoice", "card"}, product : Products \cup {"trial"}, key : RowKeys,
   status : {"pending", "trialing", "active", "canceled"}, expires : Int,
   cancel : BOOLEAN, provisional : BOOLEAN, known : BOOLEAN]
InvoiceKeys == ({"client"} \X Keys) \cup ({"retry"} \X Nat) \cup ({"next"} \X Nat \X Int)
InvoiceRows ==
  [sub : Nat, start : Int, key : InvoiceKeys, status : {"pending", "paid", "canceled"},
   paid : Int, known : BOOLEAN]
Payments == {"none", "open", "paid", "refunded"}
Cards == [state : {"none", "active", "ended"}, charged : Int, refunded : BOOLEAN]
Mails == [of : Nat, event : {"received", "refunded", "inactivated", "ended"}, day : Int]

NewCard == [state |-> "none", charged |-> NoDate, refunded |-> FALSE]
Row(mode, product, key) ==
  [mode |-> mode, product |-> product, key |-> key, status |-> "pending",
   expires |-> NoDate, cancel |-> FALSE, provisional |-> FALSE, known |-> FALSE]

\* a trial lasts as long as a term here
Init ==
  /\ now = 0 /\ ran = NoDate
  /\ subs = IF Trial
            THEN <<[Row("card", "trial", <<"trial">>) EXCEPT !.status = "trialing", !.expires = Term]>>
            ELSE <<>>
  /\ recent = [s \in DOMAIN subs |-> s]
  /\ card = [s \in DOMAIN subs |-> NewCard]
  /\ invoices = <<>> /\ payment = <<>> /\ mail = <<>> /\ seen = {}
  /\ probe = {} /\ ending = 0 /\ contracting = {}
  /\ crossed = {} /\ overtaken = {}

-----------------------------------------------------------------------------
(* Rows *)

\* a row that is written, one at most, becomes the one updated last
Latest(S) ==
  [t \in DOMAIN recent |->
     IF t \in S THEN Len(recent)
     ELSE IF \E s \in S : recent[s] < recent[t] THEN recent[t] - 1 ELSE recent[t]]
Touch(s) == recent' = Latest({s})
\* a slip: an invoice with no checkout yet is overlooked
Open_Known(s) ==
  \E i \in DOMAIN invoices : invoices[i].sub = s /\ invoices[i].status = "pending" /\ invoices[i].known
Open(s) == \E i \in DOMAIN invoices : invoices[i].sub = s /\ invoices[i].status = "pending"
Keyed(key) == {s \in DOMAIN subs : subs[s].key = key}
Invoiced(key) == \E i \in DOMAIN invoices : invoices[i].key = key

Invoice(s, start, key) ==
  [sub |-> s, start |-> start, key |-> key, status |-> "pending", paid |-> NoDate, known |-> FALSE]
AddInvoices(new) ==
  /\ Len(invoices) + Len(new) <= MaxInvoices
  /\ invoices' = invoices \o new
  /\ payment' = payment \o [n \in DOMAIN new |-> "none"]
\* the rows there are, changed or not, and a new one
AddSub(rest, row) ==
  /\ Len(subs) < MaxSubs
  /\ subs' = Append(rest, row)
  /\ recent' = Append(Latest({s \in DOMAIN subs : rest[s] # subs[s]}), Len(subs) + 1)
  /\ card' = Append(card, NewCard)

Paid(i) == LET v == invoices[i] IN (IF v.paid > v.start THEN v.paid ELSE v.start) + Term

-----------------------------------------------------------------------------
(* Access: the row that governs, and what it grants today *)

Rank(s) ==
  LET r == subs[s]
  IN  CASE r.status \in Live -> 0
        [] r.status \notin Live /\ r.cancel /\ r.expires >= now -> 1
        [] OTHER -> IF r.status = "pending" THEN 3 ELSE 4

Current ==
  CHOOSE s \in DOMAIN subs :
    \A t \in DOMAIN subs \ {s} :
      \/ Rank(s) < Rank(t)
      \/ Rank(s) = Rank(t) /\ recent[t] < recent[s]

Effective(s) ==
  LET r == subs[s]
  IN  CASE r.expires = NoDate \/ now <= r.expires -> r.status
        [] r.expires # NoDate /\ now > r.expires /\ ~r.cancel /\ now <= r.expires + Grace -> "past_due"
        [] OTHER -> "expired"
Allowed == subs # <<>> /\ Effective(Current) \in Live

-----------------------------------------------------------------------------
(* Subscriptions paid by invoice *)

\* the key of the subscription is fixed by what is bought, that of the invoice
\* is the client's; a row that is closed gives the fixed key up to a new one
NewContract(p, k) ==
  LET fixed == <<"fixed", p>>
  IN  /\ AddSub([s \in DOMAIN subs |->
                   IF s \in Keyed(fixed) THEN [subs[s] EXCEPT !.key = <<"closed", s>>] ELSE subs[s]],
                Row("invoice", p, fixed))
      /\ AddInvoices(<<Invoice(Len(subs) + 1, now, <<"client", k>>)>>)

MayContract(p, k) ==
  /\ "invoice" \in Modes
  /\ ~Invoiced(<<"client", k>>)
  /\ ~\E s \in DOMAIN subs : subs[s].product = p /\ subs[s].status \in Live

\* the unique key lets one of several first contracts in, the others wait for it
Contract(p, k) ==
  /\ MayContract(p, k) /\ Keyed(<<"fixed", p>>) = {}
  /\ NewContract(p, k)
  /\ UNCHANGED <<now, seen, mail, probe, ending, contracting, ran, history>>

\* a row there is was read, with the invoices open: nothing is locked
ContractTest(p, k) ==
  /\ MayContract(p, k)
  /\ \E s \in Keyed(<<"fixed", p>>) :
       /\ subs[s].status = "pending" => ~Open(s)
       /\ contracting' = contracting \cup
            {[product |-> p, key |-> k, sub |-> s, closed |-> subs[s].status # "pending"]}
  /\ UNCHANGED <<now, rows, core, probe, ending, ran, history>>

\* the invoice is added to the row that was read, or to a new one if it was closed;
\* that another contract may have made meanwhile, and is not tested
ContractInsert(c) ==
  /\ c \in contracting /\ contracting' = contracting \ {c}
  /\ LET holders == Keyed(<<"fixed", c.product>>)
         key == <<"client", c.key>>
     IN  \/ Invoiced(key) /\ UNCHANGED <<subs, recent, card, invoices, payment>>
         \/ ~Invoiced(key) /\ c.closed /\ c.sub \in holders /\ NewContract(c.product, c.key)
         \/ /\ ~Invoiced(key)
            /\ \E s \in IF c.closed THEN holders \ {c.sub} ELSE {c.sub} :
                 AddInvoices(<<Invoice(s, now, key)>>)
            /\ UNCHANGED <<subs, recent, card>>
  /\ UNCHANGED <<now, seen, mail, probe, ending, ran, history>>

\* a canceled invoice is replaced by another subscription with its own invoice
Retry(i) ==
  LET s == invoices[i].sub
      key == <<"retry", i>>
  IN  /\ invoices[i].status = "canceled" /\ Keyed(key) = {}
      /\ subs[s].status \notin Live /\ ~Open(s)
      /\ AddSub([subs EXCEPT ![s].status = "canceled"], Row("invoice", subs[s].product, key))
      /\ AddInvoices(<<Invoice(Len(subs) + 1, now, key)>>)
      /\ UNCHANGED <<now, seen, mail, probe, ending, contracting, ran, history>>

\* the checkout is made when it is asked for, again when it has run out; its job
\* may not have finished when the answer is given
Checkout(i) ==
  /\ invoices[i].status = "pending" /\ payment[i] \in {"none", "open"}
  /\ payment' = [payment EXCEPT ![i] = "open"]
  /\ invoices' \in {invoices, [invoices EXCEPT ![i].known = TRUE]}
  /\ UNCHANGED <<now, subs, recent, seen, card, mail, probe, ending, contracting, ran, history>>

\* a slip: a term paid for early begins on the day of its payment
Activate_FromToday(i) ==
  LET s == invoices[i].sub
  IN  IF invoices[i].status = "pending"
      THEN /\ invoices' = [invoices EXCEPT ![i].status = "paid", ![i].paid = now, ![i].known = TRUE]
           /\ subs' = [subs EXCEPT ![s].status = "active", ![s].expires = now + Term]
           /\ Touch(s)
      ELSE UNCHANGED <<invoices, subs, recent>>

Activate(i) ==
  LET s == invoices[i].sub
  IN  IF invoices[i].status = "pending"
      THEN /\ invoices' = [invoices EXCEPT ![i].status = "paid", ![i].paid = now, ![i].known = TRUE]
           /\ subs' = [subs EXCEPT ![s].status = "active",
                                   ![s].expires = (IF now > invoices[i].start
                                                   THEN now ELSE invoices[i].start) + Term]
           /\ Touch(s)
      ELSE UNCHANGED <<invoices, subs, recent>>

MarkFailed(i) ==
  /\ invoices' = [invoices EXCEPT ![i].status = "canceled"]
  /\ UNCHANGED <<subs, recent>>

\* a payment that the Core reports settles the invoice, whoever asks
Settle(i, outcome) == IF outcome = "paid" THEN Activate(i) ELSE MarkFailed(i)

\* a slip: an overdue invoice is not asked about any more
Batch_NotOverdue ==
  {i \in DOMAIN invoices : invoices[i].status = "pending" /\ invoices[i].known /\ invoices[i].start >= now}

\* the query has no order: rows come in that of their creation
Batch ==
  LET waiting == {i \in DOMAIN invoices : invoices[i].status = "pending" /\ invoices[i].known}
  IN  {i \in waiting : Cardinality({j \in waiting : j < i}) < BatchLimit}
Reconcile(i) ==
  /\ i \in Batch /\ payment[i] \in {"paid", "refunded"}
  /\ Settle(i, payment[i])
  /\ UNCHANGED <<now, seen, core, probe, ending, contracting, ran, history>>

\* the daily job: one key that is taken rolls the session back, and with it
\* the invoices of the others
Due ==
  {s \in DOMAIN subs :
     /\ subs[s].mode = "invoice" /\ subs[s].status = "active" /\ ~subs[s].cancel
     /\ subs[s].expires <= now + Lead}
NextKey(s) == <<"next", s, subs[s].expires>>
NextInvoices(S) ==
  [n \in 1 .. Cardinality(S) |->
     LET s == CHOOSE t \in S : Cardinality({u \in S : u < t}) = n - 1
     IN  Invoice(s, subs[s].expires, NextKey(s))]
GenerateDue ==
  LET S == {s \in Due : ~Open(s)}
  IN  /\ ran < now /\ ran' = now
      /\ IF \E s \in S : Invoiced(NextKey(s))
         THEN UNCHANGED <<invoices, payment>>
         ELSE AddInvoices(NextInvoices(S))
      /\ UNCHANGED <<now, subs, recent, seen, card, mail, probe, ending, contracting, history>>

-----------------------------------------------------------------------------
(* Subscriptions charged to a card *)

ContractCard(p, k) ==
  /\ "card" \in Modes /\ Keyed(<<"client", k>>) = {}
  /\ AddSub(subs, Row("card", p, <<"client", k>>))
  /\ UNCHANGED <<now, invoices, seen, payment, mail, probe, ending, contracting, ran, history>>

\* the job of the gateway is done: its subscription is known, its link shown
CardCheckout(s) ==
  /\ subs[s].mode = "card" /\ subs[s].status # "trialing" /\ ~subs[s].known
  /\ subs' = [subs EXCEPT ![s].known = TRUE]
  /\ Touch(s)
  /\ UNCHANGED <<now, invoices, seen, core, probe, ending, contracting, ran, history>>

\* a slip: subscriptions that are active are asked about too
Probe_Active ==
  LET pending == {s \in DOMAIN subs : subs[s].status \in {"pending", "active"} /\ subs[s].mode = "card" /\ subs[s].known}
  IN  /\ probe = {} /\ pending # {}
      /\ probe' \in {pending} \cup {{s} : s \in pending}
      /\ UNCHANGED <<now, rows, core, ending, contracting, ran, history>>

\* 24 hours of access for a card that is authorized: the rows are read, the
\* gateway is asked about each, the answer is written over the row
Probe ==
  LET pending == {s \in DOMAIN subs : subs[s].status = "pending" /\ subs[s].mode = "card" /\ subs[s].known}
  IN  /\ probe = {} /\ pending # {}
      /\ probe' \in {pending} \cup {{s} : s \in pending}
      /\ UNCHANGED <<now, rows, core, ending, contracting, ran, history>>
ProbeAnswer(s) ==
  /\ s \in probe /\ probe' = probe \ {s}
  /\ IF card[s].state = "active"
     THEN /\ subs' = [subs EXCEPT ![s].status = "active", ![s].provisional = TRUE, ![s].expires = now + 1]
          /\ Touch(s)
     ELSE UNCHANGED <<subs, recent>>
  /\ UNCHANGED <<now, invoices, seen, core, ending, contracting, ran, history>>

\* a slip: the date stays
Lock_FlagOnly(s) == [subs EXCEPT ![s].cancel = TRUE]

Lock(s) == [subs EXCEPT ![s].cancel = TRUE, ![s].expires = now - 1]
EventId(m) == <<m.of, m.event, m.day>>
Apply(m) ==
  LET s == m.of
      same == UNCHANGED <<subs, recent>>
  IN  IF EventId(m) \in seen THEN same /\ UNCHANGED seen
      ELSE /\ seen' = seen \cup {EventId(m)}
           /\ CASE m.event = "received" ->
                     /\ subs' = [subs EXCEPT ![s].status = "active", ![s].provisional = FALSE,
                                             ![s].expires = m.day + Term]
                     /\ Touch(s)
                [] m.event = "refunded" -> subs' = Lock(s) /\ Touch(s)
                [] OTHER -> IF subs[s].cancel THEN same ELSE subs' = Lock(s) /\ Touch(s)

-----------------------------------------------------------------------------
(* Cancellation by the owner: the gateway is told before the row is saved *)

Cancelable(s) == subs[s].status # "canceled" /\ ~subs[s].cancel
Cancel ==
  /\ subs # <<>> /\ Cancelable(Current) /\ ending = 0
  /\ IF subs[Current].mode = "card" /\ subs[Current].known
     THEN /\ ending' = Current
          /\ card' = [card EXCEPT ![Current].state = "ended"]
          /\ mail' = IF card[Current].state = "active"
                     THEN Append(mail, [of |-> Current, event |-> "ended", day |-> now])
                     ELSE mail
          /\ UNCHANGED <<subs, recent>>
     ELSE /\ subs' = [subs EXCEPT ![Current].cancel = TRUE] /\ Touch(Current)
          /\ UNCHANGED <<ending, card, mail>>
  /\ UNCHANGED <<now, invoices, seen, payment, probe, contracting, ran, history>>
CancelSave ==
  /\ ending # 0 /\ ending' = 0
  /\ subs' = [subs EXCEPT ![ending].cancel = TRUE] /\ Touch(ending)
  /\ UNCHANGED <<now, invoices, seen, core, probe, contracting, ran, history>>

-----------------------------------------------------------------------------
(* The Billing Core and its webhooks *)

Send(s, event, day) == mail' = Append(mail, [of |-> s, event |-> event, day |-> day])
Core(changed) == changed /\ UNCHANGED <<now, rows, probe, ending, contracting, ran, history>>

Pay(i) ==
  /\ payment[i] = "open" /\ invoices[i].known
  /\ Core(payment' = [payment EXCEPT ![i] = "paid"] /\ UNCHANGED <<card, mail>>)
Refund(i) ==
  /\ payment[i] = "paid" /\ (EarlyRefund \/ invoices[i].status # "pending")
  /\ Core(payment' = [payment EXCEPT ![i] = "refunded"] /\ UNCHANGED <<card, mail>>)

Authorize(s) ==
  /\ subs[s].known /\ card[s].state = "none"
  /\ Core(card' = [card EXCEPT ![s].state = "active"] /\ UNCHANGED <<payment, mail>>)
Charge(s) ==
  /\ card[s].state = "active" /\ (card[s].charged = NoDate \/ now >= card[s].charged + Term)
  /\ Core(/\ card' = [card EXCEPT ![s].charged = now, ![s].refunded = FALSE]
          /\ Send(s, "received", now) /\ UNCHANGED payment)
Chargeback(s) ==
  /\ card[s].charged # NoDate /\ ~card[s].refunded
  /\ Core(/\ card' = [card EXCEPT ![s].refunded = TRUE]
          /\ Send(s, "refunded", card[s].charged) /\ UNCHANGED payment)
Inactivate(s) ==
  /\ card[s].state = "active"
  /\ Core(/\ card' = [card EXCEPT ![s].state = "ended"]
          /\ Send(s, "inactivated", now) /\ UNCHANGED payment)

\* a webhook about an invoice comes never, once or many times, in any order
InvoiceWebhook(i) ==
  /\ payment[i] \in {"paid", "refunded"}
  /\ \E outcome \in {"paid", payment[i]} : Settle(i, outcome)
  /\ UNCHANGED <<now, seen, core, probe, ending, contracting, ran, history>>

\* one about a card is sent again when its answer is lost, and may come before
\* an older one
Without(m) == [n \in 1 .. Len(mail) - 1 |-> mail[IF n < m THEN n ELSE n + 1]]
Fresh(m) == EventId(mail[m]) \notin seen
CardWebhook(m) ==
  LET s == mail[m].of
  IN  /\ mail' \in {mail, Without(m)}
      /\ Apply(mail[m])
      /\ crossed' = IF s \in probe \cup {ending} THEN crossed \cup {s}
                    ELSE IF Fresh(m) /\ mail[m].event = "received" THEN crossed \ {s}
                    ELSE crossed
      /\ overtaken' = IF \E n \in 1 .. m - 1 : mail[n].of = s /\ Fresh(n)
                      THEN overtaken \cup {s} ELSE overtaken
      /\ UNCHANGED <<now, invoices, payment, card, probe, ending, contracting, ran>>
Lose(m) == Core(mail' = Without(m) /\ UNCHANGED <<payment, card>>)

\* a contract is over on the day it began
Tick ==
  /\ now < MaxDay /\ contracting = {} /\ now' = now + 1
  /\ UNCHANGED <<rows, core, probe, ending, contracting, ran, history>>

-----------------------------------------------------------------------------
Next ==
  \/ \E p \in Products, k \in Keys : Contract(p, k) \/ ContractTest(p, k) \/ ContractCard(p, k)
  \/ \E c \in contracting : ContractInsert(c)
  \/ \E i \in DOMAIN invoices :
       \/ Retry(i) \/ Checkout(i) \/ Reconcile(i) \/ InvoiceWebhook(i)
       \/ Pay(i) \/ Refund(i)
  \/ \E s \in DOMAIN subs : CardCheckout(s) \/ ProbeAnswer(s) \/ Authorize(s) \/ Charge(s) \/ Chargeback(s) \/ Inactivate(s)
  \/ GenerateDue \/ Probe \/ Cancel \/ CancelSave
  \/ \E m \in DOMAIN mail : CardWebhook(m) \/ Lose(m)
  \/ Tick

Spec == Init /\ [][Next]_vars
\* the reconciliation is a periodic job
FairSpec == Spec /\ WF_vars(\E i \in DOMAIN invoices : Reconcile(i))

-----------------------------------------------------------------------------
(* Properties *)

\* Every row has its type, each invoice belongs to a row there is, and each row
\* has a place of its own in the order of the last update.
TypeOK ==
  /\ now \in Nat /\ ran \in Int
  /\ subs \in Seq(SubRows) /\ invoices \in Seq(InvoiceRows) /\ mail \in Seq(Mails)
  /\ recent \in Seq(DOMAIN subs) /\ Len(recent) = Len(subs)
  /\ card \in Seq(Cards) /\ Len(card) = Len(subs)
  /\ payment \in Seq(Payments) /\ Len(payment) = Len(invoices)
  /\ seen \subseteq Nat \X {"received", "refunded", "inactivated", "ended"} \X Int
  /\ \A i \in DOMAIN invoices : invoices[i].sub \in DOMAIN subs
  /\ \A m \in DOMAIN mail : mail[m].of \in DOMAIN subs
  /\ probe \subseteq DOMAIN subs /\ ending \in DOMAIN subs \cup {0}
  /\ contracting \subseteq [product : Products, key : Keys, sub : DOMAIN subs, closed : BOOLEAN]
  /\ crossed \subseteq DOMAIN subs /\ overtaken \subseteq DOMAIN subs
  /\ \A s, t \in DOMAIN subs : recent[s] = recent[t] => s = t

\* Nobody is asked to pay for two terms of a subscription at a time, nor by the
\* daily job or a retry for one that he is asked for already: where two invoices
\* are open, contracts that overlapped have opened them on the same day.
OneTermOpen ==
  \A i, j \in DOMAIN invoices :
    /\ i # j /\ invoices[i].sub = invoices[j].sub
    /\ invoices[i].status = "pending" /\ invoices[j].status = "pending"
    => /\ invoices[i].start = invoices[j].start
       /\ {invoices[i].key, invoices[j].key} \subseteq {"client"} \X Keys

\* Until when the payments applied to a subscription have paid for it: of an
\* invoice that is paid, of a charge with no refund nor end by the gateway since.
Bought(s, ends) ==
  {Paid(i) : i \in {j \in DOMAIN invoices : invoices[j].sub = s /\ invoices[j].status = "paid"}}
    \cup {d + Term : d \in {n \in 0 .. now : /\ <<s, "received", n>> \in seen
                                       /\ ~\E e \in ends, m \in n .. now : <<s, e, m>> \in seen}}
Terms(s) == Bought(s, {"refunded", "inactivated"})

\* What has been paid for is never cut short: contracts and webhooks that overlap
\* or come twice, payments that come late, a grant of 24 hours and a cancellation
\* leave a subscription open to the end of the last term paid for, unless one of
\* its own webhooks overtook another or came in the midst of a session.
PaidTermKept ==
  \A s \in DOMAIN subs \ (crossed \cup overtaken) : \A d \in Terms(s) : subs[s].expires >= d

\* An owner who has paid for today is let in, whatever other subscriptions there
\* are that never became active: abandoned checkouts, a trial that is canceled or
\* over, contracts given up and tried again; with the same exception.
AccessWhilePaid ==
  \A s \in DOMAIN subs \ (crossed \cup overtaken) :
    /\ \E d \in Terms(s) : d >= now
    /\ \A t \in DOMAIN subs \ {s} : subs[t].status # "active"
    => Allowed

\* The same whichever other subscriptions are active.  It fails: of two that were
\* activated the one updated last governs, also when its term is over.
AnyTermGivesAccess ==
  \A s \in DOMAIN subs : (\E d \in Terms(s) : d >= now) => Allowed

\* A card subscription none of whose webhooks overtook another is open only for a
\* term that is paid for and not refunded, or for the 24 hours granted while its
\* first charge is on its way, also when one came in the midst of a session.
NoFreeAccess ==
  \A s \in DOMAIN subs \ overtaken :
    subs[s].mode = "card" /\ subs[s].product # "trial" /\ Effective(s) = "active"
      => \/ \E d \in Bought(s, {"refunded"}) : d >= now
         \/ subs[s].provisional

\* The day's run of the job leaves an invoice to pay to every subscription that
\* is to be renewed.
DueGetsInvoice == [][ran' # ran => \A s \in Due : Open(s)']_vars

\* A payment made at the Billing Core activates its subscription even when every
\* webhook is lost, unless it is refunded first: none waits for ever, so there
\* is always a time again at which none waits.
PaidIsActivated ==
  []<>(\A i \in DOMAIN invoices : payment[i] = "paid" => invoices[i].status = "paid")
=============================================================================
