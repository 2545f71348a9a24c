----------------------------- MODULE PixPayment -----------------------------
(***************************************************************************)
(* Dynamic Pix QR codes: create_qr, verify and cancel of the payment       *)
(* service, the webhook processor and the two jobs that verify what is     *)
(* left over.  The provider owns the charge; what the provider answers     *)
(* when it is asked decides, never what a webhook says.  A session that    *)
(* has loaded a row keeps its copy: SELECT ... FOR UPDATE locks the row    *)
(* but does not refresh an instance loaded before.  Every create_qr makes  *)
(* a new sale, a new attempt and a new charge, all named by the attempt.   *)
(* Definitions named after a slip (NewStatus_AnyAmount) are broken variants *)
(* no specification uses.                                                  *)
(***************************************************************************)
EXTENDS Integers, FiniteSets, Sequences

CONSTANTS
  Attempts, Workers, \* attempts, and requests served at a time
  Jobs,         \* the periodic jobs that run: "reconcile", "expire"
  Nobody,
  Disconnected, \* attempts whose market lost its connection once the QR was out
  CancelFrom,   \* statuses of the sales an operator cancels
  Overlap,      \* TRUE: cancel_sale may fall between the steps of a verification
  BatchLimit,   \* attempts a job lists, 50 in the code
  MaxRequests, MaxFailures \* bounds: requests made; calls that fail, processes that die

ASSUME PixAssumption ==
  /\ Jobs \subseteq {"reconcile", "expire"} /\ Workers \cap Jobs = {}
  /\ Nobody \notin Workers \cup Jobs /\ Disconnected \subseteq Attempts
  /\ CancelFrom \subseteq {"aguardando_pagamento", "concluida"} /\ Overlap \in BOOLEAN
  /\ BatchLimit \in Nat /\ MaxRequests \in Nat /\ MaxFailures \in Nat

VARIABLES
  charge,   \* at the provider; "processed" for the amount asked, "other" for another
  shown,    \* charges whose QR code has reached the till
  attempt,  \* status of the row of each attempt, "none" while there is no row
  created,  \* the attempts that have a row, oldest first
  sale, taken, payments, \* the sale of each attempt, its goods out, its payment rows
  event,    \* the row of the webhook event of each charge's outcome
  lock,     \* who holds the row lock of each attempt
  proc,     \* what each request and each job is at
  queue,    \* what each job has listed and not verified yet
  requests, failures

rows == <<attempt, created, sale, taken, payments>>
provider == <<charge, shown>>
bounds == <<requests, failures>>
vars == <<provider, rows, event, lock, proc, queue, bounds>>

Procs == Workers \cup Jobs
Idle == [step |-> "idle"]
Final == {"processed", "other", "canceled", "expired"}

Init ==
  /\ charge = [a \in Attempts |-> "none"] /\ shown = {}
  /\ attempt = [a \in Attempts |-> "none"] /\ created = <<>>
  /\ sale = [a \in Attempts |-> "none"]
  /\ taken = [a \in Attempts |-> 0] /\ payments = [a \in Attempts |-> 0]
  /\ event = [a \in Attempts |-> "none"]
  /\ lock = [a \in Attempts |-> Nobody]
  /\ proc = [w \in Procs |-> Idle] /\ queue = [j \in Jobs |-> {}]
  /\ requests = 0 /\ failures = 0

At(w, step) == proc[w].step = step
Move(w, step) == proc' = [proc EXCEPT ![w].step = step]
Release(w) == lock' = [a \in Attempts |-> IF lock[a] = w THEN Nobody ELSE lock[a]]
Begin(w, a, op, copy) ==
  proc' = [proc EXCEPT ![w] = [step |-> "lock", a |-> a, op |-> op, copy |-> copy]]

Older(a, b) == \E m, n \in DOMAIN created : m < n /\ created[m] = a /\ created[n] = b

\* a job takes the oldest of a list; its copies are those listed, active then
Take(j, list) ==
  \E a \in list : /\ \A b \in list : ~Older(b, a)
                  /\ Begin(j, a, j, "pending")
                  /\ queue' = [queue EXCEPT ![j] = list \ {a}]

\* the session is closed and its locks with it; a job takes the next attempt
\* in the same session
Closes(w) == w \notin Jobs \/ queue[w] = {}
Finish(w) ==
  IF Closes(w) THEN proc' = [proc EXCEPT ![w] = Idle] /\ UNCHANGED queue
  ELSE Take(w, queue[w])
Ask == requests < MaxRequests /\ requests' = requests + 1
Fail == failures < MaxFailures /\ failures' = failures + 1

-----------------------------------------------------------------------------
(* create_qr: the charge is made before the rows are committed *)

CreateCharge(w, a) ==
  /\ w \in Workers /\ At(w, "idle") /\ charge[a] = "none"
  /\ Ask
  /\ charge' = [charge EXCEPT ![a] = "created"]
  /\ proc' = [proc EXCEPT ![w] = [step |-> "create", a |-> a, op |-> "create"]]
  /\ UNCHANGED <<shown, rows, event, lock, queue, failures>>

\* the answer, and the QR code in it, may be lost
CreateCommit(w) ==
  LET a == proc[w].a
  IN  /\ At(w, "create")
      /\ attempt' = [attempt EXCEPT ![a] = "pending"]
      /\ sale' = [sale EXCEPT ![a] = "aguardando_pagamento"]
      /\ created' = Append(created, a)
      /\ shown' \in {shown, shown \cup {a}}
      /\ Finish(w)
      /\ UNCHANGED <<charge, taken, payments, event, lock, bounds>>

-----------------------------------------------------------------------------
(* The provider and the customer *)

Outcome(a) ==
  /\ charge[a] = "created"
  /\ \E outcome \in (IF a \in shown THEN {"processed", "other"} ELSE {}) \cup {"expired"} :
       charge' = [charge EXCEPT ![a] = outcome]
  /\ UNCHANGED <<shown, rows, event, lock, proc, queue, bounds>>

-----------------------------------------------------------------------------
(* What starts a verification *)

\* the buttons of the till
Press(w, a, op) ==
  /\ w \in Workers /\ At(w, "idle") /\ attempt[a] # "none"
  /\ Ask
  /\ Begin(w, a, op, "unread")
  /\ UNCHANGED <<provider, rows, event, lock, queue, failures>>

\* a webhook may come late, twice, before the row it is about, or not at all;
\* an outcome processed before is skipped
Webhook(w, a) ==
  /\ w \in Workers /\ At(w, "idle")
  /\ charge[a] \in Final /\ event[a] # "processed"
  /\ attempt[a] # "none"
  /\ Ask
  /\ event' = [event EXCEPT ![a] = IF @ = "none" THEN "received" ELSE @]
  /\ Begin(w, a, "webhook", attempt[a])
  /\ UNCHANGED <<provider, rows, lock, queue, failures>>

\* no attempt has this charge, or the payload names no user or another one
WebhookDrop(w, a) ==
  /\ w \in Workers /\ At(w, "idle")
  /\ charge[a] \in Final /\ event[a] # "processed"
  /\ Ask
  /\ event' = [event EXCEPT ![a] = "processed"]
  /\ UNCHANGED <<provider, rows, lock, proc, queue, failures>>

Active(a) == attempt[a] = "pending"
\* a slip: one attempt too few
Batch_OneShort(list) ==
  {a \in list : Cardinality({b \in list : Older(b, a)}) + 1 < BatchLimit}
Batch(list) == {a \in list : Cardinality({b \in list : Older(b, a)}) < BatchLimit}

\* the oldest active attempts, whenever they were last asked about; the other
\* job, those whose QR code is out of date by the clock
List(j) ==
  /\ At(j, "idle")
  /\ \E due \in (IF j = "expire" THEN SUBSET Attempts ELSE {Attempts}) :
       Take(j, Batch({a \in due : Active(a)}))
  /\ UNCHANGED <<provider, rows, event, lock, bounds>>

-----------------------------------------------------------------------------
(* verify and cancel *)

Free(w, a) == lock[a] \in {Nobody, w}
Settled(op) == IF op = "cancel" THEN {"approved", "canceled", "expired"} ELSE {"approved"}

\* only the buttons read the row here, the others have their copy already
Lock(w) ==
  LET r == proc[w]
      copy == IF r.copy = "unread" THEN attempt[r.a] ELSE r.copy
  IN  /\ At(w, "lock") /\ Free(w, r.a)
      /\ IF copy \in Settled(r.op)
         THEN /\ IF r.op = "webhook" THEN Move(w, "mark") ELSE proc' = [proc EXCEPT ![w] = Idle]
              /\ UNCHANGED lock
         ELSE /\ proc' = [proc EXCEPT ![w].step = "token", ![w].copy = copy]
              /\ lock' = [lock EXCEPT ![r.a] = w]
      /\ UNCHANGED <<provider, rows, event, queue, bounds>>

\* a token about to expire is renewed and committed, and the lock goes with it
Renew(w) ==
  /\ At(w, "token") /\ proc[w].a \notin Disconnected
  /\ Move(w, "consult")
  /\ Release(w)
  /\ UNCHANGED <<provider, rows, event, queue, bounds>>

Consult(w) ==
  LET r == proc[w]
      paid == charge[r.a] = "processed"
  IN  /\ At(w, "consult") \/ (At(w, "token") /\ r.a \notin Disconnected)
      /\ proc' = [proc EXCEPT ![w] =
           [step |-> IF r.op = "cancel" /\ ~paid THEN "cancel" ELSE "flush",
            a |-> r.a, op |-> r.op, copy |-> r.copy, answer |-> charge[r.a]]]
      /\ UNCHANGED <<provider, rows, event, lock, queue, bounds>>

\* the provider cancels a charge nobody has paid
CancelCharge(w) ==
  LET r == proc[w]
  IN  /\ At(w, "cancel") /\ charge[r.a] = "created"
      /\ charge' = [charge EXCEPT ![r.a] = "canceled"]
      /\ proc' = [proc EXCEPT ![w].step = "flush", ![w].answer = "canceled"]
      /\ UNCHANGED <<shown, rows, event, lock, queue, bounds>>

\* the record of the query and the new status go to the database, which takes
\* the lock; the sale is read after it
Flush(w) ==
  LET r == proc[w]
  IN  /\ At(w, "flush") /\ Free(w, r.a)
      /\ lock' = [lock EXCEPT ![r.a] = w]
      /\ proc' = [proc EXCEPT ![w] =
           [step |-> "save", a |-> r.a, op |-> r.op, copy |-> r.copy,
            answer |-> r.answer, sale |-> sale[r.a]]]
      /\ UNCHANGED <<provider, rows, event, queue, bounds>>

\* slip: any payment is taken for one in full
NewStatus_AnyAmount(r) ==
  CASE r.answer \in {"processed", "other"} -> "approved"
    [] r.op = "cancel" /\ r.answer \notin {"processed", "other"} -> "canceled"
    [] r.op # "cancel" /\ r.answer \in {"canceled", "expired"} -> r.answer
    [] OTHER -> r.copy

\* an answer that is not final leaves the copy as it is
NewStatus(r) ==
  CASE r.answer = "processed" -> "approved"
    [] r.op = "cancel" /\ r.answer # "processed" -> "canceled"
    [] r.op # "cancel" /\ r.answer = "other" -> "divergent"
    [] r.op # "cancel" /\ r.answer \in {"canceled", "expired"} -> r.answer
    [] OTHER -> r.copy

\* a slip: the status of the sale is not looked at
Completes_NoTest(r) == NewStatus(r) = "approved"

\* a paid sale that is not completed is completed, whatever else it is
Completes(r) == NewStatus(r) = "approved" /\ r.sale # "concluida"

\* one commit; a column is written when it differs from the copy
Save(w) ==
  LET r == proc[w]
      a == r.a
  IN  /\ At(w, "save")
      /\ attempt' = [attempt EXCEPT ![a] = IF NewStatus(r) = r.copy THEN @ ELSE NewStatus(r)]
      /\ sale' = [sale EXCEPT ![a] = IF Completes(r) THEN "concluida" ELSE @]
      /\ taken' = [taken EXCEPT ![a] = IF Completes(r) THEN @ + 1 ELSE @]
      /\ payments' = [payments EXCEPT ![a] = IF Completes(r) THEN @ + 1 ELSE @]
      /\ Release(w)
      /\ IF r.op = "webhook" THEN Move(w, "mark") /\ UNCHANGED queue ELSE Finish(w)
      /\ UNCHANGED <<provider, created, event, bounds>>

Mark(w) ==
  /\ At(w, "mark")
  /\ event' = [event EXCEPT ![proc[w].a] = "processed"]
  /\ Finish(w)
  /\ UNCHANGED <<provider, rows, lock, bounds>>

-----------------------------------------------------------------------------
(* Errors, and what else happens to the sale *)

\* an exception: a request is rolled back, a webhook's event marked failed; a
\* job takes the next attempt with its transaction, and the lock, still open
Raised(w) ==
  LET r == proc[w]
  IN  /\ event' = IF r.op = "webhook" THEN [event EXCEPT ![r.a] = "failed"] ELSE event
      /\ IF Closes(w) THEN Release(w) ELSE UNCHANGED lock
      /\ Finish(w)
      /\ UNCHANGED <<shown, rows, requests>>

NoToken(w) ==
  /\ At(w, "token") /\ proc[w].a \in Disconnected
  /\ Raised(w) /\ UNCHANGED <<charge, failures>>

\* the charge is final and not for cancel_payment to change
CancelRefused(w) ==
  /\ At(w, "cancel") /\ charge[proc[w].a] # "created"
  /\ Raised(w) /\ UNCHANGED <<charge, failures>>

\* no answer from the provider or from the database; a charge may have been
\* canceled all the same
Error(w) ==
  LET r == proc[w]
  IN  /\ \E step \in {"token", "consult", "cancel", "flush", "save"} : At(w, step)
      /\ Fail /\ Raised(w)
      /\ \/ UNCHANGED charge
         \/ /\ At(w, "cancel") /\ charge[r.a] = "created"
            /\ charge' = [charge EXCEPT ![r.a] = "canceled"]

\* the process dies: what is not committed is gone, its locks are free
Crash(w) ==
  /\ ~At(w, "idle")
  /\ Fail
  /\ proc' = [proc EXCEPT ![w] = Idle]
  /\ queue' = IF w \in Jobs THEN [queue EXCEPT ![w] = {}] ELSE queue
  /\ Release(w)
  /\ UNCHANGED <<provider, rows, event, requests>>

\* the attempts of which somebody holds a copy, or is about to
UnderWay ==
  {proc[w].a : w \in {w \in Procs : "a" \in DOMAIN proc[w]}}
    \cup UNION {queue[j] : j \in Jobs}

\* cancel_sale gives the goods back and asks nothing of the attempt
CancelSale(a) ==
  /\ sale[a] \in CancelFrom
  /\ IF Overlap THEN TRUE ELSE a \notin UnderWay
  /\ Ask
  /\ sale' = [sale EXCEPT ![a] = "cancelada"]
  /\ taken' = [taken EXCEPT ![a] = @ - 1]
  /\ UNCHANGED <<provider, attempt, created, payments, event, lock, proc, queue, failures>>

-----------------------------------------------------------------------------

Handle(w) == CreateCommit(w) \/ Renew(w) \/ NoToken(w) \/ Consult(w)
               \/ CancelCharge(w) \/ CancelRefused(w) \/ Save(w) \/ Mark(w)

Next ==
  \/ \E w \in Procs : Handle(w) \/ Lock(w) \/ Flush(w) \/ Error(w) \/ Crash(w)
  \/ \E j \in Jobs : List(j)
  \/ \E a \in Attempts :
       \/ Outcome(a) \/ CancelSale(a)
       \/ \E w \in Workers : \/ CreateCharge(w, a)
                             \/ Press(w, a, "verify") \/ Press(w, a, "cancel")
                             \/ Webhook(w, a) \/ WebhookDrop(w, a)

\* requests and jobs run on and the database serves those that wait for a row
\* in turn; nothing is assumed of customers, tills, webhooks and operators
Fairness ==
  /\ \A w \in Procs : WF_vars(Handle(w)) /\ SF_vars(Lock(w) \/ Flush(w))
  /\ \A j \in Jobs : WF_vars(List(j))

Spec == Init /\ [][Next]_vars
FairSpec == Spec /\ Fairness

-----------------------------------------------------------------------------
(* Properties *)

\* Every variable has its type; a row lock belongs to a request or job that runs.
TypeOK ==
  /\ charge \in [Attempts -> Final \cup {"none", "created"}] /\ shown \subseteq Attempts
  /\ attempt \in [Attempts -> {"none", "pending", "approved", "divergent", "expired", "canceled"}]
  /\ created \in Seq(Attempts)
  /\ sale \in [Attempts -> {"none", "aguardando_pagamento", "concluida", "cancelada"}]
  /\ taken \in [Attempts -> Int] /\ payments \in [Attempts -> Nat]
  /\ event \in [Attempts -> {"none", "received", "processed", "failed"}]
  /\ lock \in [Attempts -> Procs \cup {Nobody}]
  /\ \A a \in Attempts : lock[a] # Nobody => ~At(lock[a], "idle")
  /\ queue \in [Jobs -> SUBSET Attempts]
  /\ requests \in 0 .. MaxRequests /\ failures \in 0 .. MaxFailures

\* The two anomalies the detector looks for never arise, but for a sale an
\* operator canceled: an approved attempt has its sale completed, and a
\* payment row belongs to an approved attempt.  Approved is what the provider
\* says was paid in full, and whatever was paid has a row to be found by.
NoAnomaly ==
  \A a \in Attempts :
    /\ attempt[a] = "approved" => sale[a] \in {"concluida", "cancelada"} /\ charge[a] = "processed"
    /\ payments[a] > 0 => attempt[a] = "approved"
    /\ sale[a] = "concluida" => payments[a] > 0
    /\ charge[a] \in {"processed", "other"} => attempt[a] # "none"

\* However many webhooks, buttons and jobs verify a payment at the same time,
\* its goods are taken once, and an awaiting or canceled sale has none out;
\* the payment is recorded once.
GoodsTakenOnce == \A a \in Attempts :
  taken[a] = (IF sale[a] = "concluida" THEN 1 ELSE 0) /\ payments[a] <= 1

\* No late answer, stale copy or cancellation takes an attempt out of approved.
ApprovedIsFinal ==
  [][\A a \in Attempts : attempt[a] = "approved" => attempt'[a] = "approved"]_vars

\* What is paid in full is completed in the end, though every webhook and
\* answer may be lost, as long as the market stays connected.
PaidCompletes ==
  \A a \in Attempts \ Disconnected :
    charge[a] = "processed" ~> sale[a] \in {"concluida", "cancelada"}
=============================================================================
