--------------------------- MODULE FiscalCredits ---------------------------
(***************************************************************************)
(* Packages of emissions: the checkout at the Billing Core, its webhooks,  *)
(* the job that asks about payments nobody reported, and the packages an   *)
(* administrator grants.  One package, or grant, for each idempotency key. *)
(* FiscalQuota takes it up where activate_package ends: the package is     *)
(* paid and the month's counter raised, in one transaction.  Definitions   *)
(* named after a slip (Batch_OneShort) are broken variants no              *)
(* specification uses.                                                     *)
(***************************************************************************)
EXTENDS Integers, FiniteSets, Sequences

CONSTANTS
  Packages, Grants, \* keys of the checkouts asked for, and of the grants
  Workers,      \* requests the API serves at a time
  Job, Nobody,
  LatePayment,  \* TRUE: a payment that is overdue may still be made
  PaidWord,     \* the word of the Billing Core for paid
  BatchLimit,   \* packages the job lists, 50 in the code
  MaxRequests, MaxFailures \* bounds: requests made; steps that fail, processes that die

ASSUME CreditsAssumption ==
  /\ Packages \cap Grants = {} /\ Job \notin Workers /\ Nobody \notin Workers \cup {Job}
  /\ LatePayment \in BOOLEAN /\ PaidWord \in {"PAID", "CONFIRMED", "RECEIVED"}
  /\ BatchLimit \in Nat /\ MaxRequests \in Nat /\ MaxFailures \in Nat

VARIABLES
  row,      \* rows of fiscal_emission_packages
  created,  \* the packages that have a row, oldest first
  credits,  \* how many times each is in the counter, with its ledger entry
  core,     \* the payment of each package at the Billing Core
  past,     \* what has become of it, all of which is reported in webhooks
  event,    \* the row of each webhook event
  lock,     \* who has written each row, or inserted its key, without a commit
  proc, queue, \* what everybody is at; what the job has listed and not seen to
  requests, failures

store == <<row, created, credits>>
gateway == <<core, past>>
bounds == <<requests, failures>>
vars == <<store, gateway, event, lock, proc, queue, bounds>>

Keys == Packages \cup Grants
Procs == Workers \cup {Job}
Reports == {"overdue", "paid", "refunded"}
Idle == [step |-> "idle"]
Row == [status : {"none", "pending", "paid", "failed"}, job : BOOLEAN, payment : BOOLEAN]

Init ==
  /\ row = [k \in Keys |-> [status |-> "none", job |-> FALSE, payment |-> FALSE]]
  /\ created = <<>> /\ credits = [k \in Keys |-> 0]
  /\ core = [k \in Packages |-> "none"] /\ past = [k \in Packages |-> {}]
  /\ event = [k \in Packages |-> [r \in Reports |-> "none"]]
  /\ lock = [k \in Keys |-> Nobody]
  /\ proc = [w \in Procs |-> Idle] /\ queue = {}
  /\ requests = 0 /\ failures = 0

At(w, step) == proc[w].step = step
Move(w, step) == proc' = [proc EXCEPT ![w].step = step]
Begin(w, k, step) == proc' = [proc EXCEPT ![w] = [step |-> step, k |-> k]]
Free(w, k) == lock[k] \in {Nobody, w}
Unlocked(w) == [k \in Keys |-> IF lock[k] = w THEN Nobody ELSE lock[k]]
Ask == requests < MaxRequests /\ requests' = requests + 1
Fail == failures < MaxFailures /\ failures' = failures + 1

Older(j, k) == \E m, n \in DOMAIN created : m < n /\ created[m] = j /\ created[n] = k

\* the job takes the oldest of a list
TakeUp(list) ==
  \E k \in list : /\ \A j \in list : ~Older(j, k)
                  /\ Begin(Job, k, "ask") /\ queue' = list \ {k}

\* a webhook is marked at its end; the job goes on with what it has listed
After(w) ==
  \/ w # Job /\ Move(w, "mark") /\ UNCHANGED queue
  \/ w = Job /\ queue = {} /\ proc' = [proc EXCEPT ![w] = Idle] /\ UNCHANGED queue
  \/ w = Job /\ TakeUp(queue)

-----------------------------------------------------------------------------
(* initiate_purchase, sent again as often as the client likes *)

\* a checkout that has its job is answered as it is
Buy(w, k) ==
  /\ w \in Workers /\ At(w, "idle") /\ ~row[k].job
  /\ Ask
  /\ Begin(w, k, IF row[k].status = "none" THEN "create" ELSE "checkout")
  /\ UNCHANGED <<store, gateway, event, lock, queue, failures>>

\* of two that insert the same key one finds the row of the other
Create(w) ==
  LET k == proc[w].k
  IN  /\ At(w, "create")
      /\ IF row[k].status = "none"
         THEN /\ row' = [row EXCEPT ![k].status = "pending"]
              /\ created' = Append(created, k)
         ELSE UNCHANGED <<row, created>>
      /\ Move(w, "checkout")
      /\ UNCHANGED <<credits, gateway, event, lock, queue, bounds>>

\* the Billing Core makes one payment for a key, the id of the package
CreatePayment(w) ==
  LET k == proc[w].k
  IN  /\ At(w, "checkout")
      /\ core' = IF core[k] = "none" THEN [core EXCEPT ![k] = "open"] ELSE core
      /\ Move(w, "job")
      /\ UNCHANGED <<store, past, event, lock, queue, bounds>>

SaveJob(w) ==
  LET k == proc[w].k
  IN  /\ At(w, "job") /\ Free(w, k)
      /\ row' = [row EXCEPT ![k].job = TRUE]
      /\ proc' = [proc EXCEPT ![w] = Idle]
      /\ UNCHANGED <<created, credits, gateway, event, lock, queue, bounds>>

\* the client asks for its link: once the Core's job is done the row learns
\* the id of the payment
CheckoutStatus(w, k) ==
  /\ w \in Workers /\ At(w, "idle") /\ row[k].job /\ ~row[k].payment
  /\ Ask /\ Free(w, k)
  /\ row' = [row EXCEPT ![k].payment = TRUE]
  /\ UNCHANGED <<created, credits, gateway, event, lock, proc, queue, failures>>

-----------------------------------------------------------------------------
(* The payment *)

Becomes(k, outcome) ==
  /\ core' = [core EXCEPT ![k] = outcome] /\ past' = [past EXCEPT ![k] = @ \cup {outcome}]
  /\ UNCHANGED <<store, event, lock, proc, queue, bounds>>
PayAtCore(k) ==
  /\ core[k] = "open" \/ (LatePayment /\ core[k] = "overdue")
  /\ Becomes(k, "paid")
OverdueAtCore(k) == core[k] = "open" /\ Becomes(k, "overdue")
RefundAtCore(k) == core[k] = "paid" /\ Becomes(k, "refunded")

-----------------------------------------------------------------------------
(* Webhooks: never, late, repeated, overlapping, in any order *)

Webhook(w, k, report) ==
  /\ w \in Workers /\ At(w, "idle")
  /\ report \in past[k] /\ event[k][report] # "processed"
  /\ Ask
  /\ event' = [event EXCEPT ![k][report] = IF @ = "none" THEN "received" ELSE @]
  /\ proc' = [proc EXCEPT ![w] =
       [step |-> IF report = "paid" THEN "check" ELSE "fail", k |-> k, report |-> report]]
  /\ UNCHANGED <<store, gateway, lock, queue, failures>>

Mark(w) ==
  LET r == proc[w]
  IN  /\ At(w, "mark")
      /\ event' = [event EXCEPT ![r.k][r.report] = "processed"]
      /\ proc' = [proc EXCEPT ![w] = Idle]
      /\ UNCHANGED <<store, gateway, lock, queue, bounds>>

\* unconditional, and committed at once
MarkPackageFailed(w) ==
  LET k == proc[w].k
  IN  /\ At(w, "fail") /\ Free(w, k)
      /\ row' = [row EXCEPT ![k].status = "failed"]
      /\ After(w)
      /\ UNCHANGED <<created, credits, gateway, event, lock, bounds>>

-----------------------------------------------------------------------------
(* activate_package: two tests, a conditional UPDATE, the counter, one commit *)

\* the job tests the copy of the row it has listed, pending then
ActivateCheck(w) ==
  LET k == proc[w].k
      copy == IF w = Job THEN "pending" ELSE row[k].status
  IN  /\ At(w, "check")
      /\ IF credits[k] > 0 \/ copy # "pending" THEN After(w) ELSE Move(w, "update") /\ UNCHANGED queue
      /\ UNCHANGED <<store, gateway, event, lock, bounds>>

ActivateUpdate(w) ==
  LET k == proc[w].k
  IN  /\ At(w, "update") /\ Free(w, k)
      /\ IF row[k].status = "pending"
         THEN lock' = [lock EXCEPT ![k] = w] /\ Move(w, "credit") /\ UNCHANGED queue
         ELSE After(w) /\ UNCHANGED lock
      /\ UNCHANGED <<store, gateway, event, bounds>>

ActivateCommit(w) ==
  LET k == proc[w].k
  IN  /\ At(w, "credit")
      /\ row' = [row EXCEPT ![k].status = "paid", ![k].payment = TRUE]
      /\ credits' = [credits EXCEPT ![k] = @ + 1]
      /\ lock' = Unlocked(w)
      /\ After(w)
      /\ UNCHANGED <<created, gateway, event, bounds>>

-----------------------------------------------------------------------------
(* reconcile_pending_bc_payments *)

\* a slip: one package too few
Batch_OneShort(list) ==
  {k \in list : Cardinality({j \in list : Older(j, k)}) + 1 < BatchLimit}

\* the oldest, whenever they were last asked about
Batch(list) == {k \in list : Cardinality({j \in list : Older(j, k)}) < BatchLimit}

List ==
  /\ At(Job, "idle")
  /\ TakeUp(Batch({k \in Packages : row[k].status = "pending" /\ row[k].payment}))
  /\ UNCHANGED <<store, gateway, event, lock, bounds>>

\* the webhooks know one more word for paid
AskCore ==
  LET k == proc[Job].k
  IN  /\ At(Job, "ask")
      /\ CASE core[k] = "paid" /\ PaidWord # "PAID" -> Move(Job, "check") /\ UNCHANGED queue
           [] core[k] \in {"overdue", "refunded"} -> Move(Job, "fail") /\ UNCHANGED queue
           [] OTHER -> After(Job)
      /\ UNCHANGED <<store, gateway, event, lock, bounds>>

-----------------------------------------------------------------------------
(* grant_credits *)

Grant(w, g) ==
  /\ w \in Workers /\ At(w, "idle") /\ row[g].status = "none"
  /\ Ask
  /\ Begin(w, g, "insert")
  /\ UNCHANGED <<store, gateway, event, lock, queue, failures>>

\* a slip: the key is not unique
GrantInsert_NotUnique(w) ==
  /\ At(w, "insert") /\ Move(w, "grant")
  /\ UNCHANGED <<store, gateway, event, lock, queue, bounds>>

\* an insert waits for another of the same key that is not committed, and
\* gives up once there is such a row
GrantInsert(w) ==
  LET g == proc[w].k
  IN  /\ At(w, "insert") /\ Free(w, g)
      /\ IF row[g].status = "none"
         THEN lock' = [lock EXCEPT ![g] = w] /\ Move(w, "grant")
         ELSE proc' = [proc EXCEPT ![w] = Idle] /\ UNCHANGED lock
      /\ UNCHANGED <<store, gateway, event, queue, bounds>>

GrantCommit(w) ==
  LET g == proc[w].k
  IN  /\ At(w, "grant")
      /\ row' = [row EXCEPT ![g].status = "paid"]
      /\ credits' = [credits EXCEPT ![g] = @ + 1]
      /\ lock' = Unlocked(w)
      /\ proc' = [proc EXCEPT ![w] = Idle]
      /\ UNCHANGED <<created, gateway, event, queue, bounds>>

-----------------------------------------------------------------------------
(* Failures: the session is rolled back *)

\* an exception: the webhook's event is failed, or stays as it is when the
\* session is of no use any more, and the answer is 200 all the same; the job
\* goes on, or can do no more in this run
Error(w) ==
  LET r == proc[w]
  IN  /\ ~At(w, "idle") /\ Fail
      /\ lock' = Unlocked(w)
      /\ event' \in {event} \cup (IF "report" \in DOMAIN r
                                  THEN {[event EXCEPT ![r.k][r.report] = "failed"]} ELSE {})
      /\ \/ w = Job /\ After(w)
         \/ proc' = [proc EXCEPT ![w] = Idle] /\ queue' = IF w = Job THEN {} ELSE queue
      /\ UNCHANGED <<store, gateway, requests>>

-----------------------------------------------------------------------------

Handle(w) == Create(w) \/ CreatePayment(w) \/ Mark(w) \/ ActivateCheck(w)
               \/ ActivateCommit(w) \/ GrantCommit(w)
Wait(w) == SaveJob(w) \/ MarkPackageFailed(w) \/ ActivateUpdate(w) \/ GrantInsert(w)

Next ==
  \/ \E w \in Procs : Handle(w) \/ Wait(w) \/ Error(w)
  \/ List \/ AskCore
  \/ \E k \in Packages : \/ PayAtCore(k) \/ OverdueAtCore(k) \/ RefundAtCore(k)
                         \/ \E w \in Workers : \/ Buy(w, k) \/ CheckoutStatus(w, k)
                                               \/ \E report \in Reports : Webhook(w, k, report)
  \/ \E w \in Workers, g \in Grants : Grant(w, g)

Spec == Init /\ [][Next]_vars

\* requests and the job run on, rows are given to those that wait in turn, and
\* the job is started every five minutes; nothing is assumed of webhooks
Fairness ==
  /\ \A w \in Procs : WF_vars(Handle(w)) /\ SF_vars(Wait(w))
  /\ WF_vars(List \/ AskCore)
FairSpec == Spec /\ Fairness

-----------------------------------------------------------------------------
(* Properties *)

\* Every variable has its type, and no row stays locked by somebody who is done.
TypeOK ==
  /\ row \in [Keys -> Row] /\ created \in Seq(Packages) /\ credits \in [Keys -> Nat]
  /\ core \in [Packages -> Reports \cup {"none", "open"}] /\ past \in [Packages -> SUBSET Reports]
  /\ event \in [Packages -> [Reports -> {"none", "received", "processed", "failed"}]]
  /\ lock \in [Keys -> Procs \cup {Nobody}]
  /\ \A k \in Keys : lock[k] # Nobody => ~At(lock[k], "idle")
  /\ queue \subseteq Packages
  /\ requests \in 0 .. MaxRequests /\ failures \in 0 .. MaxFailures

\* Whatever is reported, asked for and sent again at the same time: a package is
\* in the counter once if it is paid and not at all while it is pending, only
\* what the Billing Core was paid or an administrator granted is ever there, and
\* a package is given up only when its payment is overdue or refunded.
CreditedOnce ==
  \A k \in Keys :
    /\ credits[k] <= 1
    /\ row[k].status = "paid" => credits[k] = 1
    /\ row[k].status \in {"none", "pending"} => credits[k] = 0
    /\ credits[k] > 0 => k \in Grants \/ core[k] \in {"paid", "refunded"}
    /\ row[k].status = "failed" => core[k] \in {"overdue", "refunded"}

\* A payment of which the row knows the id is credited in the end though every
\* webhook is lost, unless it is refunded first.
PaidIsCredited ==
  \A k \in Packages :
    (core[k] = "paid" /\ row[k].payment) ~> (credits[k] = 1 \/ core[k] = "refunded")
=============================================================================
