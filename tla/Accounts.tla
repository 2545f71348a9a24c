------------------------------- MODULE Accounts -------------------------------
(***************************************************************************)
(* One owner's account: the plan cached in the users row, the rows of      *)
(* billing_subscriptions by which access is decided, and the markets the   *)
(* owner creates within the plan's limit.  A users row is read into an     *)
(* entity, changed, and saved with every column of the entity, so requests *)
(* that overlap write back what they read.  How invoices and cards lead to *)
(* a payment is the business of Billing; grace and cancellation, which     *)
(* never let a market be created, the other limits and features, and edits *)
(* of plans are left out.  Definitions named after a slip are broken       *)
(* variants.                                                               *)
(***************************************************************************)
EXTENDS Integers, FiniteSets, Sequences

CONSTANTS
  Plans,        \* plans an owner can contract
  TrialPlan,    \* the plan of the trial
  MaxMarkets,   \* per plan, its limit of markets
  NoPlan,       \* NULL of plan_id
  Handlers,    \* requests served at a time
  Term,         \* days a payment, a trial or an assignment lasts
  MaxDay, MaxCalls \* bounds

ASSUME AccountsAssumption ==
  /\ NoPlan \notin Plans /\ TrialPlan \notin Plans
  /\ MaxMarkets \in [Plans \cup {TrialPlan} -> Nat]
  /\ Term \in Nat /\ MaxDay \in Nat /\ MaxCalls \in Nat

VARIABLES
  today,
  user,      \* the users row: plan_id and plan_expiration
  contract,  \* of each plan, the subscription to it
  latest,    \* the plans subscribed to, the row updated last at the end
  markets,   \* number of the owner's markets
  serving,   \* per request, what it has in hand
  entitled,   \* plans paid for, tried, or set by an administrator, who assigns
              \* a plan or reconciles the row with the newest subscription
  overtaken,  \* markets inserted after another one since they were counted
  calls

accountVars == <<today, user, contract, latest, markets, serving, entitled, overtaken, calls>>

Waiting == [op |-> "waiting"]
Never == -1 \* a day before the first
NoContract == [status |-> "none", until |-> Never]

AccountsInit ==
  /\ today = 0 /\ user = [plan |-> NoPlan, until |-> Never]
  /\ contract = [p \in Plans |-> NoContract] /\ latest = <<>>
  /\ markets = 0 /\ serving = [s \in Handlers |-> Waiting] /\ entitled = {}
  /\ overtaken = 0 /\ calls = 0

-----------------------------------------------------------------------------
(* Access *)

\* p goes to the end
Updated(p) ==
  LET at == {i \in DOMAIN latest : latest[i] = p}
      n == Len(latest)
  IN  IF at = {} THEN Append(latest, p)
      ELSE LET k == CHOOSE i \in at : TRUE
           IN  [i \in 1 .. n |-> IF i = n THEN p ELSE latest[IF i < k THEN i ELSE i + 1]]
Newest == latest[Len(latest)]
Running(p) == contract[p].status = "active" /\ today <= contract[p].until

\* select_current_subscription: an active row before a pending one, then the
\* one updated last; a lapsed row is still called active
Before(p, q) == \E i, j \in DOMAIN latest : i < j /\ latest[i] = p /\ latest[j] = q
Governing ==
  LET named == {p \in Plans : contract[p].status = "active"}
      of == IF named # {} THEN named ELSE {p \in Plans : contract[p].status # "none"}
  IN  CHOOSE p \in of : \A q \in of \ {p} : Before(q, p)

CachedAllowed == user.plan # NoPlan /\ today <= user.until
AccessAllowed == IF latest = <<>> THEN CachedAllowed ELSE Running(Governing)

\* _get_plan_for_owner: of the row updated last, whatever its status
PlanForOwner == IF latest = <<>> THEN user.plan ELSE Newest

-----------------------------------------------------------------------------
(* Requests that read the users row and save it *)

Takes(s, held) ==
  /\ serving[s] = Waiting /\ calls < MaxCalls
  /\ serving' = [serving EXCEPT ![s] = held] /\ calls' = calls + 1
  /\ UNCHANGED <<today, contract, latest, markets, entitled, overtaken>>
Frees(s) ==
  serving' = [serving EXCEPT ![s] = Waiting] /\ UNCHANGED <<today, markets, overtaken, calls>>

\* toggle_user_status and admin_reset_password: other columns of the row
LoadUser(s) == Takes(s, [op |-> "edit", user |-> user]) /\ UNCHANGED user

TrialLoad(s) ==
  /\ user.plan = NoPlan /\ Takes(s, [op |-> "trial", user |-> user])
  /\ UNCHANGED user

AssignLoad(s) ==
  \E p \in Plans : Takes(s, [op |-> "assign", plan |-> p]) /\ UNCHANGED user

ReconcileLoad(s) ==
  /\ Takes(s, [op |-> "reconcile",
               user |-> IF latest = <<>> THEN user
                        ELSE [plan |-> Newest,
                              until |-> IF contract[Newest].until = Never THEN user.until
                                        ELSE contract[Newest].until]])
  /\ UNCHANGED user

\* save: the row is read again and every column of the entity written to it
SaveUser(s) ==
  LET r == serving[s]
      plan == CASE r.op = "trial" -> TrialPlan
                [] r.op = "assign" -> r.plan
                [] OTHER -> r.user.plan
  IN  /\ r.op \in {"edit", "reconcile", "trial", "assign"} /\ Frees(s)
      /\ user' = [plan |-> plan,
                  until |-> IF r.op \in {"trial", "assign"} THEN today + Term ELSE r.user.until]
      /\ entitled' = IF r.op = "edit" THEN entitled ELSE entitled \cup ({plan} \ {NoPlan})
      /\ UNCHANGED <<contract, latest>>

-----------------------------------------------------------------------------
(* Subscriptions *)

\* refused for a plan whose row is active, lapsed or not
Subscribe(p) ==
  /\ contract[p].status = "none" /\ calls < MaxCalls /\ calls' = calls + 1
  /\ contract' = [contract EXCEPT ![p].status = "pending"] /\ latest' = Updated(p)
  /\ UNCHANGED <<today, user, markets, serving, entitled, overtaken>>

\* activate_invoice and PAYMENT_RECEIVED: both rows in one commit
PaymentReceived(p) ==
  LET until == IF Running(p) THEN contract[p].until + Term ELSE today + Term
  IN  /\ contract[p].status # "none" /\ calls < MaxCalls /\ calls' = calls + 1
      /\ contract' = [contract EXCEPT ![p] = [status |-> "active", until |-> until]]
      /\ latest' = Updated(p) /\ user' = [plan |-> p, until |-> until]
      /\ entitled' = entitled \cup {p}
      /\ UNCHANGED <<today, markets, serving, overtaken>>

\* _lock_immediately: the users row is left as it is
LockImmediately(p) ==
  /\ contract[p].status = "active" /\ calls < MaxCalls /\ calls' = calls + 1
  /\ contract' = [contract EXCEPT ![p].until = today - 1] /\ latest' = Updated(p)
  /\ UNCHANGED <<today, user, markets, serving, entitled, overtaken>>

-----------------------------------------------------------------------------
(* Creation of a market: the route's test, the service's, the insertion *)

CheckLimit(s) ==
  /\ AccessAllowed /\ markets < MaxMarkets[PlanForOwner]
  /\ Takes(s, [op |-> "checked"]) /\ UNCHANGED user

\* a slip: the service trusts the route
CountMarkets_AsRoute == TRUE
CountMarkets == user.plan # NoPlan /\ today <= user.until /\ markets < MaxMarkets[user.plan]
CreateMarket(s) ==
  /\ serving[s].op = "checked"
  /\ serving' = [serving EXCEPT ![s] = IF CountMarkets THEN [op |-> "counted", of |-> markets] ELSE Waiting]
  /\ UNCHANGED <<today, user, contract, latest, markets, entitled, overtaken, calls>>

InsertMarket(s) ==
  /\ serving[s].op = "counted" /\ markets' = markets + 1
  /\ overtaken' = IF markets = serving[s].of THEN overtaken ELSE overtaken + 1
  /\ serving' = [serving EXCEPT ![s] = Waiting]
  /\ UNCHANGED <<today, user, contract, latest, entitled, calls>>

Midnight ==
  /\ today < MaxDay /\ today' = today + 1
  /\ UNCHANGED <<user, contract, latest, markets, serving, entitled, overtaken, calls>>

AccountsNext ==
  \/ Midnight
  \/ \E p \in Plans : Subscribe(p) \/ PaymentReceived(p) \/ LockImmediately(p)
  \/ \E s \in Handlers :
       \/ LoadUser(s) \/ TrialLoad(s) \/ AssignLoad(s) \/ ReconcileLoad(s) \/ SaveUser(s)
       \/ CheckLimit(s) \/ CreateMarket(s) \/ InsertMarket(s)

AccountsSpec == AccountsInit /\ [][AccountsNext]_accountVars

-----------------------------------------------------------------------------
\* Nobody has more markets than the largest plan he was ever granted allows,
\* but for those that another creation overtook between their count and their
\* insertion, which hold no lock: the route's test goes by the subscription
\* touched last, which may not be paid, and the service's by the users row,
\* which an overlapping request may have set back; neither lets through what
\* both together must stop.
MarketsWithinPlan ==
  markets > overtaken => \E p \in entitled : markets <= MaxMarkets[p] + overtaken

\* "Retorna a assinatura mais recente e operacionalmente válida do owner.
\* Prioriza status trialing > active > past_due > pending"
\* (src/app/infra/repositories/billing_repo.py:28-30): whose access is granted,
\* his limits are those of a plan he was granted.  The query orders by
\* updated_at alone, so a contract nobody has paid sets the limits of the
\* subscription that is paid.
LimitsOfGrantedPlan == AccessAllowed => PlanForOwner \in entitled
=============================================================================
