# Verification of the Marketfy backend

TLA+ models of `backend-marketfy`, the API and workers of a point-of-sale
product: sales, stock, cash boxes, Pix payments, subscriptions, sales funnels,
and the emission of Brazilian consumer invoices (NFC-e) through an external
provider. The models follow the code at the lines listed in `PROJECT.json`
under `map`; TLC checks small instances and TLAPS proves the theorems of the
`*Proofs` modules for every value of the constants.

Run a model with `tlc -config MCQuota_retries.cfg MCQuota`, a proof with
`tlapm FiscalQuotaProofs.tla`.

Contents: 1 inventory, 2 modules, 3 what the runs check, 4 what is proved,
5 what is only model-checked, 6 what is not modelled, 7 what is next.

## 1. Inventory

The process model is the same everywhere: FastAPI coroutines and ARQ jobs
(`src/worker.py`: queue `fiscal:high`, `max_tries = 3`, timeout 30 s, cron jobs)
share PostgreSQL through SQLAlchemy repositories, most of whose methods commit
on their own. So a service call is a sequence of transactions, any other
coroutine may run between two of them, an entity read before an `await` may be
stale when it is saved, and a job that dies is delivered again from its start.

| component | state it keeps | operations | what makes it correct |
|---|---|---|---|
| quota service (`fiscal_quota_service.py`, `fiscal_repo.py`) | `fiscal_usage_counters`, packages, ledger | `check_and_reserve`, `consume`, `release`, `add_addon_credits`, monthly reset | a unit is reserved once, ends consumed or released once; plan and credits are never exceeded |
| emission service (`fiscal_emission_service.py`, `routers/fiscal.py`) | `fiscal_documents`, enqueued jobs | `request_emission`, `reprocess_document`, cancel | one document and one live note per sale, a reservation for every emission |
| jobs (`fiscal_jobs.py`) | ARQ queue, `fiscal_attempts` | `emit_nfce_job`, `reconcile_nfce_job`, reset, credit payment reconciliation, artifacts | idempotent under redelivery; each document ends and closes its reservation |
| reconciliation (`fiscal_reconciliation_service.py`) | attempts, document status | `reconcile_document` | never resends, never refuses what was authorized, ends after `_MAX_ATTEMPTS` |
| provider and SEFAZ (external) | the notes | POST, GET, cancel | same Idempotency-Key, same note |
| credits (`fiscal_credits_service.py`) | packages | checkout, activate, grant, fail | a paid package is credited once, an unpaid one never |
| tax rules (`tax_rule_service.py`, `fiscal_tax_rules.py`) | rules, links, evidence | edit, publish, link, retire, freeze on a sale | what a sale froze is what an accountant approved; one rule a day |
| payload and contract v2 (`fiscal_contract_v2.py`, `fiscal_pre_validator.py`) | snapshots, the persisted request | validate, serialize, choose the payload | the request posted is the one validated, the same at every try |
| onboarding and settings (`fiscal_config_service.py`, `fiscal_onboarding_service.py`) | one settings row | save, validate, enable | a validated row holds what was validated |
| inutilization (`fiscal_inutilizacao_service.py`) | a row per range | ask, retry | a range shown void is void at SEFAZ, and the reverse |
| fiscal webhooks, artifacts and print | events, files | - | see section 6 |
| sales, boxes, stock, tabs (`sales_service.py`, `inventory_service.py`, `finance_support.py`) | sales, boxes, products, movements, customers, ledger | sync, cancel, open and close a box, move, edit, pay a debt | stock and debts are the sums of what happened; goods are taken once |
| Pix (`pix/*`, `pix_jobs.py`) | attempts, sales that wait | QR, webhook, verify, cancel, expire, reconcile | a paid charge completes its sale, once |
| Pix connection (`connection_service.py`, `oauth_service.py`) | one row, OAuth states | connect, renew, disconnect | a consent is used once |
| points of sale (`market_location_service.py`, `payment_service.py`) | location, store, tills at the provider | save, register | the provider's store is where the market is |
| subscriptions (`invoice_service.py`, `recurring_service.py`, `subscription_service.py`, `billing_jobs.py`) | subscriptions, invoices, charges | contract, pay, renew, refund, cancel, reconcile | a paid term is kept and gives access; nothing is free |
| accounts (`identity_service.py`, `plan_access_service.py`) | users, markets | assign, try, create a market | markets within the plan |
| refresh sessions (`refresh_session_repo.py`, `auth_handler.py`) | sessions, a cookie | login, refresh, logout | a client that refreshes keeps a live session |
| funnels (`funnel_admin_service.py`, `funnel_public_service.py`, `analytics_service.py`) | variants, steps, sessions, milestones | edit, publish, visit, convert | a visitor is served every step; a conversion counts once |
| tickets, MCP, storage, cache, observability | rows, files | CRUD, adapters | see section 6 |

How the fiscal parts interact: the API reserves a unit (`check_and_reserve`),
saves the document QUEUED and enqueues `emit_nfce_job`; the job posts to the
provider, which usually answers 202; `reconcile_nfce_job` then consults with a
back-off, each job enqueuing the next, until SEFAZ has decided or the circuit
breaker gives the document up; the outcome consumes or releases the unit in the
period the reservation was made in. Behind it the month turns, the cron job
resets the counters, and credit packages are paid and expire.

The hard behaviours, all listed under `hazards` with their lines: service calls
made of several commits; whole-row `save()` of a copy read before an `await`;
status and quota committed separately around a crash; redelivered and
overlapping jobs; webhooks that come never, twice or out of order; a provider
whose answer is lost; `SKIP LOCKED`; batches with a limit; a reset that races
with payments; a chain of jobs that must not break before its end.

## 2. Modules

| module | models | checked in | proved in |
|---|---|---|---|
| `FiscalQuota` | the quota service: one action per commit of a call | `MCQuota` | `FiscalQuotaProofs` |
| `FiscalQuotaClients` | documents that call it in the documented order, with faults switched on by constants | `MCQuota` | `FiscalQuotaProofs` |
| `NfceNotes` | abstract: the life cycle of a note and of its unit | `MCEmission`, as a property | `FiscalPartsProofs` |
| `FiscalEmission` | requests, jobs, reconciliation, cancellation, provider and SEFAZ over `FiscalQuota` | `MCEmission` | `FiscalEmissionProofs` |
| `FiscalCredits` | packages: checkout, webhooks, job, grants | `MCCredits` | `FiscalCreditsProofs` |
| `TaxRules` | drafts, publication, links, evidence frozen on sales | `MCTaxRules` | `TaxRulesProofs` |
| `FiscalPayload` | from an approved rule to the request posted | `MCTaxRules` | `FiscalPartsProofs` |
| `FiscalSetup` | the settings row and its validation | `MCTaxRules` | `FiscalPartsProofs` |
| `Inutilization` | ranges declared void | `MCTaxRules` | `FiscalPartsProofs` |
| `Sales` | sales, boxes, stock, tabs | `MCMarket` | `MarketProofs` |
| `PixPayment` | charges, QR codes, webhooks, jobs, completion | `MCPix` | `PixPaymentProofs` |
| `PixConnection` | the market's connection to the provider | `MCMarket` | `MarketProofs` |
| `PointsOfSale` | location, store and tills | `MCMarket` | `MarketProofs` |
| `Accounts` | an owner's plan and markets | `MCMarket` | `MarketProofs` |
| `RefreshSessions` | the tabs of one browser | `MCMarket` | `MarketProofs` |
| `Funnels` | a sales funnel and its visitors | `MCMarket` | `MarketProofs` |
| `Billing` | an owner's subscriptions, invoices and cards | `MCBilling` | `BillingProofs` |

`MCMarket` and `MCTaxRules` bundle components that share no state: the initial
state chooses one of them (`part`), and the behaviour is of that one alone. The
parts of a bundle are checked at the bounds they would have on their own.

Definitions named with an underscore and a slip (`ConsumeCheck_NoLookup`) are
broken variants; no specification uses them. They record which mistake each
property detects (`PROJECT.json`, `mutants`).

Where the code lets two requests overlap on a row without a lock, so does the
model. A history variable then records which rows, ranges or users such an
overlap has touched, and the property speaks of all others: so the runs and the
theorems cover the races, and say how far their damage goes. Section 3 lists
these variables. No action depends on one.

**`FiscalQuota`.** `counter[m]` is the row of period `m` (`included_limit`,
`used_count`, `reserved_count`, `addon_limit`), `packages`, `ledger` (the set of
idempotency keys), `call[p]` the call a coroutine is in (its `pc` is the next
commit) and `reset` the cron job. An `UPDATE` on a row that was never created
touches nothing (`AddUsed`, `AddReserved`, `AddAddon`). `SELECT ... FOR UPDATE`
is one step with its commit where the code commits at once (`increment_reserved`),
and a lock kept in `call[p].pkg` where it does not
(`get_oldest_active_package` to `decrement_package_remaining`). `held` is a
history variable: the reservations, by document and period, not yet consumed or
released. A ledger entry that fails on its unique key is swallowed by the code
("best-effort"), which is the union of a set.

**`FiscalQuotaClients`.** Each document goes through none, open, consumed or
released; jobs report an outcome any number of times. `Faults` adds what the
orderly protocol excludes: `overlap` (two calls for one document at a time),
`expiry`, `straddle` (the month turns with reservations open), `early` (calls
and payments before the reset of 00:05). `MaxCrashes` calls die half way.
`adrift` counts the units that left a package unseen by the counter, `stranded`
the reservations of a period that nobody can close.

**`FiscalEmission`.** `doc[d]` is the row, `act[p]` the handler a coroutine runs
with its local copy of the row, `jobs` the ARQ queue, `hops` the job ids
`reconcile:{doc}:{n}` already used, `notes[d]` the provider's documents with the
key they were created under. A handler is cut where it awaits something another
coroutine can see: a commit, the provider, Redis. `Save` writes the whole copy
with its new status, as `doc_repo.save` does. `Row.ref` is `provider_ref`, which
is both the Idempotency-Key and, once the provider accepts, the provider's id.
`Env`, `Answers` and `Retriable` choose what the environment does in a run.
Deferral and back-off are left out: a job may run at any time.

**`NfceNotes`.** A sale's document is none, open, authorized, refused or
canceled; its unit is none, held or spent. `FiscalEmission` implements it under
the mapping at its end (`Phase`, `Charged`): the unit is held while the
reservation is open and spent from the commit that takes it off
`reserved_count`.

**`FiscalCredits`.** `row[k]` is a package, one for each idempotency key, written
by the checkout request, the two webhook handlers, the reconciliation job
(`queue`, a batch of at most `BatchLimit` pending rows) and an administrator's
grant; `core` and `past` are the payment at the Billing Core and what it reports,
in any order, never or twice. `lock` is a row written without a commit.
`credits` counts how often a package entered the counter; `Activate` of
`FiscalQuota` is what the counter becomes. `PaidWord` is the word the Core uses
for a paid payment.

**`TaxRules`.** `rule[r]` is a version with its content, approval and dates,
`links` the rows that tie rules to products from a day to a day, `client[c]` what
a request has in hand between two awaits. A sale stamps the rule of each of its
products for the day the till says, within `Window` days, and the enforcement
mode decides what happens when there is none; `approved` and `sold` keep what a
publication had read and what a sale froze. Nothing holds an edit back from a
rule published since it was read (`overwritten`), and an assignment remembers the
day it was `asked` on, since midnight may fall before its commit.

**`FiscalPayload`.** One sale and one document, over `written` rules, a `receipt`
with what is frozen on its lines, and a `config` that changes meanwhile. Amounts
count hundred-thousandths and the rounding to cents is the code's half-up.
`posted` is the set of payloads posted: the persisted request is built once,
and each try chooses between it and the older payload.

**`FiscalSetup`, `Inutilization`.** Rows read into an entity before an await and
written from it after: `hand[u]` and `clerk[d]` hold the copy. The provider keeps
the ranges under its own key (`filed`), an answer may be lost, and `told`
remembers what somebody was shown as void. A save of the settings is a SELECT and
an UPDATE, which another commit may cut (`mixed`); two clerks may be at one range,
its environment may change and SEFAZ refuse what was queued (`disputed`).

**`Sales`.** `product[p]` and `customer[k]` carry the totals kept in rows, `moved`
and `owed` the sums of the rows that are only added, `taken` and `drawer` what
sales have moved. `request[c]` is "ask", "load" (tests passed) or "save"
(entities in hand). A save assigns every column from the copy in hand (`Written`),
whatever the row says by then, as the repositories' `save` does. `raced` are the
rows that two requests in flight used at the same time.

**`PixPayment`.** `charge[a]` is the provider's, `attempt[a]`, `sale[a]` and
`event[a]` the rows. `proc[w]` holds what a session has loaded: `SELECT ... FOR
UPDATE` locks the row (`lock`) and does not refresh an instance loaded before, so
the copy is kept. Webhooks may be lost, repeated and delayed; what they say is
never believed, the provider is asked.

**`PixConnection`, `PointsOfSale`.** `link` is the connection's row and
`session[w]` the copy a request works on; it writes the columns in which the
object differs from the copy. The lock of a renewal decides nothing: who does
not get it goes on. `place`, `shop` and `posOf` are the location and the
registrations, `stores` what the provider shows; the location and its version are
read in two queries, a first save writes over a row inserted meanwhile, and
`unsure` are the versions of the location that this or two QR codes have confused.

**`Accounts`.** `user` is the users row with its cached plan, `contract` and
`latest` the subscriptions and the order of their updates, `serving[h]` a request
that has read. A user saved is the whole row of an entity that may be stale;
`overtaken` counts the markets inserted after another one since they were counted.

**`RefreshSessions`.** `token` is the table, `cookie` what all tabs of the browser
share; answers come in any order or never (`missed`) and a handler that dies
leaves its commits.

**`Funnels`.** `variant` and `steps` as administrators edit them, `visit` the
sessions; `edit` and `call` what a request has read, `reached` the milestones.
The attribution service reads and commits in database sessions of its own.
Administrators edit at the same time, and a funnel that is published too:
`rewritten` are the variants written since a publication was last tested, `crossed`
those whose steps two requests edited at a time, `late` the users given a session
when they had reached a milestone or while they were reaching one.

**`Billing`.** `subs` and `invoices` grow in the order rows are created, `recent`
gives each subscription its place in the order of the last update, by which
`get_active_by_owner` chooses; `payment`, `card` and `mail` are at the Billing
Core; `now` is the day. A trial lasts a `Term` (14 days in the code). A contract
that finds a row under its fixed key tests it and its invoices (`ContractTest`) and
adds its own invoice later (`ContractInsert`); `contracting` are those in between,
which no lock holds. A first contract is one step (`Contract`): the unique key makes
those that overlap wait for its commit. A webhook about a card may overtake an
older one (`overtaken`), and may come between the read and the write of a
session that cancels or asks the gateway (`crossed`).

## 3. What the runs check

All runs pass; none is expected to fail.

| run | bounds | shows |
|---|---|---|
| `MCQuota_retries` | 2 callers, 2 documents tried twice, 2 periods, 1 package, expiry, straddle | `ReservationsBacked`, `PlanRespected`, `UsedOncePerDocument` |
| `MCQuota_crashes` | 2 callers, 2 crashes, overlap | `NeverUncounted` |
| `MCQuota_credits` | 2 callers, 2 documents tried twice, 2 periods, no plan and 1 package of 2, expiry, straddle, early, 1 crash | `CreditsBacked`, `ReservationsReturned` |
| `MCEmission_retry` | 1 request, 1 worker, 1 sale, 2 emissions, 2 periods, 2 consults, fairness | `OneNote`, `ReservationClosed`, `OneUnit`, `AuthorizedIsFinal`, `EmissionReserved`, `EventuallySettled` |
| `MCEmission_notes` | 2 requests, 2 sales, plan 1, Redis fails, open sales asked for again | `ImplementsNotes`, the refinement of `NfceNotes` |
| `MCEmission_rough` | overlap, crash, payload, Redis, reprocess, cancel | `NoPhantom` |
| `MCMarket_parts` | see below | `TotalsMatchRows`, `GoodsTakenOnce`, `OneOpenBox`, `ConsentOnce`, `StoreIsAsShown`, `MarketsWithinPlan`, `ClientKeepsSession`, `VisitorIsServed`, `ConvertedOnce` |
| `MCPix_verify` | 2 charges, 2 workers and the reconciliation job, 1 failure, 1 market disconnected, fairness | `NoAnomaly`, `GoodsTakenOnce`, `PaidCompletes` |
| `MCBilling_invoices` | 2 keys, 3 subscriptions, 3 invoices, days 0 to 3, overlapping contracts, refunds, fairness | `OneTermOpen`, `PaidTermKept`, `PaidIsActivated` |
| `MCBilling_card` | a trial and a card subscription, days 0 to 3, charges, refunds, webhooks lost, repeated, in any order and within sessions | `AccessWhilePaid`, `NoFreeAccess` |
| `MCCredits_packages` | 2 checkouts, 1 grant, 2 workers and the job, 1 failure, fairness | `CreditedOnce`, `PaidIsCredited` |
| `MCTaxRules_life` | see below | `SoldAsReviewed`, `OneRuleADay`, `PastIsFixed`, `OneRequest`, `ReviewedIsEmitted`, `ValidatedAsIs`, `VoidAsTold` |

`MCMarket_parts`: 2 clients that overlap on any rows, 2 sales of up to 2
products, one of them on two lines, 2 boxes, 1 customer and 4 requests; 2
consents and 2 sessions over 6 turns; 2 tills, 2 streets, 3 saves of the
location; 2 plans, 2 handlers, 3 days; 2 tabs, 3 tokens, 1 crash; 2 variants of
2 steps, 2 administrators, 2 visits and 4 edits. `MCTaxRules_life`: 2 rules, 2
products, 1 sale, 2 days and 7 requests; a receipt of 2 lines and 4 changes of
configuration; 2 users, 2 certificates and 2 environments; 2 ranges, 2 clerks, 4
requests and one change of environment.

The bounds are the least that make the interesting case occur. Two callers race
for one counter; a second try is what a reused ledger key needs; two periods
what a reset and a straddling reservation need; one package is what SKIP LOCKED
hides from the other caller, and its second unit what a wrong debit takes; two
consults separate "not yet" from the circuit breaker, and two emissions a first
note from a second. Two workers and a job verify one charge at a time; a second
charge beside it is what a batch skips. A third subscription is needed for one
to be superseded while a late webhook of another arrives; three tokens for a
refresh that meets a rotated one; two days for a rule that ends with the first
and a past that must not change. The third row of the tax rules, in force from
the second day (`WithRates`), is left to the theorem.
`MaxTries`, `MaxEmissions`, `MaxCrashes`, `MaxRequests`, `MaxFailures`,
`MaxTurns`, `MaxPlaces`, `MaxStores`, `MaxCalls`, `MaxTokens`, `MaxVisits`,
`MaxSteps`, `MaxEdits`, `MaxSubs`, `MaxInvoices`, `MaxDay`, `MaxChanges`,
`MaxAsked`, `MaxAsks`, `MaxMoves` and `Months` bound counters that are unbounded
in the code. In the bundles symmetry is used over sets whose members no
definition tells apart, and only with invariants and action properties.

Deadlock is not checked: when no request is left and the calendar has ended,
nothing is left to do.

**Fairness.** The event loop resumes a coroutine whose await has returned, cron
jobs are started, the worker polls its queue and the database serves those that
wait for a row in turn. That is weak fairness of each coroutine's own steps
(`Handle`, `RequestStep`, `WorkerStep`, `Serve`), of the periodic jobs (`List`,
`AskCore`, `Reconcile`), and strong fairness of taking a row lock (`Lock`,
`Flush`, `Wait`), since others may take it in between any number of times.
Nothing is assumed of users, the provider, SEFAZ or webhooks: a consult may fail
every time, and the circuit breaker is what makes `EventuallySettled` hold; a
webhook may never come, and the jobs are what makes `PaidCompletes`,
`PaidIsCredited` and `PaidIsActivated` hold. `MCEmission_retry` excludes `redis`
and crashes: a row saved QUEUED whose job was never enqueued waits for a person,
since no job sweeps such rows.

**What goes wrong, and where the properties stop.** The history variables below
are in the runs and in the theorems. Each property was also run without the
exception and is violated, so each exception stands for something the code does.

| variable | property | what happens to what it records |
|---|---|---|
| `adrift` (`FiscalQuotaClients`) | `CreditsBacked` | a unit is taken from a package whose counter does not follow: a consume that straddles the reset, a call that dies between the two updates, a package that expires (`fiscal_quota_service.py:134-150`) |
| `stranded` | `ReservationsReturned` | the second release of a document within a period is taken for a repetition, or its reservation is made twice; the unit stays in `reserved_count` (`fiscal_quota_service.py:191`) |
| `raced` (`Sales`) | `TotalsMatchRows`, `GoodsTakenOnce`, `OneOpenBox`, `ClosedBoxIsFinal`, `WithinLimit` | a request writes totals, a status or a box it computed from a copy another one has changed since (`sqlalchemy_repos.py:235-250`) |
| `Doubled` (products on two lines of a receipt) | `TotalsMatchRows` | two lines hold two copies of one row: both are movements, and the row shows the last one alone (`sales_service.py:234-242`) |
| `overtaken` (`Accounts`) | `MarketsWithinPlan` | two requests count the same markets and both create one (`identity_service.py:74`) |
| `missed` (`RefreshSessions`) | `ClientKeepsSession` | a lost answer leaves the client with the token that was rotated (`auth.py:171`) |
| `rewritten` (`Funnels`) | `VisitorIsServed` | the last step of a variant is deleted after the publication has counted it (`funnel_admin_service.py:115`) |
| `crossed` (`Funnels`) | `VisitorIsServed` | two requests number the steps of a variant from one reading and leave a gap (`funnel_repo.py:88`) |
| `late` (`Funnels`) | `ConvertedOnce` | a session is tied to a user who has reached a milestone already or is reaching it, and he is counted again in it (`funnel_attribution_service.py:48-66`) |
| `unsure` (`PointsOfSale`) | `StoreIsAsShown` | the location is saved between the two queries that read it and its version, saved twice under one version, or written over at the provider by another QR code (`connection_service.py:84`) |
| `crossed` (`Billing`) | `PaidTermKept`, `AccessWhilePaid` | a webhook between a session's read and its commit is overwritten (`routers/billing.py:295-296`) |
| `overtaken` (`Billing`) | the same and `NoFreeAccess` | a charge applied after its refund gives the term back; a refund applied after a later charge takes that one |
| contracts of one day (`OneTermOpen`) | one invoice to pay | two contracts under different keys both find no open invoice and both add one to the row (`invoice_service.py:88-119`) |
| `overwritten` (`TaxRules`) | `SoldAsReviewed` | an edit that found a draft is written over the version published since (`fiscal_repo.py:324-334`) |
| the days since an assignment was `asked` for | `PastIsFixed` | midnight falls between the test of the date and the commit |
| `mixed` (`FiscalSetup`) | `ValidatedAsIs` | a save's UPDATE leaves out the columns in which its copy equals what its SELECT found, and another commit came in between (`fiscal_repo.py:104-147`) |
| `disputed` (`Inutilization`) | `VoidAsTold` | two clerks: a late failure overwrites an authorization; another environment: the key has none; "queued" counts as success and SEFAZ refuses later |

**What the runs exclude.** The rest is left out by a constant with a name. The
properties fail when it is changed as follows; each of these has been run.

| run and constants | property that fails | what happens |
|---|---|---|
| `MCQuota_retries`, `"overlap" \in Faults` | `UsedOncePerDocument` | two overlapping `consume` calls both find no ledger entry and both count (`fiscal_quota_service.py:119-124`) |
| `MCQuota`, 1 caller, 3 documents, 1 package | `CreditsNotOverdrawn` | reservations on credit do not lower the credit; one credit admits any number of emissions (`fiscal_repo.py:1225`) |
| `MCEmission_retry`, `"payload" \in Env` | `ReservationClosed` | MANUAL_ACTION for an altered payload keeps the unit (`fiscal_jobs.py:59`) |
| `MCEmission_retry`, `MaxCrashes = 1` | `OneNote` | a worker dies after storing the provider's id as `provider_ref`; the redelivered job posts under it (`fiscal_jobs.py:399`) |
| the same with `Answers = {"invalid"}` | `ReservationClosed` | a worker dies between storing a rejection and releasing the unit; the redelivered job stops at once (`fiscal_jobs.py:356`) |
| `MCEmission`, `MaxCrashes = 1`, `Retriable = {"queued"}` | `EmissionReserved` | a request dies between saving QUEUED and reserving; the next one takes the unit to be held (`fiscal_emission_service.py:219-226`) |
| `MCEmission`, `Env = {"reprocess"}` | `EmissionReserved` | the route writes QUEUED first, the service then takes the unit to be held: emission without reservation (`routers/fiscal.py:542`) |
| `MCEmission`, `"manual_action" \in Retriable`, plan 2 | `OneNote` | after the circuit breaker a new request posts under the provider's id and creates a second note (`fiscal_jobs.py:399`) |
| `MCEmission`, 2 workers, `Env = {"in_flight"}` | `AuthorizedIsFinal` | a second job writes PROCESSING over AUTHORIZED from a stale copy (`fiscal_repo.py:872`) |
| the same under `FairSpec` | `EventuallySettled` | two chains of reconcile jobs push the shared count past its bound and both end, the document still PROCESSING (`fiscal_jobs.py:521`) |
| `MCPix_verify`, `Overlap = TRUE`, `MaxRequests = 4` | `GoodsTakenOnce` | two sessions complete one sale: two payment rows |
| `MCPix_verify`, `CancelFrom = {"aguardando_pagamento"}` | `GoodsTakenOnce` | a sale canceled while it waits for its payment |
| `MCPix_verify`, `BatchLimit = 1` | `PaidCompletes` | the job always lists the same attempt |
| `MCBilling_invoices`, `BatchLimit = 1` | `PaidIsActivated` | the job always asks about the same unpaid invoice |
| `MCBilling_card`, `MaxSubs = 3` | `AnyTermGivesAccess` | two subscriptions are paid by card and the refunded one, touched last, governs |
| `MCBilling`, 1 key, 1 subscription, 3 invoices, `EarlyRefund` | `DueGetsInvoice` | the key of a renewal depends on the day the term ends: after a refund the next one meets it and no invoice is made (`billing_invoice_repo.py:26`) |
| `MCCredits_packages`, `LatePayment = TRUE` | `CreditedOnce`, `PaidIsCredited` | a payment after its failure was reported |
| `MCCredits_packages`, `PaidWord = "PAID"` | `PaidIsCredited` | the job compares with another word (`fiscal_jobs.py:799`) |
| `MCCredits_packages`, `BatchLimit = 1` | `PaidIsCredited` | the job always lists the same package |

Two statements that the code does not keep stand in the modules, in no run.
`LimitsOfGrantedPlan` (`Accounts`): the limits are those of the plan that gives
access. It fails as soon as an unpaid contract is touched last
(`billing_repo.py:27`). And that the counter shows no *less* credit than the
packages hold, the other half of `CreditsBacked`: `SKIP LOCKED` hides the only
package from a second consume, which then debits the counter alone
(`fiscal_repo.py:1308`), and a payment between the reset's read and its write is lost
(`fiscal_jobs.py:731-740`).

With `"reprocess" \in Env` a document refused at once and reprocessed without a
reservation may also be authorized in a month whose row was never created: the
consume's `UPDATE` touches no row and its ledger entry is all that counts the
emission. With `Storable = FALSE`, which is what the engine of
`infra/database/setup.py:15` does with the decimals of
`IcmsSnapshot.as_dict(compatibility=True)`, no sale with evidence is stored, and
`SoldAsReviewed` says nothing.

## 4. What is proved

The theorems hold for every value of the constants that satisfies the module's
`...Assumption` (finite sets, natural numbers, distinct marker values) and the
hypotheses the theorem itself states. Those of `MarketProofs`, `BillingProofs`,
`TaxRulesProofs` and `FiscalPartsProofs` have none: every overlap the code allows
is in them, and the statement excepts what the history variables record. The others
state as hypotheses constants of the second table above, which shows that they
fail otherwise.

An invariant is seldom inductive as it stands; each module proves a stronger one
with three facts (`Init` implies it, `[Next]_vars` keeps it, it implies the
property), one lemma per action or per conjunct that an action can disturb.
The invariants that exist for the proofs alone (`BooksAgree`, `Orderly`, the
`...Inv`) are not among the runs' properties.

**`FiscalQuotaProofs`.**

- `Typing`: `Spec => []TypeOK`; `QuotaStepTypes` shows that every commit keeps
  the types of the quota's state, whoever calls it.
- `Backed`: with `"overlap"` and `"early"` excluded and no crash,
  `Spec => []ReservationsBacked`. A decrement is harmless only if the document
  still holds the unit it gives up, which follows from where its job stands and
  from the ledger. `BooksAgree` says so: calls for one document are serial
  (`Serial`), a job at rest knows the truth (`Settled`), each call in flight
  relies only on what the ledger and `held` bear out (`CallSound`), absent rows
  are empty (`Rows`), and nothing is reserved in a period still to be reset
  (`Calendar`). `OthersAgree` carries what a step of one call leaves alone.
- `WithinPlan`: without crashes, `Spec => []PlanRespected`, whatever overlaps and
  whenever the reset runs. The invariant `PlanBooks` adds that no credit exists
  anywhere while no package was paid, and that every row includes the plan. The
  consumes between their two updates (`Swapping`) are counted twice for a moment,
  and with a crash there for good: hence the assumption.
- `NothingUncounted`: with `"early"` excluded alone, `Spec => []NeverUncounted`,
  whatever overlaps and dies. `AtLeast` is stronger: `used` covers the documents
  entered and the calls between count and entry. A step of a call is on a row that
  exists (`Present`), in a period that needs no reset any more (`Timely`), so the
  reset never takes back what was counted; `CountingStep` names the five things a
  step can do to a period, `Untouched`, `Counts`, `Records`, `Dies` and the reset.
- `UsedOnce`: with `"overlap"` and `"early"` excluded and no crash,
  `Spec => []UsedOncePerDocument`; `AtMost` is the other half, from `Unentered`: a
  call past its look into the ledger is about a document not entered yet.
- `UnitsReturned`: `Spec => []ReservationsReturned`, with no hypothesis. `Backing`
  says that what a period's row counts is reserved for somebody or `stranded`;
  `Takes`, `Gives` and `Keeps` are what a step does to the units (`Units`).
- `CreditShown`: `Spec => []CreditsBacked`, with no hypothesis: any number of
  callers, crashes and packages of any size, resets and payments in any order. The
  invariant adds what the reset carries; a unit in transit between package and
  counter is `InTransit` until its call or its period ends, and `adrift` then.

**`FiscalCreditsProofs`.** `Typing`, and `Credited`: no payment after its
failure was reported implies `Spec => []CreditedOnce`. `Inv` says that who is
crediting a row has it locked and finds it as it was (`Locked`, `Held`), that
what was reported of a payment is still so but for a refund (`Settled`), that
who acts on a payment acts on one there was (`Heard`), and that a row is in the
counter as its status says (`Ledger`).

**`TaxRulesProofs`.** `Typing`; `NeverAmbiguous`: `OneRuleADay`, from what the
links' dates are when they are written (`Apart`); `PastStays` (`PastIsFixed`), from
`Punctual`: an assignment in hand begins on the day it was asked for at the
earliest, whatever midnights have passed since; and `Reviewed` (`SoldAsReviewed`),
from `Reviewing`: what is published has not changed since the approval unless it was
`overwritten` (`Frozen`), and neither has what a publication or a sale has in hand
of it (`Stamped`, `Collected`, `Filed`). None has a hypothesis.

**`FiscalEmissionProofs`.** A chain of invariants, each resting on those before; the
lemmas at its head say, field by field, what each kind of step does (`Queues`,
`Concludes`, `Writes`, `Posts`, `Consults`, `Closes`, ...), so that an invariant
meets some twenty kinds of step and not every action.

- `Typing` (`Typed`; no hypothesis): beside the types, a reference never points
  past the provider's documents.
- `DocumentsAreGenuine` (`NoPhantom`; `"authorized" \notin Answers`): `Genuine` says
  that the row, the ledger, every handler past a consult and every consume under
  way have a note behind them that SEFAZ authorized, and no step takes such a
  note back (`Lasting`). Whatever overlaps, reprocesses and dies. That no answer
  to a POST is an authorization is what `emit_nfce` does: 202, 422 or an error
  (`neectify_fiscal_provider.py:100-165`).
- `AuthorizationKept` (`AuthorizedIsFinal`; no `"in_flight"`): `Alone` says that
  a document has one job or one request at a time and that its handler's copy of
  the row is the row until its last save. Processes may die at any point.
- `NotesAreSingle` (`OneNote`; also no crash, and nobody asks again for a document
  `processing` or in `manual_action`): `Single` says of every status and step
  whether a note may be alive, and that until the provider accepts every note
  there is has the key the next POST would carry. With the provider's id in
  `provider_ref` that is over, so a second POST from there makes a second note.
- `ReservationsAreClosed` (`ReservationClosed`; no crash, none of `"in_flight"`,
  `"payload"`, `"reprocess"`, and an open document is only asked for again in the
  month it was asked for, `Retriable \cap Reserved = {} \/ "month" \notin Env`):
  `AllHeld` says where the unit of a document is at every step of a handler
  (`HeldAt`), of a quota call (`CallAt`) and for every job in the queue
  (`HeldJob`): none, held in the job's period alone, or spent; a document at rest
  holds one exactly when it is open. So the row that a failure of Redis leaves
  QUEUED without a job keeps its unit, and the request of the next person finds
  it: `Still` says that it is of the current month. The hypotheses are exceptions
  of the code: a job delivered again finds the document closed and returns its
  unit to nobody; a refused payload goes to `manual_action` with its unit
  (`em_manual`); the reprocess route reserves nothing; a document still open is
  asked for again in the current month, not the one its unit is in. The instance
  `MCEmission_retry` is one that satisfies them.
- `NotesCostOneUnit` (`OneUnit`; the same hypotheses): `AllOnce` adds that the
  units a document holds or has used are of one month and that a canceled one was
  charged, which holds because a reservation is only made where none is out
  (`ServesOnce`), however often the sale was refused before.
- `NotesAreReserved` (`EmissionReserved`; no `"in_flight"`, no `"reprocess"`, and no
  crash or nobody asking again for an open document) needs less: processes may
  die, payloads be refused and months turn. `AllOpen` keeps of `AllHeld` only what
  survives: who waits for SEFAZ or will post has a unit of some month behind the
  document (`OpenDoc`, `OpenAct`, `OpenCall`, `OpenJob`), which a death loses to the
  counter but not to the document (`DeathOpen`).
- `EmissionImplementsNotes` (`ImplementsNotes`; no crash, `Months = {1}`, and none of
  `"in_flight"`, `"payload"`, `"reprocess"`, `"month"`, `"credits"`, for the abstract
  plan knows neither period nor package): every step of a request, a job or a
  quota call is a step of `NfceNotes` or none (`PhaseStep`, `CommitMoves`,
  `StepMaps`). Beside `AllHeld` it needs `Tally`: the row of the period covers the
  units held and the units counted. A unit passes from held to spent at the commit
  that takes it off `reserved_count` (`Charged`), one commit after `used_count` had
  it, so the row covers it twice in between and never less than once; with that,
  the second availability test of `reserve` (`ReserveLock`) is the abstract plan's.
  `MCEmission_notes` is an instance.
- `NotesStayInPlan` (the same hypotheses): no more notes are authorized in the
  month than the plan has units. The bound on the units (`PlanKept`) comes from the
  refinement, that an authorized or canceled note has one from `AllHeld` and
  `AllOnce`.

**`PixPaymentProofs`.** `Typing`; under `Tame` (requests for one attempt do not
overlap; an operator cancels a sale only when it is complete) `Goods`
(`GoodsTakenOnce`), `Anomalies` (`NoAnomaly`) and `Approved` (an approved attempt
stays approved). `Inv` says what a session that has loaded a row may rely on
(`Own`), that one session makes an attempt (`OneMaker`), that a job has listed
rows there are (`Listed`), and how charge, attempt, sale, goods and payments go
together (`Books`).

**`BillingProofs`.** `BillingInv` is the longest of them, and needs no hypothesis.
`Typed`; `Linked` (invoices belong to subscriptions paid by invoice, what the
gateway knows and sends to card subscriptions); `Bills` (a paid invoice is in its
row's end, one to pay begins after it, and two to pay begin on the same day and
come from contracts) with `Todays` (a contract that has tested its row is of
to-day, and what is open on that row began to-day); `Trials` (what was activated was
touched after the trial); `Dated` (no webhook, charge or event applied is of a day
to come, and what was applied is known to the gateway). Of the subscriptions not
`overtaken`: `InOrder` (nothing that was applied comes after a webhook underway, lest
the refund of an older charge take a later one back) and `Covered` (an active card
subscription with days left that is not provisional has a charge, not refunded,
that reaches its end). Of those not `crossed`: `Undisturbed` (a row that is being
asked about was not paid for meanwhile, and its end is told only after the owner's
cancellation). Of those that are neither, `Kept`: a charge heard and not taken back
is in the row's end. From it `OneOpenInvoice` (`OneTermOpen`), `TermsKept`
(`PaidTermKept`), `PaidHasAccess` (`AccessWhilePaid`) and `NothingFree`
(`NoFreeAccess`).

**`MarketProofs`.** Sales, and one invariant for each of five small components; no
theorem has a hypothesis.

- *Sales.* `StaysOrderly`: `Orderly` is an invariant. A request in flight uses rows
  of its own or rows that are `raced`; on the former the tests it passed are still
  true when it writes (`Tested`, `Sound`), and the totals agree (`Booked`). From it
  `GoodsTaken`, `TotalsStay` (`TotalsMatchRows`: stock, debt and the cash of a box),
  `BoxesApart`, and the action properties `ClosedStays` (a closed box is never
  changed again) and `TabsWithinLimit`. `Spares` says that a request changes no row
  that it does not use, which is what keeps the damage of a race on its rows; that
  boxes are compared with boxes that are not `raced`, `Pick` settles. A total is a
  sum over a finite set, defined through a function that is chosen; `AddsUp` and the
  lemmas about it show that there is such a function and one only, for which the
  least-number principle stands in for induction.
- `ClientKept` (`ClientKeepsSession`): no token is known before its row is there,
  and a new one is known to the answer that brings it alone (`Handed`, `Fresh`).
- `ConnectsOnce` (`ConsentOnce`): a consent underway is not revoked and in nobody
  else's hands, and who writes a status of its own does not connect (`Unspent`,
  `Virgin`, `Copies`, `Intents`).
- `ShownAsSaved` (`StoreIsAsShown`): a version not `unsure` has one street, at every
  desk and at the provider (`PlaceTold`, `PlaceRead`, `ShopRead`, `ShopKnown`).
- `WithinPlan` (`MarketsWithinPlan`): a creation under way counted the markets there
  are or was overtaken (`Granted`, `Counted`).
- `FunnelServes` (`VisitorIsServed`): positions have no gap and what an edit will
  write leaves none unless the variant is `crossed` (`Gapless`, `Served`,
  `Pending`); `ConvertsOnce` (`ConvertedOnce`): a session is tied to one user, and the
  milestones are stamped on his last one, after which nothing is tied to him
  unless he is `late` (`Tied`, `RegisteredOnce`, `MarkedLast`).

**`FiscalPartsProofs`.**

- `NotesPaid`, `NotesWithinPlan`: the guarantees of the abstract life cycle; they
  carry over to `FiscalEmission` by `EmissionImplementsNotes`, where
  `NotesStayInPlan` says so of its documents.
- `OneRequestPosted` (`OneRequest`) and `ReviewEmits` (`ReviewedIsEmitted`), with
  no hypothesis: `PayloadInv` follows an amount from the rule to the request, and
  two lemmas about rounding show that what the serializer writes is what the
  calculator froze.
- `SetupValidated` (`ValidatedAsIs`): unless the row is `mixed`, it and the copies
  in hand that say validated have passed (`AllPassed`, `HasPassed`), also across the
  ids the onboarding records (`Onboards`).
- `VoidStays` (`VoidAsTold`): on a range that is not `disputed` there is one clerk
  and one site, and when it is shown void it is filed (`Rowed`, `OneClerk`, `OneSite`,
  `Undecided`, `VoidIsFiled`, `VoidTold`).

## 5. What is only model-checked

- Liveness: `EventuallySettled`, `PaidCompletes`, `PaidIsActivated`,
  `PaidIsCredited`. The prover handles neither fairness nor ENABLED.

Every safety invariant and action property of the runs is stated by a theorem,
under the hypotheses given there. What no theorem and no run says of the rows a
race has touched is listed in section 3.

## 6. Not modelled

Left out of the modules, component by component:

- *Emission.* SEFAZ_UNAVAILABLE, CONTINGENCY_REQUIRED and NOT_REQUESTED are never
  stored by the modelled code. Provider deduplication beyond the Idempotency-Key
  is unknown and not assumed. In `FiscalEmission` payload building is an outcome,
  chosen freely where `"payload" \in Env`; `FiscalPayload` has the contents.
  ARQ keeps results for about an hour, which is why `hops` never forgets; a retry
  within one second collides on its job id, with the effect of the `redis`
  branch: a QUEUED row without a job.
- *Payload.* Fields of the older payload, digests that always match, the branch
  for v1 snapshots and `build_neectify_payload`, which nobody calls. The v2
  contract has no discount. WARN mode refuses every emission
  (`fiscal_pre_validator.py:277-290`: an own base of "0.00" is never the item's
  total), although `tests/unit/test_fiscal_legacy_regression.py:1` says it uses
  the legacy payload.
- *Tax rules.* SEFAZ authorization rows, `products.tax_rule_id`, the migration
  job. `Window` counts days: the 30 minutes of the code may straddle midnight.
- *Settings.* Names, numbering, the step of the onboarding. POST `/config`
  defaults the environment to "homologacao", so a partial save takes production
  back; the model has it as a form like any other.
- *Credits.* Payments create the month's counter with no plan in it
  (`billing_core_webhooks.py:149-159`), which `FiscalQuota` has.
- *Fiscal webhooks.* Both handlers (`fiscal_webhooks.py:131-147, 261-276`) use
  columns the model class does not have (`models.py:1019-1040`) and raise before
  any change of state.
- *Artifacts and print.* Rows are only added under deterministic keys.
- *Sales.* `financial_transactions`, which nothing modelled reads back; fiscal
  refusals are a request rolled back; a batch is successive requests; one payment
  on a tab per sale; sales that wait for Pix are in `PixPayment`.
- *Pix connection.* The race of two settings forms, the columns nothing tests,
  the lease of a till's lock; consents are of different accounts. The property
  that a connected row holds a token of its account fails when a callback falls
  within a refresh; a callback or a renewal that overlaps a disconnection leaves
  tokens in a row that is not connected. Rows of the older POS registration and a
  store created by a process that dies are left out.
- *Billing.* `process_webhook_event` and `initiate_subscription`: no route reaches
  what they write. Two jobs at once. A webhook handler, an activation and a retry
  are one step each: a grant written by the job between a webhook's read and its
  write, which would leave a paid row provisional, is not in the model. Of two
  invoices of one term that are both paid the second adds next to nothing, since both
  begin on the same day: the model has it, no property is about it.
- *Accounts.* Members, products and terminals have the same limit test over other
  counts. Overlapping toggles, resets and assignments can set a paid plan back;
  the model has them, no property is about them.
- *Sessions.* Access tokens, which no table holds; a logout that overlaps a
  refresh leaves a live session, and a login leaves the older one.
- *Funnels.* The table of events, metrics, `duplicate_funnel`, the older funnel.
- *Tickets.* A save writes the whole row, so a reply that overlaps a closing may
  reopen the ticket; messages are only added.
- *Rate limits.* `INCR` and `EXPIRE` are two commands (`rate_limiter.py:61`).
- *Notifications.* The cron jobs are commented out (`src/worker.py:105-107`).
- *MCP OAuth, storage, cache, observability.* Stateless tokens; adapters and I/O.

## 7. What is next

In order of what they say about the system:

1. What is left of `ReservationClosed` when a process dies, and of
   `NotesStayInPlan` over several months and with credits.
2. Modules for artifacts and tickets.
