---------------------------- MODULE FiscalQuota ----------------------------
(***************************************************************************)
(* The monthly fiscal quota of one owner: FiscalQuotaService on top of     *)
(* SQLAlchemyFiscalUsageRepository.  Every repository call commits on its  *)
(* own, so a service call is a sequence of steps, one per commit, and the  *)
(* calls of different callers (API requests and ARQ jobs) interleave.      *)
(* This module holds the service only; the modules that EXTEND it say who  *)
(* calls it and when.  Definitions whose name has an underscore and a slip  *)
(* (ConsumeCheck_NoLookup) are broken variants no specification uses: they *)
(* show what the properties detect.                                        *)
(***************************************************************************)
EXTENDS Integers, FiniteSets

CONSTANTS
  Callers,      \* coroutines that call the service: API requests, ARQ jobs
  Docs,         \* fiscal documents of the owner
  Months,       \* quota periods YYYYMM, 1 .. n; n bounds the clock
  Plan,         \* PlanModel.fiscal_monthly_limit
  Packages,     \* credit packages 1 .. n, numbered by valid_until (FIFO order)
  PackageSize   \* emissions in a package

ASSUME QuotaAssumption ==
  /\ IsFiniteSet(Docs) /\ IsFiniteSet(Callers)
  /\ Months \subseteq Nat /\ 1 \in Months
  /\ Packages \subseteq Nat \ {0} /\ IsFiniteSet(Packages)
  /\ Plan \in Nat
  /\ PackageSize \in Nat \ {0}

VARIABLES
  month,     \* the current period, datetime.utcnow().strftime("%Y%m")
  counter,   \* fiscal_usage_counters: one row per period
  packages,  \* fiscal_emission_packages
  ledger,    \* idempotency keys present in fiscal_usage_ledger
  call,      \* the service call each caller is executing
  reset,     \* the cron job reset_monthly_fiscal_quotas
  held       \* history: <<doc, period>> whose reservation is still open

quotaVars == <<month, counter, packages, ledger, call, reset, held>>

(***************************************************************************)
(* Rows.  A counter that was never created is the all-zero row with        *)
(* exists = FALSE: UPDATE ... WHERE then touches no row.                   *)
(***************************************************************************)
Counter == [exists : BOOLEAN, included : Nat, used : Nat,
            reserved : Int, addon : Int]
NoCounter == [exists |-> FALSE, included |-> 0, used |-> 0,
              reserved |-> 0, addon |-> 0]
NewCounter == [NoCounter EXCEPT !.exists = TRUE, !.included = Plan]

Package == [status : {"none", "paid"}, remaining : 0 .. PackageSize,
            expired : BOOLEAN]
NoPackage == [status |-> "none", remaining |-> 0, expired |-> FALSE]

Reset == [pc : {"idle", "due", "carried"}, carry : Nat]

\* FiscalUsageCounter.available_quota: the plan's part is floored at zero
AvailableIncluded(c) ==
  LET free == c.included - c.used - c.reserved
  IN  IF free > 0 THEN free ELSE 0
AvailableQuota(c) == AvailableIncluded(c) + c.addon

\* UPDATE ... SET field = field + n: no row, no effect
AddUsed(c, n)     == IF c.exists THEN [c EXCEPT !.used = @ + n] ELSE c
AddReserved_KeepsReleased(c, n) ==
  IF c.exists /\ n > 0 THEN [c EXCEPT !.reserved = @ + n] ELSE c
AddReserved(c, n) == IF c.exists THEN [c EXCEPT !.reserved = @ + n] ELSE c
AddAddon(c, n)    == IF c.exists THEN [c EXCEPT !.addon = @ + n] ELSE c

ConsumeKey(m, d) == <<"consume", m, d>>
ReleaseKey(m, d) == <<"release", m, d>>
LedgerKeys == {"consume", "release"} \X Months \X Docs

(***************************************************************************)
(* Calls.  pc names the next commit of the call; granted, exceeded and     *)
(* closed are its outcomes, which stay until the caller picks them up.     *)
(***************************************************************************)
ReserveSteps == {"res_read", "res_lock"}
ConsumeSteps == {"co_check", "co_used", "co_reserved", "co_package",
                 "co_decrement", "co_addon", "co_ledger"}
ReleaseSteps == {"rel_check", "rel_reserved", "rel_ledger"}
Outcomes     == {"granted", "exceeded", "closed"}

Call == [pc     : ReserveSteps \cup ConsumeSteps \cup ReleaseSteps \cup Outcomes,
         doc    : Docs,
         period : Months,
         addon  : BOOLEAN,      \* consuming_addon
         pkg    : Packages \cup {0}]   \* the package row locked, 0 for none
NoCall == [pc |-> "idle"]

Idle(p) == call[p] = NoCall
InCall(p) == call[p].pc \in ReserveSteps \cup ConsumeSteps \cup ReleaseSteps

Start(pc, d, m, addon) ==
  [pc |-> pc, doc |-> d, period |-> m, addon |-> addon, pkg |-> 0]
Goto(p, pc) == call' = [call EXCEPT ![p].pc = pc]
EndCall(p) == call' = [call EXCEPT ![p] = NoCall]
SetCounter(m, c) == counter' = [counter EXCEPT ![m] = c]

\* is_valid: paid and before valid_until
Valid(k) == packages[k].status = "paid" /\ ~packages[k].expired

\* sum_active_packages_remaining: the emissions left in valid packages
Remaining == Cardinality({u \in Packages \X (1 .. PackageSize) :
                            Valid(u[1]) /\ u[2] <= packages[u[1]].remaining})

\* the calls themselves; a caller starts one in its own action
ReserveCall(d)        == Start("res_read", d, month, FALSE)
ConsumeCall(d, m, ad) == Start("co_check", d, m, ad)
ReleaseCall(d, m)     == Start("rel_check", d, m, FALSE)

QuotaTypeOK ==
  /\ month \in Months
  /\ counter \in [Months -> Counter]
  /\ packages \in [Packages -> Package]
  /\ ledger \subseteq LedgerKeys
  /\ call \in [Callers -> Call \cup {NoCall}]
  /\ reset \in Reset
  /\ held \subseteq Docs \X Months

QuotaInit ==
  /\ month = 1
  /\ counter = [m \in Months |-> NoCounter]
  /\ packages = [k \in Packages |-> NoPackage]
  /\ ledger = {}
  /\ call = [p \in Callers |-> NoCall]
  /\ reset = [pc |-> "idle", carry |-> 0]
  /\ held = {}

-----------------------------------------------------------------------------
(* check_and_reserve *)

\* get_or_create_counter, then the availability test on the row just read:
\* consuming_addon is decided here, before any lock is taken
ReserveRead(p) ==
  LET m == call[p].period
      c == IF counter[m].exists THEN counter[m] ELSE NewCounter
  IN  /\ call[p].pc = "res_read"
      /\ SetCounter(m, c)
      /\ call' = [call EXCEPT
                    ![p].pc = IF AvailableQuota(c) = 0 THEN "exceeded" ELSE "res_lock",
                    ![p].addon = (AvailableIncluded(c) = 0)]
      /\ UNCHANGED <<month, packages, ledger, held, reset>>

\* a slip: trust the availability read before the lock
ReserveLock_NoSecondTest(p) ==
  LET m == call[p].period
  IN  /\ call[p].pc = "res_lock"
      /\ SetCounter(m, AddReserved(counter[m], 1))
      /\ held' = held \cup {<<call[p].doc, m>>}
      /\ Goto(p, "granted")
      /\ UNCHANGED <<month, packages, ledger, reset>>

\* increment_reserved: SELECT ... FOR UPDATE, test again, reserve, commit
ReserveLock(p) ==
  LET m == call[p].period
      d == call[p].doc
  IN  /\ call[p].pc = "res_lock"
      /\ \/ /\ AvailableQuota(counter[m]) >= 1
            /\ SetCounter(m, [counter[m] EXCEPT !.reserved = @ + 1])
            /\ held' = held \cup {<<d, m>>}
            /\ Goto(p, "granted")
         \/ /\ AvailableQuota(counter[m]) < 1
            /\ Goto(p, "exceeded")
            /\ UNCHANGED <<counter, held>>
      /\ UNCHANGED <<month, packages, ledger, reset>>

-----------------------------------------------------------------------------
(* consume *)

\* a slip: no look at the ledger before counting
ConsumeCheck_NoLookup(p) ==
  /\ call[p].pc = "co_check"
  /\ Goto(p, "co_used")
  /\ UNCHANGED <<month, counter, packages, ledger, held, reset>>

\* a slip: record the entry first, count afterwards
ConsumeCheck_RecordsFirst(p) ==
  /\ call[p].pc = "co_check"
  /\ Goto(p, IF ConsumeKey(call[p].period, call[p].doc) \in ledger
             THEN "closed" ELSE "co_used")
  /\ ledger' = ledger \cup {ConsumeKey(call[p].period, call[p].doc)}
  /\ UNCHANGED <<month, counter, packages, held, reset>>

ConsumeCheck(p) ==
  /\ call[p].pc = "co_check"
  /\ Goto(p, IF ConsumeKey(call[p].period, call[p].doc) \in ledger
             THEN "closed" ELSE "co_used")
  /\ UNCHANGED <<month, counter, packages, ledger, held, reset>>

ConsumeUsed(p) ==
  LET m == call[p].period
  IN  /\ call[p].pc = "co_used"
      /\ SetCounter(m, AddUsed(counter[m], 1))
      /\ Goto(p, "co_reserved")
      /\ UNCHANGED <<month, packages, ledger, held, reset>>

\* decrement_reserved has no floor; here the reservation stops being open
ConsumeReserved(p) ==
  LET m == call[p].period
  IN  /\ call[p].pc = "co_reserved"
      /\ SetCounter(m, AddReserved(counter[m], -1))
      /\ held' = held \ {<<call[p].doc, m>>}
      /\ Goto(p, IF call[p].addon THEN "co_package" ELSE "co_ledger")
      /\ UNCHANGED <<month, packages, ledger, reset>>

\* packages whose row another call has locked FOR UPDATE
LockedPackages == {call[q].pkg : q \in {q \in Callers : call[q].pc = "co_decrement"}}
\* get_oldest_active_package: paid, valid, remaining > 0, SKIP LOCKED
Eligible == {k \in Packages : Valid(k) /\ packages[k].remaining > 0} \ LockedPackages

\* the oldest package is locked until its row is decremented; with none to
\* be had the counter alone is debited, if it still shows addon credit
ConsumePackage(p) ==
  /\ call[p].pc = "co_package"
  /\ \/ /\ Eligible # {}
        /\ \E k \in Eligible :
             /\ \A j \in Eligible : k <= j
             /\ call' = [call EXCEPT ![p].pc = "co_decrement", ![p].pkg = k]
     \/ /\ Eligible = {}
        /\ Goto(p, IF counter[call[p].period].addon > 0 THEN "co_addon" ELSE "co_ledger")
  /\ UNCHANGED <<month, counter, packages, ledger, held, reset>>

\* a slip: the package is debited, the counter's credit is not
ConsumeDecrement_PackageOnly(p) ==
  /\ call[p].pc = "co_decrement"
  /\ packages' = [packages EXCEPT ![call[p].pkg].remaining = @ - 1]
  /\ Goto(p, "co_ledger")
  /\ UNCHANGED <<month, counter, ledger, held, reset>>

ConsumeDecrement(p) ==
  LET k == call[p].pkg
  IN  /\ call[p].pc = "co_decrement"
      /\ packages' = [packages EXCEPT ![k].remaining = IF @ > 0 THEN @ - 1 ELSE @]
      /\ Goto(p, "co_addon")
      /\ UNCHANGED <<month, counter, ledger, held, reset>>

ConsumeAddon(p) ==
  LET m == call[p].period
  IN  /\ call[p].pc = "co_addon"
      /\ SetCounter(m, AddAddon(counter[m], -1))
      /\ Goto(p, "co_ledger")
      /\ UNCHANGED <<month, packages, ledger, held, reset>>

ConsumeLedger(p) ==
  /\ call[p].pc = "co_ledger"
  /\ ledger' = ledger \cup {ConsumeKey(call[p].period, call[p].doc)}
  /\ Goto(p, "closed")
  /\ UNCHANGED <<month, counter, packages, held, reset>>

-----------------------------------------------------------------------------
(* release *)

\* a release recorded before, for this document and period, ends the call:
\* whatever reservation the document holds now is left in reserved_count
ReleaseCheck(p) ==
  LET done == ReleaseKey(call[p].period, call[p].doc) \in ledger
  IN  /\ call[p].pc = "rel_check"
      /\ Goto(p, IF done THEN "closed" ELSE "rel_reserved")
      /\ held' = IF done THEN held \ {<<call[p].doc, call[p].period>>} ELSE held
      /\ UNCHANGED <<month, counter, packages, ledger, reset>>

\* a slip: give back a used emission instead of the reservation
ReleaseReserved_WrongColumn(p) ==
  LET m == call[p].period
  IN  /\ call[p].pc = "rel_reserved"
      /\ SetCounter(m, AddUsed(counter[m], -1))
      /\ held' = held \ {<<call[p].doc, m>>}
      /\ Goto(p, "rel_ledger")
      /\ UNCHANGED <<month, packages, ledger, reset>>

ReleaseReserved(p) ==
  LET m == call[p].period
  IN  /\ call[p].pc = "rel_reserved"
      /\ SetCounter(m, AddReserved(counter[m], -1))
      /\ held' = held \ {<<call[p].doc, m>>}
      /\ Goto(p, "rel_ledger")
      /\ UNCHANGED <<month, packages, ledger, reset>>

ReleaseLedger(p) ==
  /\ call[p].pc = "rel_ledger"
  /\ ledger' = ledger \cup {ReleaseKey(call[p].period, call[p].doc)}
  /\ Goto(p, "closed")
  /\ UNCHANGED <<month, counter, packages, held, reset>>

-----------------------------------------------------------------------------
(* Packages and the monthly reset *)

\* activate_package and grant_credits end in one transaction: the package is
\* paid and add_addon_credits raises the current counter, creating it if need
\* be: for a grant with the plan's limit, for a payment, whose service has no
\* PlanAccessService, with none
Activate(k) ==
  \E included \in {0, Plan} :
    LET c == IF counter[month].exists THEN counter[month]
             ELSE [NewCounter EXCEPT !.included = included]
    IN  /\ packages[k].status = "none"
        /\ packages' = [packages EXCEPT ![k] =
                          [status |-> "paid", remaining |-> PackageSize, expired |-> FALSE]]
        /\ SetCounter(month, AddAddon(c, PackageSize))
        /\ UNCHANGED <<month, ledger, call, held, reset>>

Expire(k) ==
  /\ Valid(k)
  /\ packages' = [packages EXCEPT ![k].expired = TRUE]
  /\ UNCHANGED <<month, counter, ledger, call, held, reset>>

\* the first of the month: the reset is due at 00:05
TurnMonth ==
  /\ month + 1 \in Months /\ reset.pc = "idle"
  /\ month' = month + 1
  /\ reset' = [reset EXCEPT !.pc = "due"]
  /\ UNCHANGED <<counter, packages, ledger, call, held>>

ResetRead ==
  /\ reset.pc = "due"
  /\ reset' = [pc |-> "carried", carry |-> Remaining]
  /\ UNCHANGED <<month, counter, packages, ledger, call, held>>

\* upsert_counter: used and reserved start from zero, addon from the sum read
ResetWrite ==
  /\ reset.pc = "carried"
  /\ SetCounter(month, [NewCounter EXCEPT !.addon = reset.carry])
  /\ reset' = [reset EXCEPT !.pc = "idle"]
  /\ UNCHANGED <<month, packages, ledger, call, held>>

-----------------------------------------------------------------------------
QuotaStep(p) ==
  \/ ReserveRead(p) \/ ReserveLock(p)
  \/ ConsumeCheck(p) \/ ConsumeUsed(p) \/ ConsumeReserved(p)
  \/ ConsumePackage(p) \/ ConsumeDecrement(p) \/ ConsumeAddon(p) \/ ConsumeLedger(p)
  \/ ReleaseCheck(p) \/ ReleaseReserved(p) \/ ReleaseLedger(p)

=============================================================================
