------------------------- MODULE FiscalQuotaClients -------------------------
(***************************************************************************)
(* FiscalQuota under the calls its documentation expects: a document's     *)
(* emission reserves one unit, its outcome consumes or releases it, and    *)
(* the outcome may be reported again by a repeated job.  Packages are paid *)
(* and expire, the month turns, and the cron job resets the new period.    *)
(***************************************************************************)
EXTENDS FiscalQuota

CONSTANTS
  MaxTries, \* bound: reservations a document makes; above 1 a released
            \* document (REJECTED, then requested again) reserves anew
  MaxCrashes, \* bound: callers that die inside a call; their job comes again
  Faults    \* what the environment may do beyond the orderly protocol:
  \* "overlap"  two calls for the same document at the same time
  \* "expiry"   a package reaches valid_until
  \* "straddle" the month turns while reservations are open
  \* "early"    calls and payments arrive before the new period is reset

ASSUME ClientsAssumption ==
  /\ MaxTries \in Nat /\ MaxCrashes \in Nat
  /\ Faults \subseteq {"overlap", "expiry", "straddle", "early"}

VARIABLES
  job,    \* what the emission job of each document knows of its reservation
  crashes,  \* callers that have died so far
  adrift,   \* history: units gone from the packages that the counter of the
            \* month, since it was reset, is never charged with
  stranded  \* history: per period, reservations counted that nobody can close

vars == <<quotaVars, job, crashes, adrift, stranded>>

Job == [state : {"none", "open", "consumed", "released"},
        period : Months, addon : BOOLEAN, tries : Nat]

TypeOK ==
  /\ QuotaTypeOK
  /\ job \in [Docs -> Job]
  /\ crashes \in 0 .. MaxCrashes
  /\ adrift \in Nat /\ stranded \in [Months -> Nat]

Init ==
  /\ QuotaInit
  /\ job = [d \in Docs |-> [state |-> "none", period |-> 1, addon |-> FALSE, tries |-> 0]]
  /\ crashes = 0 /\ adrift = 0 /\ stranded = [m \in Months |-> 0]

\* consumes of this month that have debited a package and not yet the counter
InTransit ==
  {p \in Callers : call[p].pc = "co_addon" /\ call[p].pkg # 0 /\ call[p].period = month}

Busy(d) == \E q \in Callers : ~Idle(q) /\ call[q].doc = d
MayCall(d) == "overlap" \in Faults \/ ~Busy(d)
PeriodOpen == "early" \in Faults \/ reset.pc = "idle"

-----------------------------------------------------------------------------
(* Callers *)

AskReserve(p, d) ==
  /\ Idle(p) /\ MayCall(d) /\ PeriodOpen
  /\ job[d].state \in {"none", "released"} /\ job[d].tries < MaxTries
  /\ call' = [call EXCEPT ![p] = ReserveCall(d)]
  /\ UNCHANGED <<month, counter, packages, ledger, held, reset, job, crashes, adrift, stranded>>

\* the caller learns the outcome; period and consuming_addon go into the job
Granted(p) ==
  /\ call[p].pc = "granted"
  /\ job' = [job EXCEPT ![call[p].doc] =
               [state |-> "open", period |-> call[p].period,
                addon |-> call[p].addon, tries |-> @.tries + 1]]
  /\ EndCall(p)
  /\ UNCHANGED <<month, counter, packages, ledger, held, reset, crashes, adrift, stranded>>

Finished(p) ==
  /\ call[p].pc \in {"exceeded", "closed"}
  /\ EndCall(p)
  /\ UNCHANGED <<month, counter, packages, ledger, held, reset, job, crashes, adrift, stranded>>

\* the document was authorized; a repeated job reports it again
AskConsume(p, d) ==
  /\ Idle(p) /\ MayCall(d)
  /\ job[d].state \in {"open", "consumed"}
  /\ call' = [call EXCEPT ![p] = ConsumeCall(d, job[d].period, job[d].addon)]
  /\ job' = [job EXCEPT ![d].state = "consumed"]
  /\ UNCHANGED <<month, counter, packages, ledger, held, reset, crashes, adrift, stranded>>

\* the document was rejected, or given up
AskRelease(p, d) ==
  /\ Idle(p) /\ MayCall(d)
  /\ job[d].state \in {"open", "released"}
  /\ call' = [call EXCEPT ![p] = ReleaseCall(d, job[d].period)]
  /\ job' = [job EXCEPT ![d].state = "released"]
  /\ UNCHANGED <<month, counter, packages, ledger, held, reset, crashes, adrift, stranded>>

Crash(p) ==
  /\ crashes < MaxCrashes /\ ~Idle(p)
  /\ crashes' = crashes + 1
  /\ EndCall(p)
  /\ adrift' = IF p \in InTransit THEN adrift + 1 ELSE adrift
  /\ UNCHANGED <<month, counter, packages, ledger, held, reset, job, stranded>>

\* a unit taken from a package for a month that is over, or while the reset
\* runs, is adrift; a reservation is stranded when a second one is made for the
\* document, or when its release is taken for a repetition
Serve(p) ==
  LET asked == call[p]
      unit == <<asked.doc, asked.period>>
      astray == asked.pc = "co_decrement" /\ (asked.period # month \/ reset.pc # "idle")
      kept == \/ asked.pc = "res_lock" /\ call'[p].pc = "granted" /\ unit \in held
              \/ asked.pc = "rel_check" /\ unit \in held /\ unit \notin held'
  IN  /\ QuotaStep(p)
      /\ adrift' = IF astray THEN adrift + 1 ELSE adrift
      /\ stranded' = [stranded EXCEPT ![asked.period] = IF kept THEN @ + 1 ELSE @]
      /\ UNCHANGED <<job, crashes>>

-----------------------------------------------------------------------------
(* Packages and the calendar *)

Pay(k) == PeriodOpen /\ Activate(k) /\ UNCHANGED <<job, crashes, adrift, stranded>>
Lapse(k) ==
  /\ "expiry" \in Faults /\ Expire(k) /\ adrift' = adrift + packages[k].remaining
  /\ UNCHANGED <<job, crashes, stranded>>

NextMonth ==
  /\ \/ "straddle" \in Faults
     \/ /\ \A p \in Callers : Idle(p)
        /\ \A d \in Docs : job[d].state # "open"
  /\ TurnMonth
  /\ UNCHANGED <<job, crashes, adrift, stranded>>

\* the sum it reads knows of everything that was taken before
ResetQuota ==
  /\ \/ ResetRead /\ adrift' = 0
     \/ ResetWrite /\ adrift' = adrift
  /\ UNCHANGED <<job, crashes, stranded>>

Next ==
  \/ \E p \in Callers :
       \/ Serve(p) \/ Granted(p) \/ Finished(p) \/ Crash(p)
       \/ \E d \in Docs : AskReserve(p, d) \/ AskConsume(p, d) \/ AskRelease(p, d)
  \/ \E k \in Packages : Pay(k) \/ Lapse(k)
  \/ NextMonth \/ ResetQuota

Spec == Init /\ [][Next]_vars

-----------------------------------------------------------------------------
(* Properties *)

OpenIn(m) == {d \in Docs : <<d, m>> \in held}
AtRest == \A p \in Callers : Idle(p)

\* Every open reservation is counted: reserved_count never falls below the
\* documents that still hold a unit, so no unit is promised twice.
ReservationsBacked ==
  \A m \in Months : counter[m].reserved >= Cardinality(OpenIn(m))

\* release() gives the unit back ("Libera reserva quando a emissao falha"):
\* reserved_count holds nothing beyond the open reservations, whatever overlaps
\* and dies, but for those made twice or whose release is taken for a repetition.
ReservationsReturned ==
  \A m \in Months : counter[m].reserved <= Cardinality(OpenIn(m)) + stranded[m]

\* consumes that have counted the emission but not yet dropped its reservation
Swapping(m) == {p \in Callers : call[p].pc = "co_reserved" /\ call[p].period = m}

\* An owner without credits never has more emissions used and reserved than
\* the plan includes, whatever the interleaving of the two availability tests.
PlanRespected ==
  (\A k \in Packages : packages[k].status = "none") =>
    \A m \in Months :
      counter[m].used + counter[m].reserved - Cardinality(Swapping(m)) <= Plan

\* consumes that have counted the emission but not yet recorded it
Unrecorded(m) ==
  {p \in Callers : /\ call[p].pc \in {"co_reserved", "co_package", "co_decrement",
                                      "co_addon", "co_ledger"}
                   /\ call[p].period = m}

\* consume() is idempotent: used_count is the number of documents with a
\* consume entry, apart from the calls still under way.
UsedOncePerDocument ==
  \A m \in Months :
    counter[m].used =
      Cardinality({d \in Docs : ConsumeKey(m, d) \in ledger}) + Cardinality(Unrecorded(m))

\* Crashes and overlapping calls may count an emission twice, never zero times:
\* what the ledger records as consumed is in used_count.
NeverUncounted ==
  \A m \in Months :
    counter[m].used >= Cardinality({d \in Docs : ConsumeKey(m, d) \in ledger})

\* No credit is made up: whatever concurrent consumes, which SKIP LOCKED keeps
\* from each other's packages, payments that fall between the reading and the
\* writing of the reset, and crashes do, the counter shows no more credit than the
\* paid packages hold, but for units in transit and those that went adrift.  That
\* it shows no less is false: such a consume or payment is lost to the owner.
CreditsBacked ==
  reset.pc = "idle" => counter[month].addon <= Remaining + Cardinality(InTransit) + adrift

\* No more emissions are paid for by credit than credit was ever bought.
CreditsNotOverdrawn ==
  Cardinality({u \in Months \X (1 .. Cardinality(Docs)) : Plan + u[2] <= counter[u[1]].used})
    <= PackageSize * Cardinality({k \in Packages : packages[k].status = "paid"})

-----------------------------------------------------------------------------
(* Why ReservationsBacked holds as long as the calls for a document are     *)
(* serial, none dies half way, and none arrives before the reset: the       *)
(* inductive invariant.                                                     *)

Serial ==
  \A p, q \in Callers :
    p # q /\ ~Idle(p) /\ ~Idle(q) => call[p].doc # call[q].doc

\* a counter that does not exist holds nothing
Rows == \A m \in Months : ~counter[m].exists => counter[m] = NoCounter

\* a job that nobody serves knows the truth about its reservation
Settled(d) ==
  /\ job[d].state = "open"     => <<d, job[d].period>> \in held
  /\ job[d].state = "consumed" => ConsumeKey(job[d].period, d) \in ledger
  /\ job[d].state = "released" => ReleaseKey(job[d].period, d) \in ledger

\* each step of a call relies on what the job and the ledger say: a unit is
\* taken off reserved_count only by a call whose document still holds it
CallSound(p) ==
  LET pc == call[p].pc
      d == call[p].doc
      m == call[p].period
      key == \/ job[d].state = "consumed" /\ ConsumeKey(job[d].period, d) \in ledger
             \/ job[d].state = "released" /\ ReleaseKey(job[d].period, d) \in ledger
  IN  /\ pc \in ReserveSteps \cup {"exceeded"} => job[d].state = "none" \/ key
      /\ pc = "granted" => <<d, m>> \in held
      /\ pc = "closed" => key
      /\ pc \in ConsumeSteps => job[d].state = "consumed" /\ m = job[d].period
      /\ pc = "co_check" => <<d, m>> \in held \/ ConsumeKey(m, d) \in ledger
      /\ pc \in {"co_used", "co_reserved"} => <<d, m>> \in held
      /\ pc \in ReleaseSteps => job[d].state = "released" /\ m = job[d].period
      /\ pc = "rel_check" => <<d, m>> \in held \/ ReleaseKey(m, d) \in ledger
      /\ pc = "rel_reserved" => <<d, m>> \in held

\* nothing is reserved in a period the cron job has still to reset
Elapsed(m) == m <= month /\ (reset.pc # "idle" => m < month)
Calendar ==
  /\ \A h \in held : Elapsed(h[2])
  /\ \A p \in Callers : ~Idle(p) /\ call[p].pc \in ReserveSteps => Elapsed(call[p].period)

\* Between and within calls, the jobs, the calls in flight, the ledger and the
\* counters agree on which documents hold a unit.
BooksAgree ==
  /\ Serial /\ Rows /\ Calendar
  /\ \A d \in Docs : Busy(d) \/ Settled(d)
  /\ \A p \in Callers : ~Idle(p) => CallSound(p)
  /\ ReservationsBacked

=============================================================================
