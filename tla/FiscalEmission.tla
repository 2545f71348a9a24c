--------------------------- MODULE FiscalEmission ---------------------------
(***************************************************************************)
(* The emission of NFC-e documents, one per sale: FiscalEmissionService    *)
(* behind the API, emit_nfce_job and reconcile_nfce_job on the ARQ worker, *)
(* FiscalReconciliationService, the cancel and reprocess routes, and the   *)
(* Neectify provider outside.  The quota service is FiscalQuota; each of   *)
(* its calls is a sequence of commits that interleaves with everything.    *)
(*                                                                         *)
(* doc_repo.save writes the whole row from the caller's copy and commits,  *)
(* so a handler is: read the row, await something, overwrite the row.      *)
(***************************************************************************)
EXTENDS FiscalQuota, Sequences

CONSTANTS
  Requests,     \* API coroutines
  Workers,      \* ARQ job coroutines (FISCAL_WORKER_CONCURRENCY)
  MaxConsults,  \* _MAX_ATTEMPTS of the reconciliation service
  MaxEmissions, \* bound: emission jobs enqueued per document
  MaxCrashes,   \* bound: processes that die (below max_tries, so jobs return)
  Retriable,    \* statuses in which operators ask for an emission again
  Answers,      \* what the provider may answer to POST /v1/nfce
  Env           \* what else may happen:
  \* "in_flight"   requests for a document with work under way
  \* "payload"     a stored or rebuilt payload fails validation
  \* "reprocess"   the back office uses the reprocess route
  \* "cancel"      the cancel route is used
  \* "unreachable" a consult fails or does not find the document
  \* "redis"       an emission job cannot be enqueued
  \* "month"       the month turns
  \* "credits"     credit packages are paid

ASSUME EmissionAssumption ==
  /\ Callers = Requests \cup Workers /\ Requests \cap Workers = {}
  /\ MaxConsults \in Nat \ {0} /\ MaxEmissions \in Nat /\ MaxCrashes \in Nat
  /\ Answers \subseteq {"accepted", "lost", "down", "unauthorized", "invalid",
                        "authorized", "canceled"}

VARIABLES
  doc,       \* fiscal_documents: status and provider_ref of each row
  consults,  \* fiscal_attempts with operation "consult"
  notes,     \* the provider's documents, in order of creation
  jobs,      \* ARQ jobs enqueued and not finished
  hops,      \* job ids reconcile:{doc}:{n} ARQ has seen
  emissions, \* emission jobs enqueued so far
  act,       \* the handler each coroutine is running, with its local copies
  crashes

emissionVars == <<doc, consults, notes, jobs, hops, emissions, act, crashes>>
vars == <<quotaVars, doc, consults, notes, jobs, hops, emissions, act, crashes>>

-----------------------------------------------------------------------------
(* Documents *)

Terminal == {"authorized", "rejected", "canceled", "manual_action"}   \* is_terminal
Status == Terminal \cup {"absent", "queued", "processing", "provider_error",
                         "offline_receipt"}

\* provider_ref: 0 is marketfy-{market}-{sale}; n is the id of the n-th note,
\* written over it when the provider accepts.  It is the Idempotency-Key.
Refs == 0 .. MaxEmissions + MaxCrashes
Row == [status : Status, ref : Refs]
NoRow == [status |-> "absent", ref |-> 0]

Note == [key : Refs, status : {"processing", "authorized", "rejected", "canceled"}]

EmitJob(d, n, m, ad) ==
  [fn |-> "emit", doc |-> d, n |-> n, hop |-> 0, period |-> m, addon |-> ad]
ReconcileJob(d, n, hop, m, ad) ==
  [fn |-> "reconcile", doc |-> d, n |-> n, hop |-> hop, period |-> m, addon |-> ad]
Job == [fn : {"emit", "reconcile"}, doc : Docs, n : 0 .. MaxEmissions,
        hop : 0 .. MaxConsults, period : Months, addon : BOOLEAN]

NoJob == [fn |-> "none"]

RequestSteps == {"rq_create", "rq_manual", "rq_reject", "rq_requeue", "rq_reserving",
                 "rq_offline", "rq_enqueue", "rp_save", "rp_read", "rp_requeue", "cn_call", "cn_save"}
WorkerSteps == {"em_manual", "em_reject", "em_save", "em_post", "em_result", "em_enqueue",
                "rc_manual", "rc_consult", "rc_save", "rc_enqueue", "closing"}

\* a handler: its next step, its copy of the row and what it has learnt
Act == [pc : RequestSteps \cup WorkerSteps, doc : Docs, row : Row,
        period : Months, addon : BOOLEAN,
        result : {"none", "notfound", "processing", "authorized", "rejected", "canceled"}
                 \cup Answers,
        ref : Refs, job : Job \cup {NoJob}]
NoAct == [pc |-> "idle"]

Free(p) == act[p] = NoAct
Begin(pc, d, j) ==
  [pc |-> pc, doc |-> d, row |-> doc[d], period |-> month, addon |-> FALSE,
   result |-> "none", ref |-> 0, job |-> j]
Step(p, pc) == act' = [act EXCEPT ![p].pc = pc]
Leave(p) == act' = [act EXCEPT ![p] = NoAct]

\* doc_repo.save: the caller's whole copy, with its new status
Save(p, status) == doc' = [doc EXCEPT ![act[p].doc] = [act[p].row EXCEPT !.status = status]]
SaveRef(p, status, ref) ==
  doc' = [doc EXCEPT ![act[p].doc] = [act[p].row EXCEPT !.status = status, !.ref = ref]]

\* nothing is enqueued or running for the document
Quiet(d) == /\ \A j \in jobs : j.doc # d
            /\ \A p \in Callers : ~Free(p) => act[p].doc # d
MayAsk(d) == "in_flight" \in Env \/ Quiet(d)

TypeOK ==
  /\ QuotaTypeOK
  /\ doc \in [Docs -> Row]
  /\ consults \in [Docs -> 0 .. MaxConsults + Cardinality(Workers)]
  /\ \A d \in Docs : /\ DOMAIN notes[d] \subseteq Refs \ {0}
                     /\ \A i \in DOMAIN notes[d] : notes[d][i] \in Note
  /\ jobs \subseteq Job
  /\ hops \subseteq Docs \X (1 .. MaxConsults)
  /\ emissions \in [Docs -> 0 .. MaxEmissions]
  /\ act \in [Callers -> Act \cup {NoAct}]
  /\ crashes \in 0 .. MaxCrashes

Init ==
  /\ QuotaInit
  /\ doc = [d \in Docs |-> NoRow]
  /\ consults = [d \in Docs |-> 0]
  /\ notes = [d \in Docs |-> <<>>]
  /\ jobs = {} /\ hops = {}
  /\ emissions = [d \in Docs |-> 0]
  /\ act = [p \in Callers |-> NoAct]
  /\ crashes = 0

-----------------------------------------------------------------------------
(* request_emission *)

Asking(d) == {r \in Requests : ~Free(r) /\ act[r].doc = d}

\* a slip: an authorized document may be queued again
RequestStart_AnyStatus(r, d) ==
  /\ Free(r) /\ MayAsk(d)
  /\ emissions[d] + Cardinality(Asking(d)) < MaxEmissions
  /\ doc[d].status \in Retriable \cup {"absent"}
  /\ act' = [act EXCEPT ![r] =
               Begin(IF doc[d].status = "absent" THEN "rq_create" ELSE "rq_requeue", d, NoJob)]
  /\ UNCHANGED <<quotaVars, doc, consults, notes, jobs, hops, emissions, crashes>>

\* reads the row: a sale without a document gets one, an authorized or
\* canceled document is returned as it is, any other may be queued again
RequestStart(r, d) ==
  /\ Free(r) /\ MayAsk(d)
  /\ emissions[d] + Cardinality(Asking(d)) < MaxEmissions
  /\ doc[d].status \in Retriable \cup {"absent"}
  /\ doc[d].status \notin {"authorized", "canceled"}
  /\ \E pc \in IF doc[d].status = "absent" THEN {"rq_create"}
                ELSE {"rq_requeue"} \cup
                     (IF "payload" \in Env THEN {"rq_manual", "rq_reject"} ELSE {}) :
       act' = [act EXCEPT ![r] = Begin(pc, d, NoJob)]
  /\ UNCHANGED <<quotaVars, doc, consults, notes, jobs, hops, emissions, crashes>>

\* the new row; a sale that got one meanwhile fails on the unique key.  A sale
\* that does not pass pre-validation is stored as rejected, with no reservation
RequestCreate(r) ==
  /\ act[r].pc = "rq_create"
  /\ \/ /\ doc[act[r].doc].status # "absent"
        /\ Leave(r) /\ UNCHANGED <<doc, call>>
     \/ /\ doc[act[r].doc].status = "absent"
        /\ Save(r, "queued")
        /\ call' = [call EXCEPT ![r] = ReserveCall(act[r].doc)]
        /\ act' = [act EXCEPT ![r].pc = "rq_reserving", ![r].row.status = "queued",
                               ![r].period = month]
     \/ /\ doc[act[r].doc].status = "absent" /\ "payload" \in Env
        /\ Save(r, "rejected")
        /\ Leave(r) /\ UNCHANGED call
  /\ UNCHANGED <<month, counter, packages, ledger, reset, held,
                 consults, notes, jobs, hops, emissions, crashes>>

\* block mode without persisted payload, or a sale that no longer validates
RequestRefused(r) ==
  /\ act[r].pc \in {"rq_manual", "rq_reject"}
  /\ Save(r, IF act[r].pc = "rq_manual" THEN "manual_action" ELSE "rejected")
  /\ Leave(r)
  /\ UNCHANGED <<quotaVars, consults, notes, jobs, hops, emissions, crashes>>

\* a slip: the reservation of a rejected document is taken to be held
Reserved_Rejected == {"queued", "processing", "provider_error", "rejected"}

\* statuses whose reservation request_emission takes to be still held;
\* reprocess_document leaves PROCESSING out of its own list
Reserved == {"queued", "processing", "provider_error"}
ReservedByService == {"queued", "provider_error"}

\* status QUEUED is saved, then the quota is reserved if the old status
\* says it is not
Requeue(r, reserved) ==
  /\ Save(r, "queued")
  /\ IF act[r].row.status \in reserved
     THEN /\ act' = [act EXCEPT ![r].pc = "rq_enqueue", ![r].row.status = "queued",
                                ![r].period = month]
          /\ UNCHANGED call
     ELSE /\ act' = [act EXCEPT ![r].pc = "rq_reserving", ![r].row.status = "queued",
                                ![r].period = month]
          /\ call' = [call EXCEPT ![r] = ReserveCall(act[r].doc)]

RequestRequeue(r) ==
  /\ act[r].pc = "rq_requeue"
  /\ Requeue(r, Reserved)
  /\ UNCHANGED <<month, counter, packages, ledger, reset, held,
                 consults, notes, jobs, hops, emissions, crashes>>

RequestReserved(r) ==
  /\ act[r].pc = "rq_reserving" /\ call[r].pc \in {"granted", "exceeded"}
  /\ act' = [act EXCEPT ![r].pc = IF call[r].pc = "granted" THEN "rq_enqueue" ELSE "rq_offline",
                         ![r].addon = call[r].pc = "granted" /\ call[r].addon]
  /\ EndCall(r)
  /\ UNCHANGED <<month, counter, packages, ledger, reset, held,
                 doc, consults, notes, jobs, hops, emissions, crashes>>

\* FiscalQuotaExceededError: the sale leaves with an offline receipt
RequestOffline(r) ==
  /\ act[r].pc = "rq_offline"
  /\ Save(r, "offline_receipt")
  /\ Leave(r)
  /\ UNCHANGED <<quotaVars, consults, notes, jobs, hops, emissions, crashes>>

\* _enqueue_emit; a Redis failure leaves the row QUEUED with no job
RequestEnqueue(r) ==
  LET d == act[r].doc
      n == emissions[d] + 1
  IN  /\ act[r].pc = "rq_enqueue"
      /\ \/ /\ jobs' = jobs \cup {EmitJob(d, n, act[r].period, act[r].addon)}
            /\ emissions' = [emissions EXCEPT ![d] = n]
         \/ "redis" \in Env /\ UNCHANGED <<jobs, emissions>>
      /\ Leave(r)
      /\ UNCHANGED <<quotaVars, doc, consults, notes, hops, crashes>>

-----------------------------------------------------------------------------
(* The reprocess and cancel routes *)

ReprocessStart(r, d) ==
  /\ "reprocess" \in Env /\ Free(r) /\ MayAsk(d)
  /\ emissions[d] + Cardinality(Asking(d)) < MaxEmissions
  /\ doc[d].status \in Retriable
  /\ doc[d].status \in (Status \ Terminal) \cup {"rejected"}
  /\ act' = [act EXCEPT ![r] = Begin("rp_save", d, NoJob)]
  /\ UNCHANGED <<quotaVars, doc, consults, notes, jobs, hops, emissions, crashes>>

\* the route saves QUEUED before it looks for Redis and calls the service
ReprocessSave(r) ==
  /\ act[r].pc = "rp_save"
  /\ Save(r, "queued")
  /\ \/ Step(r, "rp_read")
     \/ "redis" \in Env /\ Leave(r)
  /\ UNCHANGED <<quotaVars, consults, notes, jobs, hops, emissions, crashes>>

\* reprocess_document reads the row again and refuses a terminal one
ReprocessRead(r) ==
  LET row == doc[act[r].doc]
  IN  /\ act[r].pc = "rp_read"
      /\ IF row.status \in Terminal \ {"rejected"}
         THEN Leave(r)
         ELSE act' = [act EXCEPT ![r].pc = "rp_requeue", ![r].row = row]
      /\ UNCHANGED <<quotaVars, doc, consults, notes, jobs, hops, emissions, crashes>>

ReprocessRequeue(r) ==
  /\ act[r].pc = "rp_requeue"
  /\ Requeue(r, ReservedByService)
  /\ UNCHANGED <<month, counter, packages, ledger, reset, held,
                 consults, notes, jobs, hops, emissions, crashes>>

CancelStart(r, d) ==
  /\ "cancel" \in Env /\ Free(r) /\ MayAsk(d)
  /\ doc[d].status = "authorized"
  /\ act' = [act EXCEPT ![r] = Begin("cn_call", d, NoJob)]
  /\ UNCHANGED <<quotaVars, doc, consults, notes, jobs, hops, emissions, crashes>>

\* notes a reference may denote at the provider; whether it resolves the
\* Marketfy reference as well as its own ids is its affair
Lookup(d, ref) ==
  IF ref > 0 THEN {ref} ELSE {i \in DOMAIN notes[d] : notes[d][i].key = 0}

CancelCall(r) ==
  LET d == act[r].doc
  IN  /\ act[r].pc = "cn_call"
      /\ \/ \E i \in Lookup(d, act[r].row.ref) :
              /\ notes[d][i].status = "authorized"
              /\ notes' = [notes EXCEPT ![d][i].status = "canceled"]
              /\ Step(r, "cn_save")
         \/ Leave(r) /\ UNCHANGED notes
      /\ UNCHANGED <<quotaVars, doc, consults, jobs, hops, emissions, crashes>>

CancelSave(r) ==
  /\ act[r].pc = "cn_save"
  /\ Save(r, "canceled")
  /\ Leave(r)
  /\ UNCHANGED <<quotaVars, consults, notes, jobs, hops, emissions, crashes>>

-----------------------------------------------------------------------------
(* emit_nfce_job *)

Taken(j) == \E w \in Workers : ~Free(w) /\ act[w].job = j
Finish(w) == Leave(w) /\ jobs' = jobs \ {act[w].job}

\* a terminal document ends the job at once
EmitStart(w, j) ==
  /\ Free(w) /\ j \in jobs /\ ~Taken(j) /\ j.fn = "emit"
  /\ \/ /\ doc[j.doc].status \in Terminal
        /\ jobs' = jobs \ {j} /\ UNCHANGED act
     \/ /\ doc[j.doc].status \notin Terminal
        /\ \E pc \in {"em_save"} \cup
                     (IF "payload" \in Env THEN {"em_manual", "em_reject"} ELSE {}) :
             act' = [act EXCEPT ![w] = Begin(pc, j.doc, j)]
        /\ UNCHANGED jobs
  /\ UNCHANGED <<quotaVars, doc, consults, notes, hops, emissions, crashes>>

\* _select_persisted_payload_for_emission found it missing or altered
EmitManual(w) ==
  /\ act[w].pc = "em_manual"
  /\ Save(w, "manual_action")
  /\ Finish(w)
  /\ UNCHANGED <<quotaVars, consults, notes, hops, emissions, crashes>>

Close(w, c) ==
  /\ call' = [call EXCEPT ![w] = c]
  /\ Step(w, "closing")

\* block_invalid_tax_snapshot: rejected, and the reservation is released
EmitReject(w) ==
  /\ act[w].pc = "em_reject"
  /\ Save(w, "rejected")
  /\ Close(w, ReleaseCall(act[w].doc, act[w].job.period))
  /\ UNCHANGED <<month, counter, packages, ledger, reset, held,
                 consults, notes, jobs, hops, emissions, crashes>>

EmitSave(w) ==
  /\ act[w].pc = "em_save"
  /\ Save(w, "processing")
  /\ act' = [act EXCEPT ![w].pc = "em_post", ![w].row.status = "processing"]
  /\ UNCHANGED <<quotaVars, consults, notes, jobs, hops, emissions, crashes>>

\* POST /v1/nfce with Idempotency-Key = provider_ref: a key seen before
\* answers with the note it created
Keyed(d, key) == {i \in DOMAIN notes[d] : notes[d][i].key = key}
NotesAfter(d, key, status) ==
  IF Keyed(d, key) # {} THEN notes
  ELSE [notes EXCEPT ![d] = Append(@, [key |-> key, status |-> status])]

EmitPost(w) ==
  LET d == act[w].doc
      key == act[w].row.ref
  IN  /\ act[w].pc = "em_post"
      /\ \E answer \in Answers :
           /\ CASE answer \in {"accepted", "lost"}       -> notes' = NotesAfter(d, key, "processing")
                [] answer \in {"authorized", "canceled"} -> notes' = NotesAfter(d, key, answer)
                [] answer = "invalid" -> Keyed(d, key) = {} /\ UNCHANGED notes
                [] OTHER              -> UNCHANGED notes
           /\ act' = [act EXCEPT
                ![w].pc = "em_result", ![w].result = answer,
                ![w].ref = IF answer # "accepted" THEN key
                           ELSE IF Keyed(d, key) # {} THEN CHOOSE i \in Keyed(d, key) : TRUE
                           ELSE Len(notes[d]) + 1]
      /\ UNCHANGED <<quotaVars, doc, consults, jobs, hops, emissions, crashes>>

\* a slip: the answer to a refused request is taken for an authorization
EmitResult_AlwaysAuthorizes(w) ==
  LET a == act[w]
  IN  /\ a.pc = "em_result"
      /\ Save(w, "authorized")
      /\ Close(w, ConsumeCall(a.doc, a.job.period, a.job.addon))
      /\ UNCHANGED <<month, counter, packages, ledger, reset, held,
                     consults, notes, jobs, hops, emissions, crashes>>

\* the answer is stored; a final one closes the reservation, a 202 or a
\* recoverable error leaves the rest to the reconcile job
EmitResult(w) ==
  LET a == act[w]
  IN  /\ a.pc = "em_result"
      /\ \/ /\ a.result = "authorized"
            /\ Save(w, "authorized")
            /\ Close(w, ConsumeCall(a.doc, a.job.period, a.job.addon))
            /\ UNCHANGED jobs
         \/ /\ a.result \in {"invalid", "canceled"}
            /\ Save(w, "rejected")
            /\ Close(w, ReleaseCall(a.doc, a.job.period))
            /\ UNCHANGED jobs
         \/ /\ a.result = "accepted"
            /\ SaveRef(w, "processing", a.ref)
            /\ Step(w, "em_enqueue") /\ UNCHANGED <<call, jobs>>
         \/ /\ a.result \in {"lost", "down"}
            /\ Save(w, "provider_error")
            /\ Step(w, "em_enqueue") /\ UNCHANGED <<call, jobs>>
         \/ /\ a.result = "unauthorized"
            /\ Save(w, "provider_error")
            /\ Finish(w) /\ UNCHANGED call
      /\ UNCHANGED <<month, counter, packages, ledger, reset, held,
                     consults, notes, hops, emissions, crashes>>

EmitEnqueue(w) ==
  LET j == act[w].job
  IN  /\ act[w].pc = "em_enqueue"
      /\ jobs' = (jobs \ {j}) \cup {ReconcileJob(j.doc, j.n, 0, j.period, j.addon)}
      /\ Leave(w)
      /\ UNCHANGED <<quotaVars, doc, consults, notes, hops, emissions, crashes>>

-----------------------------------------------------------------------------
(* reconcile_nfce_job and FiscalReconciliationService.reconcile_document *)

\* a slip: only an authorized document closes its reservation
Finalize_AuthorizedOnly(w, status, j) ==
  IF status = "authorized"
  THEN /\ call' = [call EXCEPT ![w] = ConsumeCall(j.doc, j.period, j.addon)]
       /\ act' = [act EXCEPT ![w] = Begin("closing", j.doc, j)]
       /\ UNCHANGED jobs
  ELSE jobs' = jobs \ {j} /\ Leave(w) /\ UNCHANGED call

\* a slip: whatever is final is charged
Finalize_ChargesRejected(w, status, j) ==
  /\ call' = [call EXCEPT ![w] = ConsumeCall(j.doc, j.period, j.addon)]
  /\ act' = [act EXCEPT ![w] = Begin("closing", j.doc, j)]
  /\ UNCHANGED jobs

\* _finalize_reconciled_quota, for the status the job has just seen or saved
Finalize(w, status, j) ==
  \/ /\ status = "authorized"
     /\ call' = [call EXCEPT ![w] = ConsumeCall(j.doc, j.period, j.addon)]
     /\ act' = [act EXCEPT ![w] = [Begin("closing", j.doc, j) EXCEPT !.row.status = status]]
     /\ UNCHANGED jobs
  \/ /\ status \in {"rejected", "manual_action"}
     /\ call' = [call EXCEPT ![w] = ReleaseCall(j.doc, j.period)]
     /\ act' = [act EXCEPT ![w] = [Begin("closing", j.doc, j) EXCEPT !.row.status = status]]
     /\ UNCHANGED jobs
  \/ /\ status = "canceled"
     /\ jobs' = jobs \ {j} /\ Leave(w) /\ UNCHANGED call

ReconcileStart(w, j) ==
  /\ Free(w) /\ j \in jobs /\ ~Taken(j) /\ j.fn = "reconcile"
  /\ \/ /\ doc[j.doc].status \in Terminal
        /\ Finalize(w, doc[j.doc].status, j)
     \/ /\ doc[j.doc].status \notin Terminal
        /\ act' = [act EXCEPT ![w] =
              Begin(IF consults[j.doc] >= MaxConsults THEN "rc_manual" ELSE "rc_consult", j.doc, j)]
        /\ UNCHANGED <<call, jobs>>
  /\ UNCHANGED <<month, counter, packages, ledger, reset, held,
                 doc, consults, notes, hops, emissions, crashes>>

\* the circuit breaker
ReconcileManual(w) ==
  /\ act[w].pc = "rc_manual"
  /\ Save(w, "manual_action")
  /\ Finalize(w, "manual_action", act[w].job)
  /\ UNCHANGED <<month, counter, packages, ledger, reset, held,
                 consults, notes, hops, emissions, crashes>>

\* GET /v1/nfce/{provider_ref} and the attempt that records it
ReconcileConsult(w) ==
  LET d == act[w].doc
      found == {notes[d][i].status : i \in Lookup(d, act[w].row.ref)}
  IN  /\ act[w].pc = "rc_consult"
      /\ \E answer \in found \cup (IF "unreachable" \in Env \/ act[w].row.ref = 0
                                   THEN {"notfound"} ELSE {}) :
           act' = [act EXCEPT ![w].pc = "rc_save", ![w].result = answer]
      /\ consults' = [consults EXCEPT ![d] = @ + 1]
      /\ UNCHANGED <<quotaVars, doc, notes, jobs, hops, emissions, crashes>>

\* a slip: a note the provider does not find was not accepted
ReconcileSave_NotFoundRejects(w) ==
  LET a == act[w]
      status == IF a.result \in {"notfound", "canceled"} THEN "rejected" ELSE a.result
  IN  /\ a.pc = "rc_save"
      /\ Save(w, status)
      /\ \/ status \in Terminal /\ Finalize(w, status, a.job)
         \/ status \notin Terminal /\ Step(w, "rc_enqueue") /\ UNCHANGED <<call, jobs>>
      /\ UNCHANGED <<month, counter, packages, ledger, reset, held,
                     consults, notes, hops, emissions, crashes>>

ReconcileSave(w) ==
  LET a == act[w]
      status == CASE a.result = "notfound" -> a.row.status
                  [] a.result = "canceled" -> "rejected"
                  [] OTHER                 -> a.result
  IN  /\ a.pc = "rc_save"
      /\ Save(w, status)
      /\ \/ status \in Terminal /\ Finalize(w, status, a.job)
         \/ status \notin Terminal /\ Step(w, "rc_enqueue") /\ UNCHANGED <<call, jobs>>
      /\ UNCHANGED <<month, counter, packages, ledger, reset, held,
                     consults, notes, hops, emissions, crashes>>

\* a slip: < in place of <=
ReconcileEnqueue_OneShort(w) ==
  LET j == act[w].job
      n == consults[j.doc]
  IN  /\ act[w].pc = "rc_enqueue"
      /\ IF n < MaxConsults
         THEN /\ jobs' = (jobs \ {j}) \cup {ReconcileJob(j.doc, j.n, n, j.period, j.addon)}
              /\ hops' = hops \cup {<<j.doc, n>>}
         ELSE jobs' = jobs \ {j} /\ UNCHANGED hops
      /\ Leave(w)
      /\ UNCHANGED <<quotaVars, doc, consults, notes, emissions, crashes>>

\* the next consult, under the job id reconcile:{doc}:{consults}, which ARQ
\* accepts once; <= lets the last job reach the circuit breaker
ReconcileEnqueue(w) ==
  LET j == act[w].job
      d == act[w].doc
      n == consults[d]
      next == ReconcileJob(d, j.n, n, j.period, j.addon)
  IN  /\ act[w].pc = "rc_enqueue"
      /\ IF n <= MaxConsults /\ <<d, n>> \notin hops
         THEN /\ jobs' = (jobs \ {j}) \cup {next}
              /\ hops' = hops \cup {<<d, n>>}
         ELSE /\ jobs' = jobs \ {j}
              /\ UNCHANGED hops
      /\ Leave(w)
      /\ UNCHANGED <<quotaVars, doc, consults, notes, emissions, crashes>>

\* consume or release has returned
Closed(w) ==
  /\ act[w].pc = "closing" /\ call[w].pc = "closed"
  /\ EndCall(w)
  /\ Finish(w)
  /\ UNCHANGED <<month, counter, packages, ledger, reset, held,
                 doc, consults, notes, hops, emissions, crashes>>

-----------------------------------------------------------------------------
(* Everything around *)

SefazDecides(d) ==
  /\ \E i \in DOMAIN notes[d], verdict \in {"authorized", "rejected", "canceled"} :
       /\ notes[d][i].status = "processing"
       /\ notes' = [notes EXCEPT ![d][i].status = verdict]
  /\ UNCHANGED <<quotaVars, doc, consults, jobs, hops, emissions, act, crashes>>

\* the process dies; a request is gone, an ARQ job will be delivered again
Crash(p) ==
  /\ crashes < MaxCrashes /\ ~Free(p)
  /\ crashes' = crashes + 1
  /\ Leave(p) /\ EndCall(p)
  /\ UNCHANGED <<month, counter, packages, ledger, reset, held,
                 doc, consults, notes, jobs, hops, emissions>>

Serve(p) == QuotaStep(p) /\ UNCHANGED emissionVars

Surroundings ==
  /\ \/ "month" \in Env /\ (TurnMonth \/ ResetRead \/ ResetWrite)
     \/ "credits" \in Env /\ \E k \in Packages : Activate(k)
  /\ UNCHANGED emissionVars

RequestStep(r) ==
  \/ RequestCreate(r) \/ RequestRefused(r) \/ RequestRequeue(r) \/ RequestReserved(r)
  \/ RequestOffline(r) \/ RequestEnqueue(r)
  \/ ReprocessSave(r) \/ ReprocessRead(r) \/ ReprocessRequeue(r)
  \/ CancelCall(r) \/ CancelSave(r)

WorkerStep(w) ==
  \/ EmitManual(w) \/ EmitReject(w) \/ EmitSave(w) \/ EmitPost(w) \/ EmitResult(w)
  \/ EmitEnqueue(w)
  \/ ReconcileManual(w) \/ ReconcileConsult(w) \/ ReconcileSave(w) \/ ReconcileEnqueue(w)
  \/ Closed(w)
  \/ \E j \in jobs : EmitStart(w, j) \/ ReconcileStart(w, j)

Next ==
  \/ \E r \in Requests, d \in Docs :
       RequestStart(r, d) \/ ReprocessStart(r, d) \/ CancelStart(r, d)
  \/ \E r \in Requests : RequestStep(r)
  \/ \E w \in Workers : WorkerStep(w)
  \/ \E p \in Callers : Serve(p) \/ Crash(p)
  \/ \E d \in Docs : SefazDecides(d)
  \/ Surroundings

\* the API finishes what it started and the worker keeps taking jobs; nothing
\* is asked of the provider, of SEFAZ or of the users
Fairness ==
  /\ \A r \in Requests : WF_vars(RequestStep(r))
  /\ \A w \in Workers : WF_vars(WorkerStep(w))
  /\ \A p \in Callers : WF_vars(Serve(p))

Spec == Init /\ [][Next]_vars
FairSpec == Spec /\ Fairness

-----------------------------------------------------------------------------
(* Properties *)

\* An authorized document stays authorized until it is canceled, whatever
\* stale copies of its row other handlers still hold.
AuthorizedIsFinal ==
  [][\A d \in Docs : doc[d].status = "authorized"
       => doc'[d].status \in {"authorized", "canceled"}]_vars

Live(d) == {i \in DOMAIN notes[d] : notes[d][i].status \in {"processing", "authorized"}}

\* A sale never has two notes alive at SEFAZ.
OneNote == \A d \in Docs : Cardinality(Live(d)) <= 1

\* The document says authorized, or canceled, only of a note that is; and
\* nobody is charged for an emission SEFAZ did not authorize: behind every
\* consume entry of the ledger there is a note that was.
NoPhantom ==
  \A d \in Docs :
    /\ doc[d].status \in {"authorized", "canceled"} =>
         \E i \in Lookup(d, doc[d].ref) :
           notes[d][i].status \in {"authorized", "canceled"}
    /\ \A m \in Months : ConsumeKey(m, d) \in ledger =>
         \E i \in DOMAIN notes[d] : notes[d][i].status \in {"authorized", "canceled"}

Holds(d) == \E m \in Months : <<d, m>> \in held

\* When the work on a document is over, its reservation is closed in the way
\* its status calls for: consumed once if authorized, released otherwise.
ReservationClosed ==
  \A d \in Docs : Quiet(d) =>
    /\ doc[d].status \in Terminal \cup {"offline_receipt"} => ~Holds(d)
    /\ doc[d].status = "authorized" =>
         \E m \in Months : ConsumeKey(m, d) \in ledger

\* commits of consume after the one that takes the unit off reserved_count
Settling == {"co_package", "co_decrement", "co_addon", "co_ledger"}
Charged(d) ==
  \/ \E m \in Months : ConsumeKey(m, d) \in ledger
  \/ \E p \in Callers : ~Idle(p) /\ call[p].doc = d /\ call[p].pc \in Settling

\* A note costs one unit, of one month: when it is authorized the unit is held,
\* being charged or charged, and stays so when it is canceled; nothing is
\* charged for a document that is neither; and no document, however often it
\* was refused and asked for again, has units of two months.
Units(d) == {m \in Months : <<d, m>> \in held \/ ConsumeKey(m, d) \in ledger}
OneUnit ==
  \A d \in Docs :
    /\ Cardinality(Units(d)) <= 1
    /\ doc[d].status \in {"authorized", "canceled"} => Holds(d) \/ Charged(d)
    /\ Charged(d) => doc[d].status \in {"authorized", "canceled"}

\* A note is only asked of the provider for a document that holds a unit.
EmissionReserved ==
  [][\A d \in Docs : Len(notes'[d]) > Len(notes[d]) => Holds(d)]_vars

\* No document stays queued or processing for ever.
EventuallySettled ==
  \A d \in Docs :
    doc[d].status \in {"queued", "processing"}
      ~> doc[d].status \notin {"absent", "queued", "processing"}

-----------------------------------------------------------------------------
(* Refinement: NfceNotes, for one month and an owner without credits *)

Phase(s) ==
  CASE s = "absent" -> "none"
    [] s \in {"queued", "processing", "provider_error"} -> "open"
    [] s \in {"rejected", "manual_action", "offline_receipt"} -> "refused"
    [] OTHER -> s

Notes == INSTANCE NfceNotes WITH
  phase <- [d \in Docs |-> Phase(doc[d].status)],
  unit  <- [d \in Docs |-> IF Holds(d) THEN "held"
                           ELSE IF Charged(d) THEN "spent" ELSE "none"]

\* Reservation, authorization and accounting, spread over requests, jobs and
\* commits, amount to the life cycle of NfceNotes: nothing is authorized
\* without a unit, a unit is charged or returned as the outcome says, once,
\* and the units out stay within the plan.
ImplementsNotes == Notes!Spec

=============================================================================
