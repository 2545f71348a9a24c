------------------------- MODULE FiscalEmissionProofs -------------------------
(***************************************************************************)
(* What holds of the emission of fiscal documents for any number of        *)
(* documents, requests, workers and months: no document is authorized      *)
(* without a note SEFAZ authorized; an authorized document stays so; a     *)
(* document has one note at most; the unit it reserved is consumed or      *)
(* returned when it ends; it costs one unit; a note is asked for only      *)
(* while its unit is held; and all of it is the life cycle of NfceNotes,   *)
(* within the plan.  The invariant grows from one theorem to the next: the *)
(* types (Typed), what a handler has read is true of the notes (Genuine),  *)
(* one handler at a time on a document (Alone), one note alive (Single),   *)
(* where the unit of the document is (AllHeld, with Still for the month    *)
(* and AllOnce for how many), that some unit is held whatever dies         *)
(* (AllOpen), and what the counter covers (Tally).  Each theorem assumes   *)
(* only what it needs of the constants.                                    *)
(***************************************************************************)
EXTENDS FiscalEmission, FiniteSetTheorems, TLAPS

-----------------------------------------------------------------------------
(* Types, without the bounds *)

AnyRow == [status : Status, ref : Nat]
AnyNote == [key : Nat, status : {"processing", "authorized", "rejected", "canceled"}]
AnyJob == [fn : {"emit", "reconcile"}, doc : Docs, n : Nat, hop : Nat,
           period : Months, addon : BOOLEAN]
Results == {"none", "notfound", "processing", "authorized", "rejected", "canceled"} \cup Answers
AnyAct == [pc : RequestSteps \cup WorkerSteps, doc : Docs, row : AnyRow,
           period : Months, addon : BOOLEAN, result : Results,
           ref : Nat, job : AnyJob \cup {NoJob}]

Found == {"notfound", "processing", "authorized", "rejected", "canceled"}
\* requests run request handlers, workers run jobs
InPlace(p, a) ==
  /\ p \in Requests => a.pc \in RequestSteps
  /\ p \in Workers => a.pc \in WorkerSteps /\ a.job \in AnyJob /\ a.job.doc = a.doc
  /\ a.pc \in {"rc_consult", "rc_save"} => a.row.status \notin Terminal
  /\ a.pc = "rc_save" => a.result \in Found
  /\ a.pc \notin {"rp_read", "em_enqueue", "rc_enqueue", "closing"} => a.row.ref <= Len(notes[a.doc])
  /\ a.pc = "em_result" => a.ref <= Len(notes[a.doc])

Typed ==
  /\ month \in Months
  /\ call \in [Callers -> Call \cup {NoCall}]
  /\ doc \in [Docs -> AnyRow]
  /\ consults \in [Docs -> Nat]
  /\ notes \in [Docs -> Seq(AnyNote)]
  /\ jobs \subseteq AnyJob
  /\ emissions \in [Docs -> Nat]
  /\ crashes \in Nat
  /\ act \in [Callers -> AnyAct \cup {NoAct}]
  /\ \A d \in Docs : doc[d].ref <= Len(notes[d])
  /\ \A p \in Callers : ~Free(p) => InPlace(p, act[p])

LEMMA FreeAct ==
  ASSUME Typed, NEW p \in Callers
  PROVE  /\ Free(p) <=> act[p].pc = "idle"
         /\ ~Free(p) => act[p] \in AnyAct /\ InPlace(p, act[p])
BY DEF Typed, Free, NoAct, AnyAct, RequestSteps, WorkerSteps

\* a handler begins with a copy of the row
LEMMA BeginTyped ==
  ASSUME Typed, NEW d \in Docs, NEW j \in AnyJob \cup {NoJob},
         NEW pc \in RequestSteps \cup WorkerSteps
  PROVE  /\ Begin(pc, d, j) \in AnyAct
         /\ Begin(pc, d, j).pc = pc /\ Begin(pc, d, j).doc = d /\ Begin(pc, d, j).row = doc[d]
         /\ Begin(pc, d, j).job = j /\ Begin(pc, d, j).result = "none"
         /\ Begin(pc, d, j).ref = 0
BY DEF Typed, Begin, AnyAct, Results

\* what a step may do to the handler's record
LEMMA ActFields ==
  ASSUME NEW a \in AnyAct
  PROVE  /\ \A pc \in RequestSteps \cup WorkerSteps : [a EXCEPT !.pc = pc] \in AnyAct
         /\ \A row \in AnyRow : [a EXCEPT !.row = row] \in AnyAct
         /\ \A s \in Status : [a EXCEPT !.row.status = s] \in AnyAct
         /\ \A m \in Months : [a EXCEPT !.period = m] \in AnyAct
         /\ \A r \in Results : [a EXCEPT !.result = r] \in AnyAct
         /\ \A r \in Nat : [a EXCEPT !.ref = r] \in AnyAct
BY DEF AnyAct, AnyRow


-----------------------------------------------------------------------------
(* What the steps of the handlers do, field by field *)

\* only p's handler moves
Others(p) ==
  /\ act' = [q \in Callers |-> act'[q]]
  /\ \A q \in Callers \ {p} : act'[q] = act[q]
\* the row of p's document is written, no other
Saved(p, s, n) ==
  /\ doc' = [e \in Docs |-> doc'[e]]
  /\ doc'[act[p].doc] = [status |-> s, ref |-> n]
  /\ \A e \in Docs \ {act[p].doc} : doc'[e] = doc[e]
\* p goes on with the same document and job
To(p, pc) ==
  /\ act'[p] \in AnyAct /\ act'[p].pc = pc
  /\ act'[p].doc = act[p].doc /\ act'[p].job = act[p].job
  /\ Others(p)
Gone(p) == act'[p] = NoAct /\ Others(p)
Calls(p, c) ==
  /\ call' = [q \in Callers |-> call'[q]]
  /\ call'[p] = c /\ \A q \in Callers \ {p} : call'[q] = call[q]
Books == <<month, ledger, held>>

\* a request makes the document QUEUED; the old status says whether it still
\* holds a unit
Queues(r) ==
  /\ act[r].pc \in {"rq_create", "rq_requeue", "rp_requeue"}
  /\ act[r].pc = "rq_create" => doc[act[r].doc].status = "absent"
  /\ Saved(r, "queued", act[r].row.ref)
  /\ act'[r].row = [status |-> "queued", ref |-> act[r].row.ref] /\ act'[r].period = month
  /\ \/ To(r, "rq_reserving") /\ Calls(r, ReserveCall(act[r].doc))
        /\ (act[r].pc = "rq_create" \/ act[r].row.status \notin ReservedByService)
        /\ (act[r].pc = "rq_requeue" => act[r].row.status \notin Reserved)
     \/ /\ act[r].row.status \in Reserved /\ act[r].pc # "rq_create"
        /\ To(r, "rq_enqueue") /\ UNCHANGED call
  /\ UNCHANGED Books /\ UNCHANGED notes /\ UNCHANGED jobs

\* the row gets a status and the request ends
Concludes(r) ==
  /\ \E s \in {"rejected", "manual_action", "offline_receipt", "queued", "canceled"} :
       /\ Saved(r, s, act[r].row.ref)
       /\ \/ s = "rejected" /\ act[r].pc = "rq_reject"
          \/ /\ s = "rejected" /\ act[r].pc = "rq_create" /\ "payload" \in Env
             /\ doc[act[r].doc].status = "absent"
          \/ s = "manual_action" /\ act[r].pc = "rq_manual"
          \/ s = "offline_receipt" /\ act[r].pc = "rq_offline"
          \/ s = "queued" /\ act[r].pc = "rp_save" /\ "redis" \in Env
          \/ s = "canceled" /\ act[r].pc = "cn_save"
  /\ Gone(r) /\ UNCHANGED call
  /\ UNCHANGED Books /\ UNCHANGED notes /\ UNCHANGED jobs

\* the request ends with nothing done
GivesUp(r) ==
  /\ \/ act[r].pc = "rq_create" /\ doc[act[r].doc].status # "absent"
     \/ act[r].pc = "rq_enqueue" /\ "redis" \in Env
     \/ act[r].pc = "rp_read" /\ doc[act[r].doc].status \in Terminal \ {"rejected"}
     \/ act[r].pc = "cn_call"
  /\ Gone(r) /\ UNCHANGED call /\ UNCHANGED doc
  /\ UNCHANGED Books /\ UNCHANGED notes /\ UNCHANGED jobs

\* the quota service has answered
Answered(r) ==
  /\ act[r].pc = "rq_reserving"
  /\ \/ call[r].pc = "granted" /\ To(r, "rq_enqueue")
        /\ act'[r].addon = call[r].addon
     \/ call[r].pc = "exceeded" /\ To(r, "rq_offline")
  /\ act'[r].row = act[r].row /\ act'[r].period = act[r].period
  /\ Calls(r, NoCall) /\ UNCHANGED doc
  /\ UNCHANGED Books /\ UNCHANGED notes /\ UNCHANGED jobs

Enqueues(r) ==
  /\ act[r].pc = "rq_enqueue" /\ Gone(r)
  /\ \E j \in AnyJob :
       /\ j.fn = "emit" /\ j.doc = act[r].doc /\ j.period = act[r].period
       /\ j.addon = act[r].addon
       /\ jobs' = jobs \cup {j}
  /\ UNCHANGED call /\ UNCHANGED doc /\ UNCHANGED Books /\ UNCHANGED notes

\* the row of the route becomes QUEUED; the service reads it again
Reprocesses(r) ==
  /\ \/ act[r].pc = "rp_save" /\ To(r, "rp_read") /\ Saved(r, "queued", act[r].row.ref)
     \/ /\ act[r].pc = "rp_read" /\ To(r, "rp_requeue") /\ UNCHANGED doc
        /\ act'[r].row = doc[act[r].doc] /\ doc[act[r].doc].status \notin Terminal \ {"rejected"}
  /\ UNCHANGED call /\ UNCHANGED Books /\ UNCHANGED notes /\ UNCHANGED jobs

Cancels(r) ==
  /\ act[r].pc = "cn_call" /\ To(r, "cn_save") /\ act'[r].row = act[r].row
  /\ \E i \in Lookup(act[r].doc, act[r].row.ref) :
       /\ notes[act[r].doc][i].status = "authorized"
       /\ notes' = [notes EXCEPT ![act[r].doc][i].status = "canceled"]
  /\ UNCHANGED call /\ UNCHANGED doc /\ UNCHANGED Books /\ UNCHANGED jobs

LEMMA JobTypes ==
  ASSUME NEW d \in Docs, NEW n \in Nat, NEW k \in Nat, NEW m \in Months, NEW ad \in BOOLEAN
  PROVE  /\ EmitJob(d, n, m, ad) \in AnyJob /\ ReconcileJob(d, n, k, m, ad) \in AnyJob
         /\ EmitJob(d, n, m, ad).fn = "emit" /\ ReconcileJob(d, n, k, m, ad).fn = "reconcile"
         /\ EmitJob(d, n, m, ad).doc = d /\ ReconcileJob(d, n, k, m, ad).doc = d
         /\ EmitJob(d, n, m, ad).period = m /\ ReconcileJob(d, n, k, m, ad).period = m
         /\ EmitJob(d, n, m, ad).addon = ad /\ ReconcileJob(d, n, k, m, ad).addon = ad
BY DEF EmitJob, ReconcileJob, AnyJob

LEMMA RequestShape ==
  ASSUME Typed, NEW r \in Requests, RequestStep(r)
  PROVE  /\ act[r] \in AnyAct /\ ~Free(r) /\ r \in Callers
         /\ \/ Queues(r) \/ Concludes(r) \/ GivesUp(r) \/ Answered(r)
            \/ Enqueues(r) \/ Reprocesses(r) \/ Cancels(r)
<1>. USE DEF Others
<1>1. r \in Callers /\ r \in DOMAIN act /\ r \in DOMAIN call
  BY EmissionAssumption DEF EmissionAssumption, Typed
<1>2. act[r] \in AnyAct /\ ~Free(r)
  BY <1>1, FreeAct DEF RequestStep, RequestCreate, RequestRefused, RequestRequeue, RequestReserved,
     RequestOffline, RequestEnqueue, ReprocessSave, ReprocessRead, ReprocessRequeue, CancelCall,
     CancelSave, Requeue
<1>. SUFFICES \/ Queues(r) \/ Concludes(r) \/ GivesUp(r) \/ Answered(r)
              \/ Enqueues(r) \/ Reprocesses(r) \/ Cancels(r)
  BY <1>1, <1>2
<1>3. ASSUME NEW s \in Status, Save(r, s)
      PROVE  Saved(r, s, act[r].row.ref)
  BY <1>2, <1>3 DEF Save, Saved, Typed, AnyAct, AnyRow
<1>4. ASSUME Leave(r)
      PROVE  Gone(r)
  BY <1>1, <1>4 DEF Leave, Gone, Typed
<1>5. ASSUME NEW pc \in RequestSteps, Step(r, pc)
      PROVE  To(r, pc) /\ act'[r].row = act[r].row /\ act'[r].period = act[r].period
  BY <1>1, <1>2, <1>5 DEF Step, To, Typed, AnyAct
<1>6. ASSUME NEW pc \in {"rq_enqueue", "rq_reserving"},
             act' = [act EXCEPT ![r].pc = pc, ![r].row.status = "queued", ![r].period = month]
      PROVE  /\ To(r, pc) /\ act'[r].row = [status |-> "queued", ref |-> act[r].row.ref]
             /\ act'[r].period = month
  <2>1. act'[r] = [[[act[r] EXCEPT !.pc = pc] EXCEPT !.row.status = "queued"] EXCEPT !.period = month]
    BY <1>1, <1>6 DEF Typed
  <2>2. Others(r)
    BY <1>1, <1>6 DEF Typed
  <2>3. "queued" \in Status /\ month \in Months /\ pc \in RequestSteps
    BY DEF Status, Typed, RequestSteps
  <2>4. PICK a1 \in AnyAct : a1 = [act[r] EXCEPT !.pc = pc]
    BY <1>2, <2>3, ActFields
  <2>5. PICK a2 \in AnyAct : a2 = [a1 EXCEPT !.row.status = "queued"]
    BY <2>3, <2>4, ActFields
  <2>6. act'[r] = [a2 EXCEPT !.period = month]
    BY <2>1, <2>4, <2>5
  <2>11. act'[r] \in AnyAct
    <3>1. \A m \in Months : [a2 EXCEPT !.period = m] \in AnyAct
      BY <2>5, ActFields
    <3>2. [a2 EXCEPT !.period = month] \in AnyAct
      BY <2>3, <3>1
    <3> QED BY <2>6, <3>2
  <2>7. a1.pc = pc /\ a1.doc = act[r].doc /\ a1.job = act[r].job /\ a1.row = act[r].row
    BY <1>2, <2>4 DEF AnyAct
  <2>8. /\ a2.pc = a1.pc /\ a2.doc = a1.doc /\ a2.job = a1.job
        /\ a2.row = [a1.row EXCEPT !.status = "queued"]
    BY <2>5 DEF AnyAct
  <2>9. a2.row = [status |-> "queued", ref |-> act[r].row.ref]
    BY <1>2, <2>7, <2>8 DEF AnyAct, AnyRow
  <2>10. /\ act'[r].pc = pc /\ act'[r].doc = act[r].doc /\ act'[r].job = act[r].job
         /\ act'[r].row = a2.row /\ act'[r].period = month
    BY <2>6, <2>7, <2>8 DEF AnyAct
  <2> QED BY <2>2, <2>9, <2>10, <2>11 DEF To
<1>7. ASSUME NEW c, call' = [call EXCEPT ![r] = c]
      PROVE  Calls(r, c)
  BY <1>1, <1>7 DEF Calls, Typed
<1>8. CASE RequestCreate(r)
  <2>1. /\ act[r].pc = "rq_create" /\ UNCHANGED Books /\ UNCHANGED notes /\ UNCHANGED jobs
    BY <1>8 DEF RequestCreate, Books
  <2>2. CASE doc[act[r].doc].status # "absent" /\ Leave(r) /\ UNCHANGED <<doc, call>>
    <3>1. Gone(r) /\ UNCHANGED call /\ UNCHANGED doc
      BY <1>4, <2>2
    <3> QED BY <2>1, <2>2, <3>1 DEF GivesUp, Books
  <2>3. CASE /\ doc[act[r].doc].status = "absent" /\ Save(r, "queued")
             /\ call' = [call EXCEPT ![r] = ReserveCall(act[r].doc)]
             /\ act' = [act EXCEPT ![r].pc = "rq_reserving", ![r].row.status = "queued",
                                    ![r].period = month]
    <3>1. Saved(r, "queued", act[r].row.ref)
      BY <1>3, <2>3 DEF Status
    <3>2. /\ To(r, "rq_reserving") /\ act'[r].row = [status |-> "queued", ref |-> act[r].row.ref]
          /\ act'[r].period = month
      BY <1>6, <2>3
    <3>3. Calls(r, ReserveCall(act[r].doc))
      BY <1>7, <2>3
    <3> QED BY <2>1, <2>3, <3>1, <3>2, <3>3 DEF Queues, Books
  <2>4. CASE /\ doc[act[r].doc].status = "absent" /\ "payload" \in Env
             /\ Save(r, "rejected") /\ Leave(r) /\ UNCHANGED call
    <3>1. Saved(r, "rejected", act[r].row.ref) /\ Gone(r) /\ UNCHANGED call
      BY <1>3, <1>4, <2>4 DEF Status, Terminal
    <3> QED BY <2>1, <2>4, <3>1 DEF Concludes, Books
  <2> QED BY <1>8, <2>2, <2>3, <2>4 DEF RequestCreate
<1>9. CASE RequestRefused(r) \/ RequestOffline(r) \/ CancelSave(r)
  <2>1. /\ UNCHANGED call /\ UNCHANGED Books /\ UNCHANGED notes /\ UNCHANGED jobs /\ Gone(r)
    BY <1>4, <1>9 DEF RequestRefused, RequestOffline, CancelSave, quotaVars, Books
  <2>2. \/ act[r].pc = "rq_manual" /\ Save(r, "manual_action")
        \/ act[r].pc = "rq_reject" /\ Save(r, "rejected")
        \/ act[r].pc = "rq_offline" /\ Save(r, "offline_receipt")
        \/ act[r].pc = "cn_save" /\ Save(r, "canceled")
    BY <1>9 DEF RequestRefused, RequestOffline, CancelSave
  <2>3. \/ act[r].pc = "rq_manual" /\ Saved(r, "manual_action", act[r].row.ref)
        \/ act[r].pc = "rq_reject" /\ Saved(r, "rejected", act[r].row.ref)
        \/ act[r].pc = "rq_offline" /\ Saved(r, "offline_receipt", act[r].row.ref)
        \/ act[r].pc = "cn_save" /\ Saved(r, "canceled", act[r].row.ref)
    BY <1>3, <2>2 DEF Status, Terminal
  <2> QED BY <2>1, <2>3 DEF Concludes, Books
<1>10. CASE RequestRequeue(r) \/ ReprocessRequeue(r)
  <2>1. /\ act[r].pc \in {"rq_requeue", "rp_requeue"}
        /\ UNCHANGED Books /\ UNCHANGED notes /\ UNCHANGED jobs
    BY <1>10 DEF RequestRequeue, ReprocessRequeue, Books
  <2>2. /\ Save(r, "queued")
        /\ \/ /\ act[r].row.status \in Reserved /\ UNCHANGED call
              /\ act' = [act EXCEPT ![r].pc = "rq_enqueue", ![r].row.status = "queued",
                                     ![r].period = month]
           \/ /\ call' = [call EXCEPT ![r] = ReserveCall(act[r].doc)]
              /\ act[r].row.status \notin ReservedByService
              /\ act[r].pc = "rq_requeue" => act[r].row.status \notin Reserved
              /\ act' = [act EXCEPT ![r].pc = "rq_reserving", ![r].row.status = "queued",
                                     ![r].period = month]
    <3>1. CASE RequestRequeue(r)
      BY <3>1 DEF RequestRequeue, Requeue, Reserved, ReservedByService
    <3>2. CASE ReprocessRequeue(r)
      BY <3>2 DEF ReprocessRequeue, Requeue, Reserved, ReservedByService
    <3> QED BY <1>10, <3>1, <3>2
  <2>3. Saved(r, "queued", act[r].row.ref)
    BY <1>3, <2>2 DEF Status
  <2>4. CASE /\ act[r].row.status \in Reserved /\ UNCHANGED call
             /\ act' = [act EXCEPT ![r].pc = "rq_enqueue", ![r].row.status = "queued",
                                    ![r].period = month]
    <3>1. /\ To(r, "rq_enqueue") /\ act'[r].row = [status |-> "queued", ref |-> act[r].row.ref]
          /\ act'[r].period = month
      BY <1>6, <2>4
    <3> QED BY <2>1, <2>3, <2>4, <3>1 DEF Queues, Books
  <2>5. CASE /\ call' = [call EXCEPT ![r] = ReserveCall(act[r].doc)]
             /\ act[r].row.status \notin ReservedByService
             /\ act[r].pc = "rq_requeue" => act[r].row.status \notin Reserved
             /\ act' = [act EXCEPT ![r].pc = "rq_reserving", ![r].row.status = "queued",
                                    ![r].period = month]
    <3>1. /\ To(r, "rq_reserving") /\ act'[r].row = [status |-> "queued", ref |-> act[r].row.ref]
          /\ act'[r].period = month
      BY <1>6, <2>5
    <3>2. Calls(r, ReserveCall(act[r].doc))
      BY <1>7, <2>5
    <3> QED BY <2>1, <2>3, <2>5, <3>1, <3>2 DEF Queues, Books
  <2> QED BY <2>2, <2>4, <2>5
<1>11. CASE RequestReserved(r)
  <2>1. PICK ad \in BOOLEAN : ad = (call[r].pc = "granted" /\ call[r].addon)
    OBVIOUS
  <2>2. PICK pc \in {"rq_enqueue", "rq_offline"} :
             pc = IF call[r].pc = "granted" THEN "rq_enqueue" ELSE "rq_offline"
    OBVIOUS
  <2>3. act' = [act EXCEPT ![r].pc = pc, ![r].addon = ad]
    BY <1>11, <2>1, <2>2 DEF RequestReserved
  <2>4. act'[r] = [[act[r] EXCEPT !.pc = pc] EXCEPT !.addon = ad]
        /\ Others(r)
    BY <1>1, <2>3 DEF Typed
  <2>5. /\ act'[r].pc = pc /\ act'[r].doc = act[r].doc /\ act'[r].job = act[r].job
        /\ act'[r] \in AnyAct /\ act'[r].addon = ad
        /\ act'[r].row = act[r].row /\ act'[r].period = act[r].period
    BY <1>2, <2>4 DEF AnyAct, RequestSteps
  <2>6. /\ act[r].pc = "rq_reserving" /\ call[r].pc \in {"granted", "exceeded"} /\ Calls(r, NoCall)
        /\ UNCHANGED doc /\ UNCHANGED Books /\ UNCHANGED notes /\ UNCHANGED jobs
    BY <1>7, <1>11 DEF RequestReserved, EndCall, Books
  <2>7. To(r, pc)
    BY <2>4, <2>5 DEF To
  <2>8. CASE call[r].pc = "granted"
    <3>1. pc = "rq_enqueue"
      BY <2>2, <2>8
    <3>2. call[r].addon \in BOOLEAN
      BY <1>1, <2>8 DEF Typed, Call, NoCall
    <3>3. ad = call[r].addon
      BY <2>1, <2>8, <3>2
    <3> QED BY <2>5, <2>6, <2>7, <2>8, <3>1, <3>3 DEF Answered, Books
  <2>9. CASE call[r].pc = "exceeded"
    <3>1. pc = "rq_offline"
      BY <2>2, <2>9
    <3> QED BY <2>5, <2>6, <2>7, <2>9, <3>1 DEF Answered, Books
  <2> QED BY <2>6, <2>8, <2>9
<1>12. CASE RequestEnqueue(r)
  <2>1. act[r].addon \in BOOLEAN /\ act[r].doc \in Docs /\ act[r].period \in Months
        /\ emissions[act[r].doc] + 1 \in Nat
    BY <1>2 DEF AnyAct, Typed
  <2>2. PICK j \in AnyJob :
             /\ j = EmitJob(act[r].doc, emissions[act[r].doc] + 1, act[r].period, act[r].addon)
             /\ j.fn = "emit" /\ j.doc = act[r].doc /\ j.period = act[r].period
             /\ j.addon = act[r].addon
    BY <2>1, JobTypes
  <2>3. /\ act[r].pc = "rq_enqueue" /\ Gone(r) /\ UNCHANGED call /\ UNCHANGED doc
        /\ UNCHANGED Books /\ UNCHANGED notes
        /\ jobs' = jobs \cup {j} \/ ("redis" \in Env /\ UNCHANGED jobs)
    BY <1>4, <1>12, <2>2 DEF RequestEnqueue, quotaVars, Books
  <2>4. CASE jobs' = jobs \cup {j}
    BY <2>2, <2>3, <2>4 DEF Enqueues, Books
  <2>5. CASE "redis" \in Env /\ UNCHANGED jobs
    BY <2>3, <2>5 DEF GivesUp, Books
  <2> QED BY <2>3, <2>4, <2>5
<1>13. CASE ReprocessSave(r)
  <2>1. /\ act[r].pc = "rp_save" /\ UNCHANGED call
        /\ UNCHANGED Books /\ UNCHANGED notes /\ UNCHANGED jobs
    BY <1>13 DEF ReprocessSave, quotaVars, Books
  <2>2. Saved(r, "queued", act[r].row.ref)
    BY <1>3, <1>13 DEF ReprocessSave, Status
  <2>3. To(r, "rp_read") \/ ("redis" \in Env /\ Gone(r))
    BY <1>4, <1>5, <1>13 DEF ReprocessSave, RequestSteps
  <2>4. CASE To(r, "rp_read")
    BY <2>1, <2>2, <2>4 DEF Reprocesses, Books
  <2>5. CASE "redis" \in Env /\ Gone(r)
    BY <2>1, <2>2, <2>5 DEF Concludes, Books
  <2> QED BY <2>3, <2>4, <2>5
<1>14. CASE ReprocessRead(r)
  <2>1. /\ act[r].pc = "rp_read" /\ UNCHANGED call /\ UNCHANGED doc
        /\ UNCHANGED Books /\ UNCHANGED notes /\ UNCHANGED jobs
    BY <1>14 DEF ReprocessRead, quotaVars, Books
  <2>2. CASE doc[act[r].doc].status \in Terminal \ {"rejected"}
    <3>1. Gone(r)
      BY <1>4, <1>14, <2>2 DEF ReprocessRead
    <3> QED BY <2>1, <2>2, <3>1 DEF GivesUp, Books
  <2>3. CASE doc[act[r].doc].status \notin Terminal \ {"rejected"}
    <3>1. /\ act'[r] = [[act[r] EXCEPT !.pc = "rp_requeue"] EXCEPT !.row = doc[act[r].doc]]
          /\ Others(r)
      BY <1>1, <1>14, <2>3 DEF Typed, ReprocessRead
    <3>2. doc[act[r].doc] \in AnyRow
      BY <1>2 DEF Typed, AnyAct
    <3>3. /\ act'[r].pc = "rp_requeue" /\ act'[r].doc = act[r].doc /\ act'[r].job = act[r].job
          /\ act'[r] \in AnyAct /\ act'[r].row = doc[act[r].doc]
      BY <1>2, <3>1, <3>2 DEF AnyAct, RequestSteps
    <3>4. To(r, "rp_requeue")
      BY <3>1, <3>3 DEF To
    <3> QED BY <2>1, <2>3, <3>3, <3>4 DEF Reprocesses, Books
  <2> QED BY <2>2, <2>3
<1>15. CASE CancelCall(r)
  <2>1. /\ act[r].pc = "cn_call" /\ UNCHANGED call /\ UNCHANGED doc
        /\ UNCHANGED Books /\ UNCHANGED jobs
    BY <1>15 DEF CancelCall, quotaVars, Books
  <2>2. CASE Leave(r) /\ UNCHANGED notes
    <3>1. Gone(r) /\ UNCHANGED notes
      BY <1>4, <2>2
    <3> QED BY <2>1, <3>1 DEF GivesUp, Books
  <2>3. CASE \E i \in Lookup(act[r].doc, act[r].row.ref) :
               /\ notes[act[r].doc][i].status = "authorized"
               /\ notes' = [notes EXCEPT ![act[r].doc][i].status = "canceled"]
               /\ Step(r, "cn_save")
    <3>1. Step(r, "cn_save")
      BY <2>3
    <3>2. To(r, "cn_save") /\ act'[r].row = act[r].row
      BY <1>5, <3>1 DEF RequestSteps
    <3>3. \E i \in Lookup(act[r].doc, act[r].row.ref) :
               /\ notes[act[r].doc][i].status = "authorized"
               /\ notes' = [notes EXCEPT ![act[r].doc][i].status = "canceled"]
      BY <2>3
    <3> QED BY <2>1, <3>2, <3>3 DEF Cancels, Books
  <2> QED BY <1>15, <2>2, <2>3 DEF CancelCall
<1> QED BY <1>1, <1>2, <1>8, <1>9, <1>10, <1>11, <1>12, <1>13, <1>14, <1>15 DEF RequestStep

-----------------------------------------------------------------------------
(* The worker *)

\* a job whose document is final already, or whose work is done
Drops(w) ==
  /\ \E j \in jobs : /\ ~Taken(j) /\ jobs' = jobs \ {j}
                     /\ doc[j.doc].status \in Terminal
                     /\ j.fn = "reconcile" => doc[j.doc].status = "canceled"
  /\ Free(w) /\ UNCHANGED act /\ UNCHANGED call /\ UNCHANGED doc
  /\ UNCHANGED Books /\ UNCHANGED notes

\* the job's document is read
Takes(w) ==
  /\ \E j \in jobs :
       /\ Free(w) /\ ~Taken(j) /\ doc[j.doc].status \notin Terminal
       /\ \E pc \in {"em_save", "em_manual", "em_reject", "rc_manual", "rc_consult"} :
            /\ pc \in {"em_manual", "em_reject"} => "payload" \in Env
            /\ pc \in {"rc_manual", "rc_consult"} <=> j.fn = "reconcile"
            /\ act'[w] = Begin(pc, j.doc, j)
  /\ Others(w)
  /\ UNCHANGED call /\ UNCHANGED doc /\ UNCHANGED Books /\ UNCHANGED notes /\ UNCHANGED jobs

\* the reservation of job j is closed in the way the status calls for
Closing(w, s, j) ==
  /\ \/ s = "authorized" /\ Calls(w, ConsumeCall(j.doc, j.period, j.addon))
     \/ s \in {"rejected", "manual_action"} /\ Calls(w, ReleaseCall(j.doc, j.period))
  /\ act'[w] \in AnyAct /\ act'[w].pc = "closing" /\ act'[w].doc = j.doc /\ act'[w].job = j
  /\ Others(w)

\* a reconcile job finds the document final
Finds(w) ==
  /\ \E j \in jobs : /\ Free(w) /\ ~Taken(j) /\ j.fn = "reconcile"
                     /\ Closing(w, doc[j.doc].status, j)
  /\ UNCHANGED doc /\ UNCHANGED Books /\ UNCHANGED notes /\ UNCHANGED jobs

\* what a consult makes of the document
Learnt(a, s) ==
  \/ a.result = "notfound" /\ s = a.row.status
  \/ a.result = "canceled" /\ s = "rejected"
  \/ a.result \notin {"notfound", "canceled"} /\ s = a.result

\* the job gives the document its last status
Closes(w) ==
  /\ \E s \in {"authorized", "rejected", "manual_action"} :
       /\ Saved(w, s, act[w].row.ref) /\ Closing(w, s, act[w].job)
       /\ \/ act[w].pc = "em_reject" /\ s = "rejected"
          \/ act[w].pc = "em_result" /\ act[w].result = "authorized" /\ s = "authorized"
          \/ act[w].pc = "em_result" /\ act[w].result \in {"invalid", "canceled"} /\ s = "rejected"
          \/ act[w].pc = "rc_manual" /\ s = "manual_action"
          \/ act[w].pc = "rc_save" /\ Learnt(act[w], s)
  /\ UNCHANGED Books /\ UNCHANGED notes /\ UNCHANGED jobs

\* the job goes on with a row it has written
Writes(w) ==
  /\ \/ /\ act[w].pc = "em_save" /\ To(w, "em_post")
        /\ Saved(w, "processing", act[w].row.ref)
        /\ act'[w].row = [status |-> "processing", ref |-> act[w].row.ref]
     \/ /\ act[w].pc = "em_result" /\ act[w].result = "accepted" /\ To(w, "em_enqueue")
        /\ Saved(w, "processing", act[w].ref)
     \/ /\ act[w].pc = "em_result" /\ act[w].result \in {"lost", "down"} /\ To(w, "em_enqueue")
        /\ Saved(w, "provider_error", act[w].row.ref)
     \/ /\ act[w].pc = "rc_save" /\ To(w, "rc_enqueue")
        /\ \E s \in Status \ Terminal : Saved(w, s, act[w].row.ref) /\ Learnt(act[w], s)
  /\ UNCHANGED call /\ UNCHANGED Books /\ UNCHANGED notes /\ UNCHANGED jobs

Posts(w) ==
  LET d == act[w].doc
      key == act[w].row.ref
  IN  /\ act[w].pc = "em_post" /\ To(w, "em_result") /\ act'[w].row = act[w].row
      /\ act'[w].result \in Answers
      /\ \/ act'[w].result \in {"accepted", "lost"} /\ notes' = NotesAfter(d, key, "processing")
         \/ /\ act'[w].result \in {"authorized", "canceled"}
            /\ notes' = NotesAfter(d, key, act'[w].result)
         \/ act'[w].result = "invalid" /\ Keyed(d, key) = {} /\ UNCHANGED notes
         \/ act'[w].result \in {"down", "unauthorized"} /\ UNCHANGED notes
      /\ \/ act'[w].result # "accepted" /\ act'[w].ref = key
         \/ act'[w].result = "accepted" /\ Keyed(d, key) # {} /\ act'[w].ref \in Keyed(d, key)
         \/ /\ act'[w].result = "accepted" /\ Keyed(d, key) = {}
            /\ act'[w].ref = Len(notes[d]) + 1
      /\ UNCHANGED call /\ UNCHANGED doc /\ UNCHANGED Books /\ UNCHANGED jobs

Consults(w) ==
  /\ act[w].pc = "rc_consult" /\ To(w, "rc_save") /\ act'[w].row = act[w].row
  /\ \/ act'[w].result = "notfound"
     \/ \E i \in Lookup(act[w].doc, act[w].row.ref) :
          act'[w].result = notes[act[w].doc][i].status
  /\ UNCHANGED call /\ UNCHANGED doc /\ UNCHANGED Books /\ UNCHANGED notes /\ UNCHANGED jobs

\* the job ends, or another takes its place
Ends(w) ==
  /\ Gone(w)
  /\ \/ /\ act[w].pc = "em_manual" /\ Saved(w, "manual_action", act[w].row.ref)
        /\ jobs' = jobs \ {act[w].job} /\ UNCHANGED call
     \/ /\ act[w].pc = "em_result" /\ act[w].result = "unauthorized"
        /\ Saved(w, "provider_error", act[w].row.ref)
        /\ jobs' = jobs \ {act[w].job} /\ UNCHANGED call
     \/ /\ act[w].pc \in {"em_enqueue", "rc_enqueue"} /\ UNCHANGED doc /\ UNCHANGED call
        /\ \E j \in AnyJob :
             /\ j.fn = "reconcile" /\ j.doc = act[w].doc /\ j.period = act[w].job.period
             /\ jobs' = (jobs \ {act[w].job}) \cup {j}
     \/ /\ act[w].pc = "rc_enqueue" /\ UNCHANGED doc /\ UNCHANGED call
        /\ jobs' = jobs \ {act[w].job}
     \/ /\ act[w].pc = "closing" /\ call[w].pc = "closed" /\ UNCHANGED doc /\ Calls(w, NoCall)
        /\ jobs' = jobs \ {act[w].job}
  /\ UNCHANGED Books /\ UNCHANGED notes

\* what the provider finds under a reference it has given is one of its notes
LEMMA FoundNotes ==
  ASSUME Typed, NEW d \in Docs, NEW ref \in Nat, ref <= Len(notes[d]), NEW i \in Lookup(d, ref)
  PROVE  /\ i \in DOMAIN notes[d] /\ notes[d][i] \in AnyNote
         /\ notes[d][i].status \in {"processing", "authorized", "rejected", "canceled"}
<1>1. notes[d] \in Seq(AnyNote)
  BY DEF Typed
<1>2. i \in DOMAIN notes[d]
  BY <1>1 DEF Lookup
<1>3. notes[d][i] \in AnyNote
  BY <1>1, <1>2
<1> QED BY <1>2, <1>3 DEF AnyNote

LEMMA WorkerShape ==
  ASSUME Typed, NEW w \in Workers, WorkerStep(w)
  PROVE  /\ w \in Callers
         /\ \/ Drops(w) \/ Takes(w) \/ Finds(w)
            \/ /\ act[w] \in AnyAct /\ ~Free(w) /\ InPlace(w, act[w])
               /\ Closes(w) \/ Writes(w) \/ Posts(w) \/ Consults(w) \/ Ends(w)
<1>. USE DEF Others
<1>1. w \in Callers /\ w \in DOMAIN act /\ w \in DOMAIN call
  BY EmissionAssumption DEF EmissionAssumption, Typed
<1>. DEFINE Goal == \/ Drops(w) \/ Takes(w) \/ Finds(w)
                    \/ /\ act[w] \in AnyAct /\ ~Free(w) /\ InPlace(w, act[w])
                       /\ Closes(w) \/ Writes(w) \/ Posts(w) \/ Consults(w) \/ Ends(w)
<1>. SUFFICES Goal
  BY <1>1
<1>3. ASSUME act[w].pc # "idle"
      PROVE  act[w] \in AnyAct /\ ~Free(w) /\ InPlace(w, act[w])
  BY <1>1, <1>3, FreeAct
<1>4. ASSUME NEW s \in Status, act[w] \in AnyAct, Save(w, s)
      PROVE  Saved(w, s, act[w].row.ref)
  BY <1>4 DEF Save, Saved, Typed, AnyAct, AnyRow
<1>5. ASSUME Leave(w)
      PROVE  Gone(w)
  BY <1>1, <1>5 DEF Leave, Gone, Typed
<1>6. ASSUME NEW pc \in WorkerSteps, act[w] \in AnyAct, Step(w, pc)
      PROVE  To(w, pc) /\ act'[w].row = act[w].row
  BY <1>1, <1>6 DEF Step, To, Typed, AnyAct
<1>7. ASSUME NEW c, call' = [call EXCEPT ![w] = c]
      PROVE  Calls(w, c)
  BY <1>1, <1>7 DEF Calls, Typed
<1>8. ASSUME NEW s \in Status, NEW j \in AnyJob, Finalize(w, s, j)
      PROVE  \/ Closing(w, s, j) /\ UNCHANGED jobs
             \/ s = "canceled" /\ jobs' = jobs \ {j} /\ Leave(w) /\ UNCHANGED call
  <2>1. CASE s = "canceled" /\ jobs' = jobs \ {j} /\ Leave(w) /\ UNCHANGED call
    BY <2>1
  <2>2. ASSUME act' = [act EXCEPT ![w] = [Begin("closing", j.doc, j) EXCEPT !.row.status = s]]
        PROVE  /\ act'[w] \in AnyAct /\ act'[w].pc = "closing" /\ act'[w].doc = j.doc
               /\ act'[w].job = j /\ Others(w)
    <3>1. /\ Begin("closing", j.doc, j) \in AnyAct /\ Begin("closing", j.doc, j).pc = "closing"
          /\ Begin("closing", j.doc, j).doc = j.doc /\ Begin("closing", j.doc, j).job = j
      BY BeginTyped DEF AnyJob, WorkerSteps
    <3>2. PICK b \in AnyAct : b = Begin("closing", j.doc, j)
      BY <3>1
    <3>3. act'[w] = [b EXCEPT !.row.status = s] /\ Others(w)
      BY <1>1, <2>2, <3>2 DEF Typed
    <3>4. [b EXCEPT !.row.status = s] \in AnyAct
      BY <3>2, ActFields
    <3>5. /\ [b EXCEPT !.row.status = s].pc = b.pc /\ [b EXCEPT !.row.status = s].doc = b.doc
          /\ [b EXCEPT !.row.status = s].job = b.job
      BY <3>2 DEF AnyAct
    <3> QED BY <3>1, <3>2, <3>3, <3>4, <3>5
  <2>3. CASE /\ s = "authorized" /\ call' = [call EXCEPT ![w] = ConsumeCall(j.doc, j.period, j.addon)]
             /\ act' = [act EXCEPT ![w] = [Begin("closing", j.doc, j) EXCEPT !.row.status = s]]
             /\ UNCHANGED jobs
    <3>1. Calls(w, ConsumeCall(j.doc, j.period, j.addon))
      BY <1>7, <2>3
    <3> QED BY <2>2, <2>3, <3>1 DEF Closing
  <2>4. CASE /\ s \in {"rejected", "manual_action"}
             /\ call' = [call EXCEPT ![w] = ReleaseCall(j.doc, j.period)]
             /\ act' = [act EXCEPT ![w] = [Begin("closing", j.doc, j) EXCEPT !.row.status = s]]
             /\ UNCHANGED jobs
    <3>1. Calls(w, ReleaseCall(j.doc, j.period))
      BY <1>7, <2>4
    <3> QED BY <2>2, <2>4, <3>1 DEF Closing
  <2> QED BY <1>8, <2>1, <2>3, <2>4 DEF Finalize
<1>9. ASSUME NEW s \in {"authorized", "rejected"}, NEW c, Close(w, c),
             act[w] \in AnyAct, InPlace(w, act[w]),
             \/ s = "authorized" /\ c = ConsumeCall(act[w].job.doc, act[w].job.period, act[w].job.addon)
             \/ s = "rejected" /\ c = ReleaseCall(act[w].job.doc, act[w].job.period)
      PROVE  Closing(w, s, act[w].job)
  <2>1. Calls(w, c) /\ To(w, "closing") /\ act[w].job.doc = act[w].doc
    BY <1>6, <1>7, <1>9 DEF Close, WorkerSteps, InPlace
  <2> QED BY <1>9, <2>1 DEF Closing, To
<1>10. ASSUME Finish(w)
       PROVE  Gone(w) /\ jobs' = jobs \ {act[w].job}
  BY <1>5, <1>10 DEF Finish
<1>11. CASE EmitManual(w)
  <2>1. /\ act[w].pc = "em_manual" /\ Save(w, "manual_action") /\ Finish(w)
        /\ UNCHANGED call /\ UNCHANGED Books /\ UNCHANGED notes
    BY <1>11 DEF EmitManual, quotaVars, Books
  <2>2. act[w] \in AnyAct /\ ~Free(w) /\ InPlace(w, act[w])
    BY <1>3, <2>1
  <2>3. Saved(w, "manual_action", act[w].row.ref)
    BY <1>4, <2>1, <2>2 DEF Status, Terminal
  <2>4. Ends(w)
    BY <1>10, <2>1, <2>3 DEF Ends, Books
  <2> QED BY <2>2, <2>4
<1>12. CASE EmitReject(w)
  <2>1. /\ act[w].pc = "em_reject" /\ Save(w, "rejected")
        /\ Close(w, ReleaseCall(act[w].doc, act[w].job.period))
        /\ UNCHANGED jobs /\ UNCHANGED Books /\ UNCHANGED notes
    BY <1>12 DEF EmitReject, quotaVars, Books
  <2>2. act[w] \in AnyAct /\ ~Free(w) /\ InPlace(w, act[w]) /\ act[w].job.doc = act[w].doc
    BY <1>3, <2>1 DEF InPlace
  <2>3. Saved(w, "rejected", act[w].row.ref)
    BY <1>4, <2>1, <2>2 DEF Status, Terminal
  <2>4. Closing(w, "rejected", act[w].job)
    BY <1>9, <2>1, <2>2
  <2>5. Closes(w)
    BY <2>1, <2>3, <2>4 DEF Closes, Books
  <2> QED BY <2>2, <2>5
<1>13. CASE EmitSave(w)
  <2>1. /\ act[w].pc = "em_save" /\ Save(w, "processing")
        /\ act' = [act EXCEPT ![w].pc = "em_post", ![w].row.status = "processing"]
        /\ UNCHANGED call /\ UNCHANGED jobs /\ UNCHANGED Books /\ UNCHANGED notes
    BY <1>13 DEF EmitSave, quotaVars, Books
  <2>2. act[w] \in AnyAct /\ ~Free(w) /\ InPlace(w, act[w])
    BY <1>3, <2>1
  <2>3. Saved(w, "processing", act[w].row.ref)
    BY <1>4, <2>1, <2>2 DEF Status
  <2>4. /\ act'[w] = [[act[w] EXCEPT !.pc = "em_post"] EXCEPT !.row.status = "processing"]
        /\ Others(w)
    BY <1>1, <2>1 DEF Typed
  <2>5. /\ act'[w] \in AnyAct /\ act'[w].pc = "em_post" /\ act'[w].doc = act[w].doc
        /\ act'[w].job = act[w].job
        /\ act'[w].row = [status |-> "processing", ref |-> act[w].row.ref]
    <3>1. PICK b \in AnyAct : b = [act[w] EXCEPT !.pc = "em_post"]
      BY <2>2, ActFields DEF WorkerSteps
    <3>2. b.pc = "em_post" /\ b.doc = act[w].doc /\ b.job = act[w].job /\ b.row = act[w].row
      BY <2>2, <3>1 DEF AnyAct
    <3>3. act'[w] = [b EXCEPT !.row.status = "processing"]
      BY <2>4, <3>1
    <3>4. /\ act'[w].pc = b.pc /\ act'[w].doc = b.doc /\ act'[w].job = b.job
          /\ act'[w].row = [b.row EXCEPT !.status = "processing"]
      BY <3>3 DEF AnyAct
    <3>5. [b EXCEPT !.row.status = "processing"] \in AnyAct
      BY <3>1, ActFields DEF Status
    <3>6. [act[w].row EXCEPT !.status = "processing"] = [status |-> "processing", ref |-> act[w].row.ref]
      BY <2>2 DEF AnyAct, AnyRow
    <3> QED BY <3>2, <3>3, <3>4, <3>5, <3>6
  <2>6. To(w, "em_post")
    BY <2>4, <2>5 DEF To
  <2>7. Writes(w)
    BY <2>1, <2>3, <2>5, <2>6 DEF Writes, Books
  <2> QED BY <2>2, <2>7
<1>14. CASE EmitPost(w)
  <2>. DEFINE d == act[w].doc
              key == act[w].row.ref
  <2>1. act[w].pc = "em_post" /\ act[w] \in AnyAct /\ ~Free(w) /\ InPlace(w, act[w])
    BY <1>3, <1>14 DEF EmitPost
  <2>2. /\ UNCHANGED call /\ UNCHANGED doc /\ UNCHANGED Books /\ UNCHANGED jobs
    BY <1>14 DEF EmitPost, quotaVars, Books
  <2>3. PICK answer \in Answers :
          /\ CASE answer \in {"accepted", "lost"}       -> notes' = NotesAfter(d, key, "processing")
                [] answer \in {"authorized", "canceled"} -> notes' = NotesAfter(d, key, answer)
                [] answer = "invalid" -> Keyed(d, key) = {} /\ UNCHANGED notes
                [] OTHER              -> UNCHANGED notes
          /\ act' = [act EXCEPT
               ![w].pc = "em_result", ![w].result = answer,
               ![w].ref = IF answer # "accepted" THEN key
                          ELSE IF Keyed(d, key) # {} THEN CHOOSE i \in Keyed(d, key) : TRUE
                          ELSE Len(notes[d]) + 1]
    BY <1>14 DEF EmitPost
  <2>4. answer \in {"accepted", "lost", "down", "unauthorized", "invalid", "authorized", "canceled"}
    BY <2>3, EmissionAssumption DEF EmissionAssumption
  <2>5. /\ answer \in {"accepted", "lost"} => notes' = NotesAfter(d, key, "processing")
        /\ answer \in {"authorized", "canceled"} => notes' = NotesAfter(d, key, answer)
        /\ answer = "invalid" => Keyed(d, key) = {} /\ UNCHANGED notes
        /\ answer \in {"down", "unauthorized"} => UNCHANGED notes
    <3>. HIDE DEF d, key
    <3> QED BY <2>3, <2>4
  <2>6. PICK ref : ref = IF answer # "accepted" THEN key
                         ELSE IF Keyed(d, key) # {} THEN CHOOSE i \in Keyed(d, key) : TRUE
                         ELSE Len(notes[d]) + 1
    OBVIOUS
  <2>7. /\ d \in Docs /\ key \in Nat /\ notes[d] \in Seq(AnyNote) /\ Len(notes[d]) \in Nat
    BY <2>1 DEF AnyAct, AnyRow, Typed
  <2>8. Keyed(d, key) \subseteq Nat
    BY <2>7 DEF Keyed
  <2>9. /\ answer # "accepted" => ref = key
        /\ answer = "accepted" /\ Keyed(d, key) # {} => ref \in Keyed(d, key)
        /\ answer = "accepted" /\ Keyed(d, key) = {} => ref = Len(notes[d]) + 1
    <3>1. Keyed(d, key) # {} => (CHOOSE i \in Keyed(d, key) : TRUE) \in Keyed(d, key)
      OBVIOUS
    <3>. HIDE DEF d, key
    <3> QED BY <2>6, <3>1
  <2>10. ref \in Nat /\ answer \in Results
    <3>1. ref \in Nat
      BY <2>7, <2>8, <2>9
    <3> QED BY <2>3, <3>1 DEF Results
  <2>11. act' = [act EXCEPT ![w].pc = "em_result", ![w].result = answer, ![w].ref = ref]
    BY <2>3, <2>6
  <2>12. /\ act'[w] = [[[act[w] EXCEPT !.pc = "em_result"] EXCEPT !.result = answer] EXCEPT !.ref = ref]
         /\ Others(w)
    BY <1>1, <2>11 DEF Typed
  <2>13. /\ act'[w].pc = "em_result" /\ act'[w].doc = act[w].doc /\ act'[w].job = act[w].job
         /\ act'[w].row = act[w].row /\ act'[w].result = answer /\ act'[w].ref = ref
    BY <2>1, <2>12 DEF AnyAct
  <2>14. act'[w] \in AnyAct
    BY <2>1, <2>10, <2>12 DEF AnyAct, WorkerSteps
  <2>15. To(w, "em_result")
    BY <2>12, <2>13, <2>14 DEF To
  <2>16. Posts(w)
    BY <2>1, <2>2, <2>3, <2>4, <2>5, <2>9, <2>13, <2>15 DEF Posts, Books
  <2> QED BY <2>1, <2>16
<1>15. CASE EmitResult(w)
  <2>1. /\ act[w].pc = "em_result" /\ UNCHANGED Books /\ UNCHANGED notes
    BY <1>15 DEF EmitResult, quotaVars, Books
  <2>2. act[w] \in AnyAct /\ ~Free(w) /\ InPlace(w, act[w]) /\ act[w].job.doc = act[w].doc
    BY <1>3, <2>1 DEF InPlace
  <2>3. CASE /\ act[w].result = "authorized" /\ Save(w, "authorized") /\ UNCHANGED jobs
             /\ Close(w, ConsumeCall(act[w].doc, act[w].job.period, act[w].job.addon))
    <3>1. Saved(w, "authorized", act[w].row.ref)
      BY <1>4, <2>2, <2>3 DEF Status, Terminal
    <3>2. Closing(w, "authorized", act[w].job)
      BY <1>9, <2>2, <2>3
    <3>3. Closes(w)
      BY <2>1, <2>3, <3>1, <3>2 DEF Closes, Books
    <3> QED BY <2>2, <3>3
  <2>4. CASE /\ act[w].result \in {"invalid", "canceled"} /\ Save(w, "rejected") /\ UNCHANGED jobs
             /\ Close(w, ReleaseCall(act[w].doc, act[w].job.period))
    <3>1. Saved(w, "rejected", act[w].row.ref)
      BY <1>4, <2>2, <2>4 DEF Status, Terminal
    <3>2. Closing(w, "rejected", act[w].job)
      BY <1>9, <2>2, <2>4
    <3>3. Closes(w)
      BY <2>1, <2>4, <3>1, <3>2 DEF Closes, Books
    <3> QED BY <2>2, <3>3
  <2>5. CASE /\ act[w].result = "accepted" /\ SaveRef(w, "processing", act[w].ref)
             /\ Step(w, "em_enqueue") /\ UNCHANGED <<call, jobs>>
    <3>1. Saved(w, "processing", act[w].ref)
      BY <2>2, <2>5 DEF SaveRef, Saved, Typed, AnyAct, AnyRow, Status
    <3>2. To(w, "em_enqueue") /\ UNCHANGED call /\ UNCHANGED jobs
      BY <1>6, <2>2, <2>5 DEF WorkerSteps
    <3>3. Writes(w)
      BY <2>1, <2>5, <3>1, <3>2 DEF Writes, Books
    <3> QED BY <2>2, <3>3
  <2>6. CASE /\ act[w].result \in {"lost", "down"} /\ Save(w, "provider_error")
             /\ Step(w, "em_enqueue") /\ UNCHANGED <<call, jobs>>
    <3>1. Saved(w, "provider_error", act[w].row.ref)
      BY <1>4, <2>2, <2>6 DEF Status
    <3>2. To(w, "em_enqueue") /\ UNCHANGED call /\ UNCHANGED jobs
      BY <1>6, <2>2, <2>6 DEF WorkerSteps
    <3>3. Writes(w)
      BY <2>1, <2>6, <3>1, <3>2 DEF Writes, Books
    <3> QED BY <2>2, <3>3
  <2>7. CASE /\ act[w].result = "unauthorized" /\ Save(w, "provider_error")
             /\ Finish(w) /\ UNCHANGED call
    <3>1. Saved(w, "provider_error", act[w].row.ref)
      BY <1>4, <2>2, <2>7 DEF Status
    <3>2. Gone(w) /\ jobs' = jobs \ {act[w].job}
      BY <1>10, <2>7
    <3>3. Ends(w)
      BY <2>1, <2>7, <3>1, <3>2 DEF Ends, Books
    <3> QED BY <2>2, <3>3
  <2> QED BY <1>15, <2>3, <2>4, <2>5, <2>6, <2>7 DEF EmitResult
<1>16. CASE EmitEnqueue(w)
  <2>1. /\ act[w].pc = "em_enqueue" /\ Leave(w) /\ UNCHANGED doc /\ UNCHANGED call
        /\ UNCHANGED Books /\ UNCHANGED notes
    BY <1>16 DEF EmitEnqueue, quotaVars, Books
  <2>2. act[w] \in AnyAct /\ ~Free(w) /\ InPlace(w, act[w])
        /\ act[w].job \in AnyJob /\ act[w].job.doc = act[w].doc
    BY <1>3, <2>1 DEF InPlace
  <2>3. /\ act[w].job.doc \in Docs /\ act[w].job.n \in Nat /\ act[w].job.period \in Months
        /\ act[w].job.addon \in BOOLEAN
    BY <2>2 DEF AnyJob
  <2>4. PICK j \in AnyJob :
          /\ j = ReconcileJob(act[w].job.doc, act[w].job.n, 0, act[w].job.period, act[w].job.addon)
          /\ j.fn = "reconcile" /\ j.doc = act[w].doc /\ j.period = act[w].job.period
    <3>1. PICK k \in Nat : k = 0
      OBVIOUS
    <3>2. PICK j \in AnyJob :
            /\ j = ReconcileJob(act[w].job.doc, act[w].job.n, k, act[w].job.period, act[w].job.addon)
            /\ j.fn = "reconcile" /\ j.doc = act[w].doc /\ j.period = act[w].job.period
      BY <2>2, <2>3, JobTypes
    <3> QED BY <3>1, <3>2
  <2>5. jobs' = (jobs \ {act[w].job}) \cup {j}
    BY <1>16, <2>4 DEF EmitEnqueue
  <2>6. Ends(w)
    BY <1>5, <2>1, <2>4, <2>5 DEF Ends, Books
  <2> QED BY <2>2, <2>6
<1>17. CASE ReconcileManual(w)
  <2>1. /\ act[w].pc = "rc_manual" /\ Save(w, "manual_action")
        /\ Finalize(w, "manual_action", act[w].job) /\ UNCHANGED Books /\ UNCHANGED notes
    BY <1>17 DEF ReconcileManual, Books
  <2>2. act[w] \in AnyAct /\ ~Free(w) /\ InPlace(w, act[w]) /\ act[w].job \in AnyJob
    BY <1>3, <2>1 DEF InPlace
  <2>3. Saved(w, "manual_action", act[w].row.ref)
    BY <1>4, <2>1, <2>2 DEF Status, Terminal
  <2>4. Closing(w, "manual_action", act[w].job) /\ UNCHANGED jobs
    BY <1>8, <2>1, <2>2 DEF Status, Terminal
  <2>5. Closes(w)
    BY <2>1, <2>3, <2>4 DEF Closes, Books
  <2> QED BY <2>2, <2>5
<1>18. CASE ReconcileConsult(w)
  <2>1. /\ act[w].pc = "rc_consult" /\ UNCHANGED call /\ UNCHANGED doc /\ UNCHANGED Books
        /\ UNCHANGED notes /\ UNCHANGED jobs
    BY <1>18 DEF ReconcileConsult, quotaVars, Books
  <2>2. act[w] \in AnyAct /\ ~Free(w) /\ InPlace(w, act[w])
    BY <1>3, <2>1
  <2>3. PICK answer :
          /\ \/ answer = "notfound"
             \/ \E i \in Lookup(act[w].doc, act[w].row.ref) : answer = notes[act[w].doc][i].status
          /\ act' = [act EXCEPT ![w].pc = "rc_save", ![w].result = answer]
    BY <1>18 DEF ReconcileConsult
  <2>4. /\ act'[w] = [[act[w] EXCEPT !.pc = "rc_save"] EXCEPT !.result = answer]
        /\ Others(w)
    BY <1>1, <2>3 DEF Typed
  <2>5. /\ act'[w].pc = "rc_save" /\ act'[w].doc = act[w].doc /\ act'[w].job = act[w].job
        /\ act'[w].row = act[w].row /\ act'[w].result = answer
    BY <2>2, <2>4 DEF AnyAct
  <2>6. answer \in Found
    <3>1. act[w].doc \in Docs /\ act[w].row.ref \in Nat
      BY <2>2 DEF AnyAct, AnyRow
    <3>2. act[w].row.ref <= Len(notes[act[w].doc])
      BY <2>1, <2>2 DEF InPlace
    <3>3. \A i \in Lookup(act[w].doc, act[w].row.ref) :
             notes[act[w].doc][i].status \in {"processing", "authorized", "rejected", "canceled"}
      BY <3>1, <3>2, FoundNotes
    <3> QED BY <2>3, <3>3 DEF Found
  <2>7. act'[w] \in AnyAct
    <3>1. answer \in Results
      BY <2>6 DEF Found, Results
    <3>2. PICK b \in AnyAct : b = [act[w] EXCEPT !.pc = "rc_save"]
      BY <2>2, ActFields DEF WorkerSteps
    <3>3. [b EXCEPT !.result = answer] \in AnyAct
      BY <3>1, <3>2, ActFields
    <3> QED BY <2>4, <3>2, <3>3
  <2>8. To(w, "rc_save")
    BY <2>4, <2>5, <2>7 DEF To
  <2>9. Consults(w)
    BY <2>1, <2>3, <2>5, <2>8 DEF Consults, Books
  <2> QED BY <2>2, <2>9
<1>19. CASE ReconcileSave(w)
  <2>1. act[w].pc = "rc_save" /\ UNCHANGED Books /\ UNCHANGED notes
    BY <1>19 DEF ReconcileSave, Books
  <2>2. /\ act[w] \in AnyAct /\ ~Free(w) /\ InPlace(w, act[w]) /\ act[w].job \in AnyJob
        /\ act[w].result \in Found /\ act[w].row.status \notin Terminal /\ act[w].row.status \in Status
    BY <1>3, <2>1 DEF InPlace, AnyAct, AnyRow
  <2>3. PICK s : /\ s = CASE act[w].result = "notfound" -> act[w].row.status
                          [] act[w].result = "canceled" -> "rejected"
                          [] OTHER                      -> act[w].result
                /\ Save(w, s)
                /\ \/ s \in Terminal /\ Finalize(w, s, act[w].job)
                   \/ s \notin Terminal /\ Step(w, "rc_enqueue") /\ UNCHANGED <<call, jobs>>
    BY <1>19 DEF ReconcileSave
  <2>4. Learnt(act[w], s)
    BY <2>3 DEF Learnt
  <2>5. s \in Status /\ s # "canceled"
    BY <2>2, <2>4 DEF Learnt, Found, Status, Terminal
  <2>6. Saved(w, s, act[w].row.ref)
    BY <1>4, <2>2, <2>3, <2>5
  <2>7. CASE s \in Terminal /\ Finalize(w, s, act[w].job)
    <3>1. Closing(w, s, act[w].job) /\ UNCHANGED jobs
      BY <1>8, <2>2, <2>5, <2>7
    <3>2. s \in {"authorized", "rejected", "manual_action"}
      BY <2>5, <2>7 DEF Terminal
    <3>3. Closes(w)
      BY <2>1, <2>4, <2>6, <3>1, <3>2 DEF Closes, Books
    <3> QED BY <2>2, <3>3
  <2>8. CASE s \notin Terminal /\ Step(w, "rc_enqueue") /\ UNCHANGED <<call, jobs>>
    <3>1. To(w, "rc_enqueue") /\ UNCHANGED call /\ UNCHANGED jobs
      BY <1>6, <2>2, <2>8 DEF WorkerSteps
    <3>2. Writes(w)
      BY <2>1, <2>4, <2>5, <2>6, <2>8, <3>1 DEF Writes, Books
    <3> QED BY <2>2, <3>2
  <2> QED BY <2>3, <2>7, <2>8
<1>20. CASE ReconcileEnqueue(w)
  <2>1. /\ act[w].pc = "rc_enqueue" /\ Leave(w) /\ UNCHANGED doc /\ UNCHANGED call
        /\ UNCHANGED Books /\ UNCHANGED notes
    BY <1>20 DEF ReconcileEnqueue, quotaVars, Books
  <2>2. act[w] \in AnyAct /\ ~Free(w) /\ InPlace(w, act[w])
        /\ act[w].job \in AnyJob /\ act[w].doc \in Docs
    BY <1>3, <2>1 DEF InPlace, AnyAct
  <2>3. /\ act[w].job.n \in Nat /\ act[w].job.period \in Months
        /\ act[w].job.addon \in BOOLEAN /\ consults[act[w].doc] \in Nat
    BY <2>2 DEF AnyJob, Typed
  <2>4. PICK j \in AnyJob :
          /\ j = ReconcileJob(act[w].doc, act[w].job.n, consults[act[w].doc], act[w].job.period,
                              act[w].job.addon)
          /\ j.fn = "reconcile" /\ j.doc = act[w].doc /\ j.period = act[w].job.period
    BY <2>2, <2>3, JobTypes
  <2>5. jobs' = (jobs \ {act[w].job}) \cup {j} \/ jobs' = jobs \ {act[w].job}
    BY <1>20, <2>4 DEF ReconcileEnqueue
  <2>6. Gone(w)
    BY <1>5, <2>1
  <2>7. Ends(w)
    BY <2>1, <2>4, <2>5, <2>6 DEF Ends, Books
  <2> QED BY <2>2, <2>7
<1>21. CASE Closed(w)
  <2>1. /\ act[w].pc = "closing" /\ call[w].pc = "closed" /\ Finish(w) /\ UNCHANGED doc
        /\ call' = [call EXCEPT ![w] = NoCall] /\ UNCHANGED Books /\ UNCHANGED notes
    BY <1>21 DEF Closed, EndCall, Books
  <2>2. act[w] \in AnyAct /\ ~Free(w) /\ InPlace(w, act[w])
    BY <1>3, <2>1
  <2>3. Calls(w, NoCall) /\ Gone(w) /\ jobs' = jobs \ {act[w].job}
    BY <1>7, <1>10, <2>1
  <2>4. Ends(w)
    BY <2>1, <2>3 DEF Ends, Books
  <2> QED BY <2>2, <2>4
<1>22. ASSUME NEW j \in jobs, EmitStart(w, j)
       PROVE  Goal
  <2>1. /\ Free(w) /\ ~Taken(j) /\ j.fn = "emit" /\ UNCHANGED call /\ UNCHANGED doc
        /\ UNCHANGED Books /\ UNCHANGED notes
    BY <1>22 DEF EmitStart, quotaVars, Books
  <2>2. CASE doc[j.doc].status \in Terminal /\ jobs' = jobs \ {j} /\ UNCHANGED act
    <3>1. Drops(w)
      BY <1>22, <2>1, <2>2 DEF Drops, Books
    <3> QED BY <3>1
  <2>3. CASE doc[j.doc].status \notin Terminal /\ UNCHANGED jobs
    <3>1. PICK pc \in {"em_save", "em_manual", "em_reject"} :
               /\ pc \in {"em_manual", "em_reject"} => "payload" \in Env
               /\ act' = [act EXCEPT ![w] = Begin(pc, j.doc, j)]
      BY <1>22, <2>3 DEF EmitStart
    <3>2. act'[w] = Begin(pc, j.doc, j) /\ Others(w)
      BY <1>1, <3>1 DEF Typed
    <3>3. Takes(w)
      BY <1>22, <2>1, <2>3, <3>1, <3>2 DEF Takes, Books
    <3> QED BY <3>3
  <2> QED BY <1>22, <2>2, <2>3 DEF EmitStart
<1>23. ASSUME NEW j \in jobs, ReconcileStart(w, j)
       PROVE  Goal
  <2>1. /\ Free(w) /\ ~Taken(j) /\ j.fn = "reconcile" /\ UNCHANGED doc
        /\ UNCHANGED Books /\ UNCHANGED notes
    BY <1>23 DEF ReconcileStart, Books
  <2>2. j \in AnyJob /\ j.doc \in Docs /\ doc[j.doc].status \in Status
    BY <1>23 DEF Typed, AnyJob, AnyRow
  <2>3. CASE doc[j.doc].status \in Terminal /\ Finalize(w, doc[j.doc].status, j)
    <3>1. CASE Closing(w, doc[j.doc].status, j) /\ UNCHANGED jobs
      <4>1. Finds(w)
        BY <1>23, <2>1, <3>1 DEF Finds, Books
      <4> QED BY <4>1
    <3>2. CASE doc[j.doc].status = "canceled" /\ jobs' = jobs \ {j} /\ Leave(w) /\ UNCHANGED call
      <4>1. UNCHANGED act
        BY <1>1, <2>1, <3>2 DEF Leave, Free, Typed
      <4>2. Drops(w)
        BY <1>23, <2>1, <2>3, <3>2, <4>1 DEF Drops, Books
      <4> QED BY <4>2
    <3> QED BY <1>8, <2>2, <2>3, <3>1, <3>2
  <2>4. CASE doc[j.doc].status \notin Terminal /\ UNCHANGED <<call, jobs>>
    <3>1. PICK pc \in {"rc_manual", "rc_consult"} : act' = [act EXCEPT ![w] = Begin(pc, j.doc, j)]
      BY <1>23, <2>4 DEF ReconcileStart
    <3>2. act'[w] = Begin(pc, j.doc, j) /\ Others(w)
      BY <1>1, <3>1 DEF Typed
    <3>3. UNCHANGED call /\ UNCHANGED jobs
      BY <2>4
    <3>4. Takes(w)
      BY <1>23, <2>1, <2>4, <3>1, <3>2, <3>3 DEF Takes, Books
    <3> QED BY <3>4
  <2> QED BY <1>23, <2>3, <2>4 DEF ReconcileStart
<1> QED BY <1>11, <1>12, <1>13, <1>14, <1>15, <1>16, <1>17, <1>18, <1>19, <1>20, <1>21, <1>22, <1>23
        DEF WorkerStep

-----------------------------------------------------------------------------
(* The quota service *)

CallSteps == ReserveSteps \cup ConsumeSteps \cup ReleaseSteps \cup Outcomes
Mine(p) == <<call[p].doc, call[p].period>>

\* a commit of p's call: what becomes of the reservation and of the ledger
Commits(p) ==
  LET from == call[p].pc
      to == call'[p].pc
      charged == ConsumeKey(call[p].period, call[p].doc)
      returned == ReleaseKey(call[p].period, call[p].doc)
  IN  \/ /\ from \in ReserveSteps /\ to \in {"res_lock", "exceeded"}
         /\ UNCHANGED held /\ UNCHANGED ledger
      \/ /\ from = "res_lock" /\ to = "granted"
         /\ held' = held \cup {Mine(p)} /\ UNCHANGED ledger
      \/ /\ from = "co_check" /\ to = "closed" /\ charged \in ledger
         /\ UNCHANGED held /\ UNCHANGED ledger
      \/ /\ \/ from = "co_check" /\ to = "co_used"
            \/ from = "co_used" /\ to = "co_reserved"
         /\ UNCHANGED held /\ UNCHANGED ledger
      \/ /\ from = "co_reserved" /\ to \in {"co_package", "co_ledger"}
         /\ held' = held \ {Mine(p)} /\ UNCHANGED ledger
      \/ /\ from \in {"co_package", "co_decrement", "co_addon"}
         /\ to \in {"co_decrement", "co_addon", "co_ledger"}
         /\ UNCHANGED held /\ UNCHANGED ledger
      \/ /\ from = "co_ledger" /\ to = "closed"
         /\ UNCHANGED held /\ ledger' = ledger \cup {charged}
      \/ /\ from = "rel_check" /\ to = "closed"
         /\ held' = held \ {Mine(p)} /\ UNCHANGED ledger
      \/ /\ from = "rel_check" /\ to = "rel_reserved"
         /\ UNCHANGED held /\ UNCHANGED ledger
      \/ /\ from = "rel_reserved" /\ to = "rel_ledger"
         /\ held' = held \ {Mine(p)} /\ UNCHANGED ledger
      \/ /\ from = "rel_ledger" /\ to = "closed"
         /\ UNCHANGED held /\ ledger' = ledger \cup {returned}

Serves(p) ==
  /\ call[p] \in Call /\ call'[p] \in Call /\ Calls(p, call'[p])
  /\ call'[p].doc = call[p].doc /\ call'[p].period = call[p].period
  /\ call[p].pc \in ReserveSteps \cup ConsumeSteps \cup ReleaseSteps
  /\ Commits(p)
  /\ UNCHANGED month /\ UNCHANGED act /\ UNCHANGED doc /\ UNCHANGED notes /\ UNCHANGED jobs

LEMMA GotoShape ==
  ASSUME Typed, NEW p \in Callers, call[p] \in Call, NEW pc \in CallSteps, Goto(p, pc)
  PROVE  /\ call'[p] \in Call /\ Calls(p, call'[p]) /\ call'[p].pc = pc
         /\ call'[p].doc = call[p].doc /\ call'[p].period = call[p].period
<1>1. /\ call' = [q \in Callers |-> call'[q]] /\ call'[p] = [call[p] EXCEPT !.pc = pc]
      /\ \A q \in Callers \ {p} : call'[q] = call[q]
  BY DEF Typed, Goto
<1>2. /\ call'[p] \in Call /\ call'[p].pc = pc
      /\ call'[p].doc = call[p].doc /\ call'[p].period = call[p].period
  BY <1>1 DEF Call, CallSteps
<1> QED BY <1>1, <1>2 DEF Calls

LEMMA QuotaShape ==
  ASSUME Typed, NEW p \in Callers, Serve(p)
  PROVE  Serves(p)
<1>. USE DEF Mine, ReserveSteps, CallSteps, ConsumeSteps, ReleaseSteps, Outcomes
<1>1. /\ UNCHANGED month /\ UNCHANGED act /\ UNCHANGED doc /\ UNCHANGED notes /\ UNCHANGED jobs
  BY DEF Serve, emissionVars, QuotaStep, ReserveRead, ReserveLock, ConsumeCheck, ConsumeUsed,
     ConsumeReserved, ConsumePackage, ConsumeDecrement, ConsumeAddon, ConsumeLedger,
     ReleaseCheck, ReleaseReserved, ReleaseLedger
<1>2. QuotaStep(p)
  BY DEF Serve
<1>3. /\ call[p].pc \in ReserveSteps \cup ConsumeSteps \cup ReleaseSteps
  BY <1>2 DEF QuotaStep, ReserveRead, ReserveLock, ConsumeCheck, ConsumeUsed,
     ConsumeReserved, ConsumePackage, ConsumeDecrement, ConsumeAddon, ConsumeLedger,
     ReleaseCheck, ReleaseReserved, ReleaseLedger
<1>4. call[p] \in Call
  BY <1>3 DEF Typed, NoCall
<1>. SUFFICES /\ call'[p] \in Call /\ Calls(p, call'[p]) /\ Commits(p)
              /\ call'[p].doc = call[p].doc /\ call'[p].period = call[p].period
  BY <1>1, <1>3, <1>4 DEF Serves
<1>5. ASSUME NEW pc \in CallSteps, Goto(p, pc)
      PROVE  /\ call'[p] \in Call /\ Calls(p, call'[p]) /\ call'[p].pc = pc
             /\ call'[p].doc = call[p].doc /\ call'[p].period = call[p].period
  BY <1>4, <1>5, GotoShape
<1>6. CASE ReserveRead(p)
  <2>1. PICK pc \in {"exceeded", "res_lock"}, ad \in BOOLEAN :
             call' = [call EXCEPT ![p].pc = pc, ![p].addon = ad]
    BY <1>6 DEF ReserveRead
  <2>2. /\ call' = [q \in Callers |-> call'[q]]
        /\ call'[p] = [[call[p] EXCEPT !.pc = pc] EXCEPT !.addon = ad]
        /\ \A q \in Callers \ {p} : call'[q] = call[q]
    BY <2>1 DEF Typed
  <2>3. /\ call'[p] \in Call /\ call'[p].pc = pc
        /\ call'[p].doc = call[p].doc /\ call'[p].period = call[p].period
    BY <1>4, <2>2 DEF Call
  <2>4. call[p].pc = "res_read" /\ UNCHANGED held /\ UNCHANGED ledger
    BY <1>6 DEF ReserveRead
  <2>5. Commits(p)
    BY <2>3, <2>4 DEF Commits
  <2> QED BY <2>2, <2>3, <2>5 DEF Calls
<1>7. CASE ReserveLock(p)
  <2>1. /\ call[p].pc = "res_lock" /\ UNCHANGED ledger
        /\ \/ Goto(p, "granted") /\ held' = held \cup {Mine(p)}
           \/ Goto(p, "exceeded") /\ UNCHANGED held
    BY <1>7 DEF ReserveLock
  <2>2. PICK pc \in {"granted", "exceeded"} : Goto(p, pc)
    BY <2>1
  <2>3. CASE Goto(p, "granted") /\ held' = held \cup {Mine(p)}
    <3>1. call'[p].pc = "granted"
      BY <1>5, <2>3
    <3>2. Commits(p)
      BY <2>1, <2>3, <3>1 DEF Commits
    <3> QED BY <1>5, <2>3, <3>2
  <2>4. CASE Goto(p, "exceeded") /\ UNCHANGED held
    <3>1. call'[p].pc = "exceeded"
      BY <1>5, <2>4
    <3>2. Commits(p)
      BY <2>1, <2>4, <3>1 DEF Commits
    <3> QED BY <1>5, <2>4, <3>2
  <2> QED BY <2>1, <2>3, <2>4
<1>8. CASE ConsumeCheck(p)
  <2>1. PICK pc \in {"closed", "co_used"} :
          /\ Goto(p, pc) /\ call[p].pc = "co_check"
          /\ pc = "closed" => ConsumeKey(call[p].period, call[p].doc) \in ledger
          /\ UNCHANGED held /\ UNCHANGED ledger
    BY <1>8 DEF ConsumeCheck
  <2>2. /\ call'[p] \in Call /\ Calls(p, call'[p]) /\ call'[p].pc = pc
        /\ call'[p].doc = call[p].doc /\ call'[p].period = call[p].period
    BY <1>5, <2>1
  <2>3. Commits(p)
    BY <2>1, <2>2 DEF Commits
  <2> QED BY <2>2, <2>3
<1>9. CASE ConsumeUsed(p)
  <2>1. /\ Goto(p, "co_reserved") /\ call[p].pc = "co_used" /\ UNCHANGED held /\ UNCHANGED ledger
    BY <1>9 DEF ConsumeUsed
  <2>2. /\ call'[p] \in Call /\ Calls(p, call'[p]) /\ call'[p].pc = "co_reserved"
        /\ call'[p].doc = call[p].doc /\ call'[p].period = call[p].period
    BY <1>5, <2>1
  <2>3. Commits(p)
    BY <2>1, <2>2 DEF Commits
  <2> QED BY <2>2, <2>3
<1>10. CASE ConsumeReserved(p)
  <2>1. PICK pc \in {"co_package", "co_ledger"} :
          Goto(p, pc) /\ call[p].pc = "co_reserved" /\ held' = held \ {Mine(p)} /\ UNCHANGED ledger
    BY <1>10 DEF ConsumeReserved
  <2>2. /\ call'[p] \in Call /\ Calls(p, call'[p]) /\ call'[p].pc = pc
        /\ call'[p].doc = call[p].doc /\ call'[p].period = call[p].period
    BY <1>5, <2>1
  <2>3. Commits(p)
    BY <2>1, <2>2 DEF Commits
  <2> QED BY <2>2, <2>3
<1>11. CASE ConsumePackage(p)
  <2>1. call[p].pc = "co_package" /\ UNCHANGED held /\ UNCHANGED ledger
    BY <1>11 DEF ConsumePackage
  <2>2. CASE \E k \in Eligible : call' = [call EXCEPT ![p].pc = "co_decrement", ![p].pkg = k]
    <3>1. PICK k \in Packages : call' = [call EXCEPT ![p].pc = "co_decrement", ![p].pkg = k]
      BY <2>2 DEF Eligible
    <3>2. /\ call' = [q \in Callers |-> call'[q]]
          /\ call'[p] = [[call[p] EXCEPT !.pc = "co_decrement"] EXCEPT !.pkg = k]
          /\ \A q \in Callers \ {p} : call'[q] = call[q]
      BY <3>1 DEF Typed
    <3>3. /\ call'[p] \in Call /\ call'[p].pc = "co_decrement"
          /\ call'[p].doc = call[p].doc /\ call'[p].period = call[p].period
      BY <1>4, <3>2 DEF Call
    <3>4. Commits(p)
      BY <2>1, <3>3 DEF Commits
    <3> QED BY <3>2, <3>3, <3>4 DEF Calls
  <2>3. CASE \E pc \in {"co_addon", "co_ledger"} : Goto(p, pc)
    <3>1. PICK pc \in {"co_addon", "co_ledger"} : Goto(p, pc)
      BY <2>3
    <3>2. /\ call'[p] \in Call /\ Calls(p, call'[p]) /\ call'[p].pc = pc
          /\ call'[p].doc = call[p].doc /\ call'[p].period = call[p].period
      BY <1>5, <3>1
    <3>3. Commits(p)
      BY <2>1, <3>1, <3>2 DEF Commits
    <3> QED BY <3>2, <3>3
  <2> QED BY <1>11, <2>2, <2>3 DEF ConsumePackage
<1>12. CASE ConsumeDecrement(p) \/ ConsumeAddon(p)
  <2>1. PICK pc \in {"co_addon", "co_ledger"} :
          /\ Goto(p, pc) /\ call[p].pc \in {"co_decrement", "co_addon"}
          /\ UNCHANGED held /\ UNCHANGED ledger
    BY <1>12 DEF ConsumeDecrement, ConsumeAddon
  <2>2. /\ call'[p] \in Call /\ Calls(p, call'[p]) /\ call'[p].pc = pc
        /\ call'[p].doc = call[p].doc /\ call'[p].period = call[p].period
    BY <1>5, <2>1
  <2>3. Commits(p)
    BY <2>1, <2>2 DEF Commits
  <2> QED BY <2>2, <2>3
<1>13. CASE ConsumeLedger(p)
  <2>1. /\ Goto(p, "closed") /\ call[p].pc = "co_ledger" /\ UNCHANGED held
        /\ ledger' = ledger \cup {ConsumeKey(call[p].period, call[p].doc)}
    BY <1>13 DEF ConsumeLedger
  <2>2. /\ call'[p] \in Call /\ Calls(p, call'[p]) /\ call'[p].pc = "closed"
        /\ call'[p].doc = call[p].doc /\ call'[p].period = call[p].period
    BY <1>5, <2>1
  <2>3. Commits(p)
    BY <2>1, <2>2 DEF Commits
  <2> QED BY <2>2, <2>3
<1>14. CASE ReleaseCheck(p)
  <2>1. /\ call[p].pc = "rel_check" /\ UNCHANGED ledger
        /\ \/ Goto(p, "closed") /\ held' = held \ {Mine(p)}
           \/ Goto(p, "rel_reserved") /\ UNCHANGED held
    BY <1>14 DEF ReleaseCheck
  <2>2. CASE Goto(p, "closed") /\ held' = held \ {Mine(p)}
    <3>1. call'[p].pc = "closed"
      BY <1>5, <2>2
    <3>2. Commits(p)
      BY <2>1, <2>2, <3>1 DEF Commits
    <3> QED BY <1>5, <2>2, <3>2
  <2>3. CASE Goto(p, "rel_reserved") /\ UNCHANGED held
    <3>1. call'[p].pc = "rel_reserved"
      BY <1>5, <2>3
    <3>2. Commits(p)
      BY <2>1, <2>3, <3>1 DEF Commits
    <3> QED BY <1>5, <2>3, <3>2
  <2> QED BY <2>1, <2>2, <2>3
<1>15. CASE ReleaseReserved(p)
  <2>1. /\ Goto(p, "rel_ledger") /\ call[p].pc = "rel_reserved" /\ held' = held \ {Mine(p)}
        /\ UNCHANGED ledger
    BY <1>15 DEF ReleaseReserved
  <2>2. /\ call'[p] \in Call /\ Calls(p, call'[p]) /\ call'[p].pc = "rel_ledger"
        /\ call'[p].doc = call[p].doc /\ call'[p].period = call[p].period
    BY <1>5, <2>1
  <2>3. Commits(p)
    BY <2>1, <2>2 DEF Commits
  <2> QED BY <2>2, <2>3
<1>16. CASE ReleaseLedger(p)
  <2>1. /\ Goto(p, "closed") /\ call[p].pc = "rel_ledger" /\ UNCHANGED held
        /\ ledger' = ledger \cup {ReleaseKey(call[p].period, call[p].doc)}
    BY <1>16 DEF ReleaseLedger
  <2>2. /\ call'[p] \in Call /\ Calls(p, call'[p]) /\ call'[p].pc = "closed"
        /\ call'[p].doc = call[p].doc /\ call'[p].period = call[p].period
    BY <1>5, <2>1
  <2>3. Commits(p)
    BY <2>1, <2>2 DEF Commits
  <2> QED BY <2>2, <2>3
<1> QED BY <1>2, <1>6, <1>7, <1>8, <1>9, <1>10, <1>11, <1>12, <1>13, <1>14, <1>15, <1>16 DEF QuotaStep

-----------------------------------------------------------------------------
(* Every step *)

\* a request begins
Begins(r) ==
  /\ \E d \in Docs, pc \in {"rq_create", "rq_requeue", "rq_manual", "rq_reject", "rp_save", "cn_call"} :
       /\ Free(r) /\ MayAsk(d) /\ act'[r] = Begin(pc, d, NoJob) /\ Others(r)
       /\ \/ pc = "rq_create" /\ doc[d].status = "absent"
          \/ /\ pc \in {"rq_requeue", "rq_manual", "rq_reject"}
             /\ doc[d].status \in Retriable /\ doc[d].status \notin {"absent", "authorized", "canceled"}
             /\ pc # "rq_requeue" => "payload" \in Env
          \/ /\ pc = "rp_save" /\ "reprocess" \in Env
             /\ doc[d].status \in Retriable /\ doc[d].status \in (Status \ Terminal) \cup {"rejected"}
          \/ pc = "cn_call" /\ doc[d].status = "authorized"
  /\ UNCHANGED call /\ UNCHANGED doc /\ UNCHANGED Books /\ UNCHANGED notes /\ UNCHANGED jobs

Dies(p) ==
  /\ ~Free(p) /\ MaxCrashes # 0 /\ Gone(p) /\ Calls(p, NoCall)
  /\ UNCHANGED doc /\ UNCHANGED Books /\ UNCHANGED notes /\ UNCHANGED jobs

Decides(d) ==
  /\ \E i \in DOMAIN notes[d], verdict \in {"authorized", "rejected", "canceled"} :
       /\ notes[d][i].status = "processing"
       /\ notes' = [notes EXCEPT ![d][i].status = verdict]
  /\ UNCHANGED act /\ UNCHANGED call /\ UNCHANGED doc /\ UNCHANGED Books /\ UNCHANGED jobs

\* nothing but the month, the counters or the packages changes
Calm ==
  /\ month' \in Months /\ ("month" \notin Env => UNCHANGED month)
  /\ UNCHANGED act /\ UNCHANGED call /\ UNCHANGED doc /\ UNCHANGED notes /\ UNCHANGED jobs
  /\ UNCHANGED ledger /\ UNCHANGED held

Requested(r) ==
  /\ act[r] \in AnyAct /\ ~Free(r) /\ r \in Callers
  /\ \/ Queues(r) \/ Concludes(r) \/ GivesUp(r) \/ Answered(r)
     \/ Enqueues(r) \/ Reprocesses(r) \/ Cancels(r)
Worked(w) ==
  /\ act[w] \in AnyAct /\ ~Free(w) /\ InPlace(w, act[w])
  /\ Closes(w) \/ Writes(w) \/ Posts(w) \/ Consults(w) \/ Ends(w)

LEMMA StepShape ==
  ASSUME Typed, [Next]_vars
  PROVE  \/ \E r \in Requests : Begins(r) \/ Requested(r)
         \/ \E w \in Workers : Drops(w) \/ Takes(w) \/ Finds(w) \/ Worked(w)
         \/ \E p \in Callers : Serve(p) \/ Dies(p)
         \/ \E d \in Docs : Decides(d)
         \/ Calm
<1>1. ASSUME NEW r \in Requests, NEW d \in Docs,
             RequestStart(r, d) \/ ReprocessStart(r, d) \/ CancelStart(r, d)
      PROVE  Begins(r)
  <2>1. /\ Free(r) /\ MayAsk(d) /\ r \in Callers /\ r \in DOMAIN act
        /\ UNCHANGED call /\ UNCHANGED doc /\ UNCHANGED Books /\ UNCHANGED notes /\ UNCHANGED jobs
    BY <1>1, EmissionAssumption DEF RequestStart, ReprocessStart, CancelStart, EmissionAssumption,
       Typed, quotaVars, Books
  <2>2. \E pc \in {"rq_create", "rq_requeue", "rq_manual", "rq_reject", "rp_save", "cn_call"} :
          /\ act' = [act EXCEPT ![r] = Begin(pc, d, NoJob)]
          /\ \/ pc = "rq_create" /\ doc[d].status = "absent"
             \/ /\ pc \in {"rq_requeue", "rq_manual", "rq_reject"}
                /\ doc[d].status \in Retriable /\ doc[d].status \notin {"absent", "authorized", "canceled"}
                /\ pc # "rq_requeue" => "payload" \in Env
             \/ /\ pc = "rp_save" /\ "reprocess" \in Env
                /\ doc[d].status \in Retriable /\ doc[d].status \in (Status \ Terminal) \cup {"rejected"}
             \/ pc = "cn_call" /\ doc[d].status = "authorized"
    <3>1. CASE RequestStart(r, d)
      <4>1. /\ doc[d].status \in Retriable \cup {"absent"}
            /\ doc[d].status \notin {"authorized", "canceled"}
        BY <3>1 DEF RequestStart
      <4>2. PICK pc \in IF doc[d].status = "absent" THEN {"rq_create"}
                         ELSE {"rq_requeue"} \cup
                              (IF "payload" \in Env THEN {"rq_manual", "rq_reject"} ELSE {}) :
                   act' = [act EXCEPT ![r] = Begin(pc, d, NoJob)]
        BY <3>1 DEF RequestStart
      <4>3. \/ doc[d].status = "absent" /\ pc = "rq_create"
            \/ /\ doc[d].status # "absent" /\ pc \in {"rq_requeue", "rq_manual", "rq_reject"}
               /\ pc # "rq_requeue" => "payload" \in Env
        BY <4>2
      <4> QED BY <4>1, <4>2, <4>3
    <3>2. CASE ReprocessStart(r, d)
      BY <3>2 DEF ReprocessStart
    <3>3. CASE CancelStart(r, d)
      BY <3>3 DEF CancelStart
    <3> QED BY <1>1, <3>1, <3>2, <3>3
  <2>3. PICK pc \in {"rq_create", "rq_requeue", "rq_manual", "rq_reject", "rp_save", "cn_call"} :
          /\ act' = [act EXCEPT ![r] = Begin(pc, d, NoJob)]
          /\ \/ pc = "rq_create" /\ doc[d].status = "absent"
             \/ /\ pc \in {"rq_requeue", "rq_manual", "rq_reject"}
                /\ doc[d].status \in Retriable /\ doc[d].status \notin {"absent", "authorized", "canceled"}
                /\ pc # "rq_requeue" => "payload" \in Env
             \/ /\ pc = "rp_save" /\ "reprocess" \in Env
                /\ doc[d].status \in Retriable /\ doc[d].status \in (Status \ Terminal) \cup {"rejected"}
             \/ pc = "cn_call" /\ doc[d].status = "authorized"
    BY <2>2
  <2>4. act'[r] = Begin(pc, d, NoJob) /\ Others(r)
    BY <2>1, <2>3 DEF Others, Typed
  <2> QED BY <2>1, <2>3, <2>4 DEF Begins, Books
<1>2. ASSUME NEW r \in Requests, RequestStep(r)
      PROVE  Requested(r)
  BY <1>2, RequestShape DEF Requested
<1>3. ASSUME NEW w \in Workers, WorkerStep(w)
      PROVE  Drops(w) \/ Takes(w) \/ Finds(w) \/ Worked(w)
  BY <1>3, WorkerShape DEF Worked
<1>4. ASSUME NEW p \in Callers, Crash(p)
      PROVE  Dies(p)
  <2>1. /\ ~Free(p) /\ MaxCrashes # 0
        /\ UNCHANGED doc /\ UNCHANGED Books /\ UNCHANGED notes /\ UNCHANGED jobs
    <3>1. 0 = MaxCrashes => ~(crashes < MaxCrashes) \/ crashes \notin Nat
      OBVIOUS
    <3> QED BY <1>4, <3>1 DEF Crash, Books, Typed
  <2>2. Gone(p) /\ Calls(p, NoCall)
    BY <1>4 DEF Crash, Leave, EndCall, Gone, Calls, Others, Typed
  <2> QED BY <2>1, <2>2 DEF Dies, Books
<1>5. ASSUME NEW d \in Docs, SefazDecides(d)
      PROVE  Decides(d)
  BY <1>5 DEF SefazDecides, Decides, quotaVars, Books
<1>6. ASSUME Surroundings
      PROVE  Calm
  <2>1. UNCHANGED act /\ UNCHANGED doc /\ UNCHANGED notes /\ UNCHANGED jobs
    BY <1>6 DEF Surroundings, emissionVars
  <2>2. \/ "month" \in Env /\ (TurnMonth \/ ResetRead \/ ResetWrite)
        \/ \E k \in Packages : Activate(k)
    BY <1>6 DEF Surroundings
  <2>3. /\ month' \in Months /\ ("month" \notin Env => UNCHANGED month)
        /\ UNCHANGED call /\ UNCHANGED ledger /\ UNCHANGED held
    BY <2>2 DEF TurnMonth, ResetRead, ResetWrite, Activate, Typed
  <2> QED BY <2>1, <2>3 DEF Calm
<1>7. CASE UNCHANGED vars
  BY <1>7 DEF vars, quotaVars, Calm, Typed
<1> QED BY <1>1, <1>2, <1>3, <1>4, <1>5, <1>6, <1>7 DEF Next

LEMMA NextShape ==
  ASSUME Typed, [Next]_vars
  PROVE  \/ \E r \in Requests : Begins(r) \/ Requested(r)
         \/ \E w \in Workers : Drops(w) \/ Takes(w) \/ Finds(w) \/ Worked(w)
         \/ \E p \in Callers : Serves(p) \/ Dies(p)
         \/ \E d \in Docs : Decides(d)
         \/ Calm
<1>1. \A p \in Callers : Serve(p) => Serves(p)
  BY QuotaShape
<1> QED BY <1>1, StepShape

-----------------------------------------------------------------------------
(* Notes *)

Verdicts == {"processing", "authorized", "rejected", "canceled"}

LEMMA NoteChanged ==
  ASSUME Typed, NEW d \in Docs, NEW i \in DOMAIN notes[d], NEW v \in Verdicts,
         notes' = [notes EXCEPT ![d][i].status = v]
  PROVE  /\ notes' \in [Docs -> Seq(AnyNote)] /\ \A e \in Docs \ {d} : notes'[e] = notes[e]
         /\ DOMAIN notes'[d] = DOMAIN notes[d] /\ Len(notes'[d]) = Len(notes[d])
         /\ notes'[d][i].key = notes[d][i].key /\ notes'[d][i].status = v
         /\ \A k \in DOMAIN notes[d] \ {i} : notes'[d][k] = notes[d][k]
<1>1. notes[d] \in Seq(AnyNote) /\ notes[d][i] \in AnyNote
  BY DEF Typed
<1>2. notes' = [notes EXCEPT ![d] = [notes[d] EXCEPT ![i] = [notes[d][i] EXCEPT !.status = v]]]
  OBVIOUS
<1>3. [notes[d][i] EXCEPT !.status = v] \in AnyNote
  BY <1>1 DEF AnyNote, Verdicts
<1>4. PICK ns : ns = [notes[d] EXCEPT ![i] = [notes[d][i] EXCEPT !.status = v]]
  OBVIOUS
<1>5. ns \in Seq(AnyNote) /\ Len(ns) = Len(notes[d]) /\ DOMAIN ns = DOMAIN notes[d]
  BY <1>1, <1>3, <1>4
<1>6. /\ ns[i] = [notes[d][i] EXCEPT !.status = v]
      /\ \A k \in DOMAIN notes[d] \ {i} : ns[k] = notes[d][k]
  BY <1>1, <1>4
<1>7. notes' \in [Docs -> Seq(AnyNote)] /\ notes'[d] = ns /\ \A e \in Docs \ {d} : notes'[e] = notes[e]
  BY <1>2, <1>4, <1>5 DEF Typed
<1>8. ns[i].key = notes[d][i].key /\ ns[i].status = v
  BY <1>1, <1>6 DEF AnyNote
<1> QED BY <1>5, <1>6, <1>7, <1>8

LEMMA NoteAdded ==
  ASSUME Typed, NEW d \in Docs, NEW key \in Nat, NEW v \in Verdicts,
         notes' = NotesAfter(d, key, v)
  PROVE  /\ notes' \in [Docs -> Seq(AnyNote)] /\ \A e \in Docs \ {d} : notes'[e] = notes[e]
         /\ \/ Keyed(d, key) # {} /\ UNCHANGED notes
            \/ /\ Keyed(d, key) = {} /\ Len(notes'[d]) = Len(notes[d]) + 1
               /\ DOMAIN notes'[d] = DOMAIN notes[d] \cup {Len(notes[d]) + 1}
               /\ notes'[d][Len(notes[d]) + 1] = [key |-> key, status |-> v]
               /\ \A k \in DOMAIN notes[d] : notes'[d][k] = notes[d][k]
<1>1. notes[d] \in Seq(AnyNote)
  BY DEF Typed
<1>2. [key |-> key, status |-> v] \in AnyNote
  BY DEF AnyNote, Verdicts
<1>3. CASE Keyed(d, key) # {}
  BY <1>3 DEF NotesAfter, Typed
<1>4. CASE Keyed(d, key) = {}
  <2>1. PICK ns : ns = Append(notes[d], [key |-> key, status |-> v])
    OBVIOUS
  <2>2. /\ ns \in Seq(AnyNote) /\ Len(ns) = Len(notes[d]) + 1
        /\ DOMAIN ns = DOMAIN notes[d] \cup {Len(notes[d]) + 1}
        /\ ns[Len(notes[d]) + 1] = [key |-> key, status |-> v]
        /\ \A k \in DOMAIN notes[d] : ns[k] = notes[d][k]
    BY <1>1, <1>2, <2>1
  <2>3. notes' = [notes EXCEPT ![d] = ns]
    BY <1>4, <2>1 DEF NotesAfter
  <2>4. notes' \in [Docs -> Seq(AnyNote)] /\ notes'[d] = ns /\ \A e \in Docs \ {d} : notes'[e] = notes[e]
    BY <2>2, <2>3 DEF Typed
  <2> QED BY <1>4, <2>2, <2>4
<1> QED BY <1>3, <1>4

-----------------------------------------------------------------------------
(* Types *)

LEMMA CountsTyped ==
  ASSUME Typed, [Next]_vars
  PROVE  consults' \in [Docs -> Nat] /\ emissions' \in [Docs -> Nat] /\ crashes' \in Nat
<1>1. ASSUME NEW r \in Requests, RequestEnqueue(r)
      PROVE  consults' \in [Docs -> Nat] /\ emissions' \in [Docs -> Nat] /\ crashes' \in Nat
  <2>1. act[r].doc \in Docs
    <3>1. act[r].pc = "rq_enqueue" /\ r \in Callers
      BY <1>1, EmissionAssumption DEF RequestEnqueue, EmissionAssumption
    <3> QED BY <3>1, FreeAct DEF AnyAct
  <2>2. \/ emissions' = [emissions EXCEPT ![act[r].doc] = emissions[act[r].doc] + 1]
        \/ UNCHANGED emissions
    BY <1>1 DEF RequestEnqueue
  <2>3. UNCHANGED <<consults, crashes>>
    BY <1>1 DEF RequestEnqueue
  <2>4. /\ consults \in [Docs -> Nat] /\ emissions \in [Docs -> Nat] /\ crashes \in Nat
        /\ emissions[act[r].doc] + 1 \in Nat
    BY <2>1 DEF Typed
  <2> QED BY <2>2, <2>3, <2>4
<1>2. ASSUME NEW w \in Workers, ReconcileConsult(w)
      PROVE  consults' \in [Docs -> Nat] /\ emissions' \in [Docs -> Nat] /\ crashes' \in Nat
  <2>1. consults' = [consults EXCEPT ![act[w].doc] = consults[act[w].doc] + 1]
        /\ UNCHANGED <<emissions, crashes>>
    BY <1>2 DEF ReconcileConsult
  <2>2. /\ consults \in [Docs -> Nat] /\ emissions \in [Docs -> Nat] /\ crashes \in Nat
    BY DEF Typed
  <2>3. act[w].doc \in Docs
    <3>1. act[w].pc = "rc_consult" /\ w \in Callers
      BY <1>2, EmissionAssumption DEF ReconcileConsult, EmissionAssumption
    <3> QED BY <3>1, FreeAct DEF AnyAct
  <2>4. consults[act[w].doc] + 1 \in Nat
    BY <2>2, <2>3
  <2> QED BY <2>1, <2>2, <2>4
<1>3. ASSUME NEW p \in Callers, Crash(p)
      PROVE  consults' \in [Docs -> Nat] /\ emissions' \in [Docs -> Nat] /\ crashes' \in Nat
  BY <1>3 DEF Crash, Typed
<1>4. ASSUME UNCHANGED <<consults, emissions, crashes>>
      PROVE  consults' \in [Docs -> Nat] /\ emissions' \in [Docs -> Nat] /\ crashes' \in Nat
  BY <1>4 DEF Typed
<1>5. ASSUME NEW r \in Requests, RequestStep(r), ~RequestEnqueue(r)
      PROVE  UNCHANGED <<consults, emissions, crashes>>
  BY <1>5 DEF RequestStep, RequestCreate, RequestRefused, RequestRequeue, RequestReserved,
     RequestOffline, ReprocessSave, ReprocessRead, ReprocessRequeue, CancelCall, CancelSave
<1>6. ASSUME NEW w \in Workers, WorkerStep(w), ~ReconcileConsult(w)
      PROVE  UNCHANGED <<consults, emissions, crashes>>
  BY <1>6 DEF WorkerStep, EmitStart, EmitManual, EmitReject, EmitSave, EmitPost, EmitResult,
     EmitEnqueue, ReconcileStart, ReconcileManual, ReconcileSave, ReconcileEnqueue, Closed
<1>7. ASSUME NEW r \in Requests, NEW d \in Docs,
             RequestStart(r, d) \/ ReprocessStart(r, d) \/ CancelStart(r, d)
      PROVE  UNCHANGED <<consults, emissions, crashes>>
  BY <1>7 DEF RequestStart, ReprocessStart, CancelStart
<1>8. ASSUME NEW d \in Docs, SefazDecides(d)
      PROVE  UNCHANGED <<consults, emissions, crashes>>
  BY <1>8 DEF SefazDecides
<1>9. ASSUME NEW p \in Callers, Serve(p)
      PROVE  UNCHANGED <<consults, emissions, crashes>>
  BY <1>9 DEF Serve, emissionVars
<1>10. ASSUME Surroundings \/ UNCHANGED vars
       PROVE  UNCHANGED <<consults, emissions, crashes>>
  BY <1>10 DEF Surroundings, emissionVars, vars
<1> QED BY <1>1, <1>2, <1>3, <1>4, <1>5, <1>6, <1>7, <1>8, <1>9, <1>10 DEF Next

\* notes only become more
Longer == \A d \in Docs : Len(notes[d]) <= Len(notes'[d])

\* p's handler takes another step, or ends; the others are as they were
LEMMA TypedFrom ==
  ASSUME Typed, [Next]_vars, NEW p \in Callers,
         month' \in Months, Others(p), act'[p] \in AnyAct \cup {NoAct},
         call' = [q \in Callers |-> call'[q]], call'[p] \in Call \cup {NoCall},
         \A q \in Callers \ {p} : call'[q] = call[q],
         doc' \in [Docs -> AnyRow], notes' \in [Docs -> Seq(AnyNote)], jobs' \subseteq AnyJob,
         Longer, \A d \in Docs : doc'[d].ref <= Len(notes'[d]),
         ~Free(p)' => InPlace(p, act[p])'
  PROVE  Typed'
<1>1. consults' \in [Docs -> Nat] /\ emissions' \in [Docs -> Nat] /\ crashes' \in Nat
  BY CountsTyped
<1>2. call' \in [Callers -> Call \cup {NoCall}]
  BY DEF Typed
<1>3. act' \in [Callers -> AnyAct \cup {NoAct}]
  BY DEF Typed, Others
<1>4. ASSUME NEW q \in Callers, q # p, ~Free(q)'
      PROVE  InPlace(q, act[q])'
  <2>1. act'[q] = act[q] /\ ~Free(q)
    BY <1>4 DEF Others, Free
  <2>2. act[q] \in AnyAct /\ InPlace(q, act[q])
    BY <2>1, FreeAct
  <2>3. /\ act[q].doc \in Docs /\ act[q].row.ref \in Nat /\ act[q].ref \in Nat
        /\ Len(notes[act[q].doc]) \in Nat /\ Len(notes'[act[q].doc]) \in Nat
        /\ Len(notes[act[q].doc]) <= Len(notes'[act[q].doc])
    BY <2>2 DEF AnyAct, AnyRow, Typed, Longer
  <2> QED BY <2>1, <2>2, <2>3 DEF InPlace
<1> QED BY <1>1, <1>2, <1>3, <1>4 DEF Typed

LEMMA NotesKept ==
  ASSUME Typed, UNCHANGED notes
  PROVE  Longer /\ notes' \in [Docs -> Seq(AnyNote)] /\ \A d \in Docs : Len(notes[d]) \in Nat
<1>1. \A d \in Docs : notes[d] \in Seq(AnyNote)
  BY DEF Typed
<1>2. \A d \in Docs : Len(notes[d]) \in Nat
  BY <1>1
<1> QED BY <1>2 DEF Typed, Longer

LEMMA SavedTyped ==
  ASSUME Typed, NEW p \in Callers, act[p].doc \in Docs, NEW s \in Status, NEW n \in Nat,
         Saved(p, s, n), n <= Len(notes[act[p].doc])
  PROVE  doc' \in [Docs -> AnyRow] /\ \A d \in Docs : doc'[d].ref <= Len(notes[d])
<1>1. doc'[act[p].doc] \in AnyRow /\ doc'[act[p].doc].ref = n
  BY DEF Saved, AnyRow
<1>2. \A e \in Docs \ {act[p].doc} : doc'[e] \in AnyRow /\ doc'[e].ref <= Len(notes[e])
  BY DEF Saved, Typed
<1> QED BY <1>1, <1>2 DEF Saved

LEMMA ReserveTypes ==
  ASSUME Typed, NEW d \in Docs
  PROVE  /\ ReserveCall(d) \in Call /\ ReserveCall(d).doc = d
         /\ ReserveCall(d).pc = "res_read" /\ ReserveCall(d).period = month
BY DEF Typed, ReserveCall, Start, Call, ReserveSteps

LEMMA CallTypes ==
  ASSUME NEW j \in AnyJob
  PROVE  LET c == ConsumeCall(j.doc, j.period, j.addon)
             r == ReleaseCall(j.doc, j.period)
         IN  /\ c \in Call /\ c.doc = j.doc /\ c.pc = "co_check" /\ c.period = j.period
             /\ r \in Call /\ r.doc = j.doc /\ r.pc = "rel_check" /\ r.period = j.period
             /\ j.doc \in Docs /\ j.period \in Months
BY DEF AnyJob, ConsumeCall, ReleaseCall, Start, Call, ConsumeSteps, ReleaseSteps

LEMMA RequestedTyped ==
  ASSUME Typed, [Next]_vars, NEW r \in Requests, Requested(r)
  PROVE  Typed'
<1>1. /\ r \in Callers /\ r \notin Workers /\ act[r] \in AnyAct /\ ~Free(r) /\ InPlace(r, act[r])
      /\ act[r].doc \in Docs /\ act[r].row \in AnyRow /\ act[r].row.ref \in Nat
      /\ act[r].row.status \in Status /\ act[r].pc \in RequestSteps
  BY FreeAct, EmissionAssumption DEF Requested, AnyAct, AnyRow, InPlace, EmissionAssumption
<1>2. /\ doc \in [Docs -> AnyRow] /\ \A d \in Docs : doc[d].ref <= Len(notes[d])
      /\ call = [q \in Callers |-> call[q]] /\ \A q \in Callers : call[q] \in Call \cup {NoCall}
      /\ jobs \subseteq AnyJob /\ month \in Months
  BY DEF Typed
<1>3. act[r].pc # "rp_read" => act[r].row.ref <= Len(notes[act[r].doc])
  BY <1>1 DEF InPlace, RequestSteps
<1>4. CASE Queues(r)
  <2>1. Longer /\ notes' \in [Docs -> Seq(AnyNote)] /\ UNCHANGED notes /\ month' \in Months
    BY <1>2, <1>4, NotesKept DEF Queues, Books
  <2>2. /\ doc' \in [Docs -> AnyRow] /\ \A d \in Docs : doc'[d].ref <= Len(notes[d])
    BY <1>1, <1>3, <1>4, SavedTyped DEF Queues, Status
  <2>3. /\ Others(r) /\ act'[r] \in AnyAct /\ act'[r].doc = act[r].doc
        /\ act'[r].pc \in {"rq_reserving", "rq_enqueue"} /\ act'[r].row.ref = act[r].row.ref
    BY <1>4 DEF Queues, To
  <2>4. /\ call' = [q \in Callers |-> call'[q]] /\ call'[r] \in Call \cup {NoCall}
        /\ \A q \in Callers \ {r} : call'[q] = call[q]
    BY <1>1, <1>2, <1>4, ReserveTypes DEF Queues, Calls
  <2>5. InPlace(r, act[r])'
    BY <1>1, <1>3, <1>4, <2>1, <2>3 DEF InPlace, RequestSteps, Queues
  <2>6. jobs' \subseteq AnyJob
    BY <1>2, <1>4 DEF Queues
  <2> QED BY <1>1, <2>1, <2>2, <2>3, <2>4, <2>5, <2>6, TypedFrom
<1>5. CASE Concludes(r) \/ GivesUp(r)
  <2>1. Longer /\ notes' \in [Docs -> Seq(AnyNote)] /\ UNCHANGED notes /\ month' \in Months
    BY <1>2, <1>5, NotesKept DEF Concludes, GivesUp, Books
  <2>2. /\ doc' \in [Docs -> AnyRow] /\ \A d \in Docs : doc'[d].ref <= Len(notes[d])
    <3>1. CASE GivesUp(r)
      BY <1>2, <3>1 DEF GivesUp
    <3>2. CASE Concludes(r)
      <4>1. PICK s \in Status : Saved(r, s, act[r].row.ref) /\ act[r].pc # "rp_read"
        BY <3>2 DEF Concludes, Status, Terminal
      <4> QED BY <1>1, <1>3, <4>1, SavedTyped
    <3> QED BY <1>5, <3>1, <3>2
  <2>3. Others(r) /\ act'[r] = NoAct /\ Free(r)'
    BY <1>5 DEF Concludes, GivesUp, Gone, Free
  <2>4. UNCHANGED call /\ UNCHANGED jobs
    BY <1>5 DEF Concludes, GivesUp
  <2> QED BY <1>1, <1>2, <2>1, <2>2, <2>3, <2>4, TypedFrom
<1>6. CASE Answered(r)
  <2>1. Longer /\ notes' \in [Docs -> Seq(AnyNote)] /\ UNCHANGED notes /\ month' \in Months
    BY <1>2, <1>6, NotesKept DEF Answered, Books
  <2>2. /\ Others(r) /\ act'[r] \in AnyAct /\ act'[r].doc = act[r].doc
        /\ act'[r].pc \in {"rq_enqueue", "rq_offline"} /\ act'[r].row = act[r].row
    BY <1>6 DEF Answered, To
  <2>3. /\ call' = [q \in Callers |-> call'[q]] /\ call'[r] = NoCall
        /\ \A q \in Callers \ {r} : call'[q] = call[q]
    BY <1>6 DEF Answered, Calls
  <2>4. InPlace(r, act[r])'
    BY <1>1, <1>3, <1>6, <2>1, <2>2 DEF InPlace, RequestSteps, Answered
  <2>5. UNCHANGED doc /\ UNCHANGED jobs
    BY <1>6 DEF Answered
  <2> QED BY <1>1, <1>2, <2>1, <2>2, <2>3, <2>4, <2>5, TypedFrom
<1>7. CASE Enqueues(r)
  <2>1. Longer /\ notes' \in [Docs -> Seq(AnyNote)] /\ UNCHANGED notes /\ month' \in Months
    BY <1>2, <1>7, NotesKept DEF Enqueues, Books
  <2>2. Others(r) /\ act'[r] = NoAct /\ Free(r)'
    BY <1>7 DEF Enqueues, Gone, Free
  <2>3. UNCHANGED call /\ UNCHANGED doc /\ jobs' \subseteq AnyJob
    BY <1>2, <1>7 DEF Enqueues
  <2> QED BY <1>1, <1>2, <2>1, <2>2, <2>3, TypedFrom
<1>8. CASE Reprocesses(r)
  <2>1. Longer /\ notes' \in [Docs -> Seq(AnyNote)] /\ UNCHANGED notes /\ month' \in Months
    BY <1>2, <1>8, NotesKept DEF Reprocesses, Books
  <2>2. UNCHANGED call /\ UNCHANGED jobs
    BY <1>8 DEF Reprocesses
  <2>3. CASE act[r].pc = "rp_save" /\ To(r, "rp_read") /\ Saved(r, "queued", act[r].row.ref)
    <3>1. /\ doc' \in [Docs -> AnyRow] /\ \A d \in Docs : doc'[d].ref <= Len(notes[d])
      BY <1>1, <1>3, <2>3, SavedTyped DEF Status
    <3>2. Others(r) /\ act'[r] \in AnyAct /\ act'[r].pc = "rp_read"
      BY <2>3 DEF To
    <3>3. InPlace(r, act[r])'
      BY <1>1, <3>2 DEF InPlace, RequestSteps
    <3> QED BY <1>1, <1>2, <2>1, <2>2, <3>1, <3>2, <3>3, TypedFrom
  <2>4. CASE /\ To(r, "rp_requeue") /\ UNCHANGED doc
             /\ act'[r].row = doc[act[r].doc]
    <3>1. Others(r) /\ act'[r] \in AnyAct /\ act'[r].pc = "rp_requeue" /\ act'[r].doc = act[r].doc
      BY <2>4 DEF To
    <3>2. InPlace(r, act[r])'
      BY <1>1, <1>2, <2>1, <2>4, <3>1 DEF InPlace, RequestSteps
    <3> QED BY <1>1, <1>2, <2>1, <2>2, <2>4, <3>1, <3>2, TypedFrom
  <2> QED BY <1>8, <2>3, <2>4 DEF Reprocesses
<1>9. CASE Cancels(r)
  <2>1. /\ UNCHANGED call /\ UNCHANGED doc /\ UNCHANGED jobs /\ month' \in Months
        /\ act[r].pc = "cn_call" /\ act'[r].row = act[r].row
        /\ Others(r) /\ act'[r] \in AnyAct /\ act'[r].pc = "cn_save" /\ act'[r].doc = act[r].doc
    BY <1>2, <1>9 DEF Cancels, To, Books
  <2>2. PICK i \in Lookup(act[r].doc, act[r].row.ref) :
             notes' = [notes EXCEPT ![act[r].doc][i].status = "canceled"]
    BY <1>9 DEF Cancels
  <2>3. i \in DOMAIN notes[act[r].doc]
    BY <1>1, <1>3, <2>1, <2>2, FoundNotes
  <2>4. /\ notes' \in [Docs -> Seq(AnyNote)] /\ Len(notes'[act[r].doc]) = Len(notes[act[r].doc])
        /\ \A e \in Docs \ {act[r].doc} : notes'[e] = notes[e]
    BY <1>1, <2>2, <2>3, NoteChanged DEF Verdicts
  <2>5. /\ \A d \in Docs : Len(notes'[d]) = Len(notes[d]) /\ Len(notes[d]) \in Nat
    <3>1. \A d \in Docs : notes[d] \in Seq(AnyNote)
      BY DEF Typed
    <3>2. \A d \in Docs : Len(notes[d]) \in Nat
      BY <3>1
    <3> QED BY <2>4, <3>2
  <2>6. Longer
    BY <2>5 DEF Longer
  <2>7. InPlace(r, act[r])'
    BY <1>1, <1>3, <2>1, <2>5 DEF InPlace, RequestSteps
  <2>8. \A d \in Docs : doc'[d].ref <= Len(notes'[d])
    BY <1>2, <2>1, <2>5
  <2> QED BY <1>1, <1>2, <2>1, <2>4, <2>6, <2>7, <2>8, TypedFrom
<1> QED BY <1>4, <1>5, <1>6, <1>7, <1>8, <1>9 DEF Requested

LEMMA WorkedTyped ==
  ASSUME Typed, [Next]_vars, NEW w \in Workers, Worked(w)
  PROVE  Typed'
<1>1. /\ w \in Callers /\ w \notin Requests /\ act[w] \in AnyAct /\ ~Free(w) /\ InPlace(w, act[w])
      /\ act[w].doc \in Docs /\ act[w].row \in AnyRow /\ act[w].row.ref \in Nat
      /\ act[w].row.status \in Status /\ act[w].pc \in WorkerSteps
      /\ act[w].job \in AnyJob /\ act[w].job.doc = act[w].doc /\ act[w].ref \in Nat
  BY EmissionAssumption DEF Worked, AnyAct, AnyRow, InPlace, EmissionAssumption
<1>2. /\ doc \in [Docs -> AnyRow] /\ \A d \in Docs : doc[d].ref <= Len(notes[d])
      /\ call = [q \in Callers |-> call[q]] /\ \A q \in Callers : call[q] \in Call \cup {NoCall}
      /\ jobs \subseteq AnyJob /\ month \in Months
  BY DEF Typed
<1>3. act[w].pc \notin {"em_enqueue", "rc_enqueue", "closing"} => act[w].row.ref <= Len(notes[act[w].doc])
  BY <1>1 DEF InPlace, WorkerSteps
<1>4. CASE Closes(w)
  <2>1. Longer /\ notes' \in [Docs -> Seq(AnyNote)] /\ UNCHANGED notes /\ month' \in Months
        /\ UNCHANGED jobs
    BY <1>2, <1>4, NotesKept DEF Closes, Books
  <2>2. PICK s \in {"authorized", "rejected", "manual_action"} :
          /\ Saved(w, s, act[w].row.ref) /\ Closing(w, s, act[w].job)
          /\ act[w].pc \notin {"em_enqueue", "rc_enqueue", "closing"}
    BY <1>4 DEF Closes
  <2>3. /\ doc' \in [Docs -> AnyRow] /\ \A d \in Docs : doc'[d].ref <= Len(notes[d])
    BY <1>1, <1>3, <2>2, SavedTyped DEF Status, Terminal
  <2>4. /\ Others(w) /\ act'[w] \in AnyAct /\ act'[w].doc = act[w].doc /\ act'[w].job = act[w].job
        /\ act'[w].pc = "closing"
        /\ call' = [q \in Callers |-> call'[q]] /\ call'[w] \in Call \cup {NoCall}
        /\ \A q \in Callers \ {w} : call'[q] = call[q]
    BY <1>1, <2>2, CallTypes DEF Closing, Calls
  <2>5. InPlace(w, act[w])'
    BY <1>1, <2>4 DEF InPlace, WorkerSteps
  <2> QED BY <1>1, <1>2, <2>1, <2>3, <2>4, <2>5, TypedFrom
<1>5. CASE Writes(w)
  <2>1. Longer /\ notes' \in [Docs -> Seq(AnyNote)] /\ UNCHANGED notes /\ month' \in Months
        /\ UNCHANGED jobs /\ UNCHANGED call
    BY <1>2, <1>5, NotesKept DEF Writes, Books
  <2>2. PICK s \in Status, n \in Nat : Saved(w, s, n) /\ n <= Len(notes[act[w].doc])
    <3>1. act[w].pc = "em_result" => act[w].ref <= Len(notes[act[w].doc])
      BY <1>1 DEF InPlace
    <3> QED BY <1>1, <1>3, <1>5, <3>1 DEF Writes, Status
  <2>3. /\ doc' \in [Docs -> AnyRow] /\ \A d \in Docs : doc'[d].ref <= Len(notes[d])
    BY <1>1, <2>2, SavedTyped
  <2>4. /\ Others(w) /\ act'[w] \in AnyAct /\ act'[w].doc = act[w].doc /\ act'[w].job = act[w].job
        /\ \/ /\ act'[w].pc = "em_post" /\ act[w].pc = "em_save"
              /\ act'[w].row = [status |-> "processing", ref |-> act[w].row.ref]
           \/ act'[w].pc \in {"em_enqueue", "rc_enqueue"}
    BY <1>5 DEF Writes, To
  <2>5. InPlace(w, act[w])'
    <3>1. CASE act'[w].pc \in {"em_enqueue", "rc_enqueue"}
      BY <1>1, <2>4, <3>1 DEF InPlace, WorkerSteps
    <3>2. CASE /\ act'[w].pc = "em_post" /\ act[w].pc = "em_save"
               /\ act'[w].row = [status |-> "processing", ref |-> act[w].row.ref]
      <4>1. act'[w].row.ref = act[w].row.ref /\ act[w].row.ref <= Len(notes'[act[w].doc])
        BY <1>1, <1>3, <2>1, <3>2
      <4> QED BY <1>1, <2>4, <3>2, <4>1 DEF InPlace, WorkerSteps
    <3> QED BY <2>4, <3>1, <3>2
  <2> QED BY <1>1, <1>2, <2>1, <2>3, <2>4, <2>5, TypedFrom
<1>6. CASE Posts(w)
  <2>. DEFINE d == act[w].doc
              key == act[w].row.ref
  <2>1. /\ Others(w) /\ act'[w] \in AnyAct /\ act'[w].doc = d /\ act'[w].job = act[w].job
        /\ act'[w].pc = "em_result" /\ act'[w].row = act[w].row /\ act[w].pc = "em_post"
        /\ act'[w].ref \in Nat
    BY <1>6 DEF Posts, To, AnyAct
  <2>2. UNCHANGED call /\ UNCHANGED doc /\ UNCHANGED jobs /\ month' \in Months
    BY <1>2, <1>6 DEF Posts, Books
  <2>3. \A e \in Docs : notes[e] \in Seq(AnyNote)
    BY DEF Typed
  <2>4. \A e \in Docs : Len(notes[e]) \in Nat
    BY <2>3
  <2>5. /\ key \in Nat /\ d \in Docs /\ key <= Len(notes[d])
    BY <1>1, <1>3, <2>1
  <2>6. /\ notes' \in [Docs -> Seq(AnyNote)] /\ \A e \in Docs \ {d} : notes'[e] = notes[e]
        /\ \/ UNCHANGED notes
           \/ Keyed(d, key) = {} /\ Len(notes'[d]) = Len(notes[d]) + 1
        /\ act'[w].result = "accepted" /\ Keyed(d, key) = {} => Len(notes'[d]) = Len(notes[d]) + 1
    <3>1. CASE UNCHANGED notes /\ act'[w].result # "accepted"
      BY <3>1 DEF Typed
    <3>2. ASSUME NEW v \in Verdicts, notes' = NotesAfter(d, key, v)
          PROVE  /\ notes' \in [Docs -> Seq(AnyNote)] /\ \A e \in Docs \ {d} : notes'[e] = notes[e]
                 /\ \/ UNCHANGED notes
                    \/ Keyed(d, key) = {} /\ Len(notes'[d]) = Len(notes[d]) + 1
                 /\ Keyed(d, key) = {} => Len(notes'[d]) = Len(notes[d]) + 1
      <4>. HIDE DEF d, key
      <4> QED BY <2>5, <3>2, NoteAdded
    <3>3. \/ UNCHANGED notes /\ act'[w].result # "accepted"
          \/ \E v \in Verdicts : notes' = NotesAfter(d, key, v)
      BY <1>6 DEF Posts, Verdicts
    <3> QED BY <3>1, <3>2, <3>3
  <2>7. Longer
    BY <2>4, <2>5, <2>6 DEF Longer
  <2>8. Keyed(d, key) \subseteq 1 .. Len(notes[d])
    BY <2>3, <2>5 DEF Keyed
  <2>9. act'[w].ref <= Len(notes'[d])
    <3>1. \/ act'[w].result # "accepted" /\ act'[w].ref = key
          \/ act'[w].result = "accepted" /\ Keyed(d, key) # {} /\ act'[w].ref \in Keyed(d, key)
          \/ act'[w].result = "accepted" /\ Keyed(d, key) = {} /\ act'[w].ref = Len(notes[d]) + 1
      BY <1>6 DEF Posts
    <3>2. Len(notes[d]) <= Len(notes'[d]) /\ Len(notes[d]) \in Nat /\ Len(notes'[d]) \in Nat
      <4>1. notes'[d] \in Seq(AnyNote)
        BY <2>5, <2>6
      <4>2. Len(notes'[d]) \in Nat
        BY <4>1
      <4> QED BY <2>4, <2>5, <2>7, <4>2 DEF Longer
    <3>. HIDE DEF d, key
    <3> QED BY <2>5, <2>6, <2>8, <3>1, <3>2
  <2>10. key <= Len(notes'[d])
    BY <2>4, <2>5, <2>6
  <2>11. InPlace(w, act[w])'
    BY <1>1, <2>1, <2>9, <2>10 DEF InPlace, WorkerSteps
  <2>12. \A e \in Docs : doc'[e].ref <= Len(notes'[e])
    <3>1. \A e \in Docs : doc[e].ref \in Nat /\ Len(notes'[e]) \in Nat
      <4>1. \A e \in Docs : notes'[e] \in Seq(AnyNote)
        BY <2>6
      <4>2. \A e \in Docs : Len(notes'[e]) \in Nat
        BY <4>1
      <4> QED BY <1>2, <4>2 DEF AnyRow
    <3> QED BY <1>2, <2>2, <2>4, <2>7, <3>1 DEF Longer
  <2> QED BY <1>1, <1>2, <2>1, <2>2, <2>6, <2>7, <2>11, <2>12, TypedFrom
<1>7. CASE Consults(w)
  <2>1. Longer /\ notes' \in [Docs -> Seq(AnyNote)] /\ UNCHANGED notes /\ month' \in Months
        /\ UNCHANGED jobs /\ UNCHANGED call /\ UNCHANGED doc
    BY <1>2, <1>7, NotesKept DEF Consults, Books
  <2>2. /\ Others(w) /\ act'[w] \in AnyAct /\ act'[w].doc = act[w].doc /\ act'[w].job = act[w].job
        /\ act'[w].pc = "rc_save" /\ act'[w].row = act[w].row /\ act[w].pc = "rc_consult"
    BY <1>7 DEF Consults, To
  <2>3. act'[w].result \in Found
    <3>1. act[w].row.ref <= Len(notes[act[w].doc])
      BY <1>3, <2>2
    <3>2. \A i \in Lookup(act[w].doc, act[w].row.ref) :
             notes[act[w].doc][i].status \in {"processing", "authorized", "rejected", "canceled"}
      BY <1>1, <3>1, FoundNotes
    <3> QED BY <1>7, <3>2 DEF Consults, Found
  <2>4. InPlace(w, act[w])'
    BY <1>1, <1>3, <2>1, <2>2, <2>3 DEF InPlace, WorkerSteps
  <2> QED BY <1>1, <1>2, <2>1, <2>2, <2>4, TypedFrom
<1>8. CASE Ends(w)
  <2>1. Longer /\ notes' \in [Docs -> Seq(AnyNote)] /\ UNCHANGED notes /\ month' \in Months
        /\ Others(w) /\ act'[w] = NoAct /\ Free(w)'
    BY <1>2, <1>8, NotesKept DEF Ends, Books, Gone, Free
  <2>2. /\ call' = [q \in Callers |-> call'[q]] /\ call'[w] \in Call \cup {NoCall}
        /\ \A q \in Callers \ {w} : call'[q] = call[q]
    BY <1>1, <1>2, <1>8 DEF Ends, Calls
  <2>3. jobs' \subseteq AnyJob
    BY <1>2, <1>8 DEF Ends
  <2>4. /\ doc' \in [Docs -> AnyRow] /\ \A d \in Docs : doc'[d].ref <= Len(notes[d])
    <3>1. CASE UNCHANGED doc
      BY <1>2, <3>1
    <3>2. CASE \/ act[w].pc = "em_manual" /\ Saved(w, "manual_action", act[w].row.ref)
               \/ act[w].pc = "em_result" /\ Saved(w, "provider_error", act[w].row.ref)
      <4>1. PICK s \in Status : Saved(w, s, act[w].row.ref)
        BY <3>2 DEF Status, Terminal
      <4> QED BY <1>1, <1>3, <3>2, <4>1, SavedTyped
    <3> QED BY <1>8, <3>1, <3>2 DEF Ends
  <2> QED BY <1>1, <1>2, <2>1, <2>2, <2>3, <2>4, TypedFrom
<1> QED BY <1>4, <1>5, <1>6, <1>7, <1>8 DEF Worked

LEMMA TypedStep ==
  ASSUME Typed, [Next]_vars
  PROVE  Typed'
<1>1. /\ doc \in [Docs -> AnyRow] /\ \A d \in Docs : doc[d].ref <= Len(notes[d])
      /\ call = [q \in Callers |-> call[q]] /\ \A q \in Callers : call[q] \in Call \cup {NoCall}
      /\ act = [q \in Callers |-> act[q]] /\ \A q \in Callers : act[q] \in AnyAct \cup {NoAct}
      /\ jobs \subseteq AnyJob /\ month \in Months
      /\ \A q \in Callers : ~Free(q) => InPlace(q, act[q])
  BY DEF Typed
<1>2. Callers = Requests \cup Workers /\ Requests \cap Workers = {}
  BY EmissionAssumption DEF EmissionAssumption
<1>3. ASSUME NEW r \in Requests, Begins(r)
      PROVE  Typed'
  <2>1. Longer /\ notes' \in [Docs -> Seq(AnyNote)] /\ UNCHANGED notes /\ month' \in Months
        /\ UNCHANGED jobs /\ UNCHANGED call /\ UNCHANGED doc
    BY <1>1, <1>3, NotesKept DEF Begins, Books
  <2>2. PICK d \in Docs, pc \in {"rq_create", "rq_requeue", "rq_manual", "rq_reject", "rp_save", "cn_call"} :
          act'[r] = Begin(pc, d, NoJob) /\ Others(r)
    BY <1>3 DEF Begins
  <2>3. /\ act'[r] \in AnyAct /\ act'[r].pc = pc /\ act'[r].doc = d /\ act'[r].row = doc[d]
    BY <2>2, BeginTyped DEF RequestSteps
  <2>4. InPlace(r, act[r])'
    BY <1>1, <1>2, <2>1, <2>3 DEF InPlace, RequestSteps
  <2> QED BY <1>1, <1>2, <2>1, <2>2, <2>3, <2>4, TypedFrom
<1>4. ASSUME NEW w \in Workers, Drops(w)
      PROVE  Typed'
  <2>1. Longer /\ notes' \in [Docs -> Seq(AnyNote)] /\ UNCHANGED notes /\ month' \in Months
        /\ UNCHANGED act /\ UNCHANGED call /\ UNCHANGED doc /\ jobs' \subseteq AnyJob
    BY <1>1, <1>4, NotesKept DEF Drops, Books
  <2>2. Others(w) /\ Free(w)' /\ act'[w] = NoAct
    BY <1>1, <1>4, <2>1 DEF Others, Drops, Free
  <2>3. call'[w] \in Call \cup {NoCall} /\ call' = [q \in Callers |-> call'[q]]
        /\ \A q \in Callers \ {w} : call'[q] = call[q]
    BY <1>1, <1>2, <2>1
  <2> QED BY <1>1, <1>2, <2>1, <2>2, <2>3, TypedFrom
<1>5. ASSUME NEW w \in Workers, Takes(w)
      PROVE  Typed'
  <2>1. Longer /\ notes' \in [Docs -> Seq(AnyNote)] /\ UNCHANGED notes /\ month' \in Months
        /\ UNCHANGED jobs /\ UNCHANGED call /\ UNCHANGED doc /\ Others(w)
    BY <1>1, <1>5, NotesKept DEF Takes, Books
  <2>2. PICK j \in jobs, pc \in {"em_save", "em_manual", "em_reject", "rc_manual", "rc_consult"} :
          act'[w] = Begin(pc, j.doc, j) /\ doc[j.doc].status \notin Terminal
    BY <1>5 DEF Takes
  <2>3. j \in AnyJob /\ j.doc \in Docs
    BY <1>1 DEF AnyJob
  <2>4. /\ act'[w] \in AnyAct /\ act'[w].pc = pc /\ act'[w].doc = j.doc /\ act'[w].row = doc[j.doc]
        /\ act'[w].job = j
    BY <2>2, <2>3, BeginTyped DEF WorkerSteps
  <2>5. InPlace(w, act[w])'
    BY <1>1, <1>2, <2>1, <2>2, <2>3, <2>4 DEF InPlace, WorkerSteps
  <2> QED BY <1>1, <1>2, <2>1, <2>4, <2>5, TypedFrom
<1>6. ASSUME NEW w \in Workers, Finds(w)
      PROVE  Typed'
  <2>1. Longer /\ notes' \in [Docs -> Seq(AnyNote)] /\ UNCHANGED notes /\ month' \in Months
        /\ UNCHANGED jobs /\ UNCHANGED doc
    BY <1>1, <1>6, NotesKept DEF Finds, Books
  <2>2. PICK j \in jobs : Closing(w, doc[j.doc].status, j)
    BY <1>6 DEF Finds
  <2>3. j \in AnyJob
    BY <1>1
  <2>4. /\ Others(w) /\ act'[w] \in AnyAct /\ act'[w].doc = j.doc /\ act'[w].job = j
        /\ act'[w].pc = "closing"
        /\ call' = [q \in Callers |-> call'[q]] /\ call'[w] \in Call \cup {NoCall}
        /\ \A q \in Callers \ {w} : call'[q] = call[q]
    BY <2>2, <2>3, CallTypes DEF Closing, Calls
  <2>5. InPlace(w, act[w])'
    BY <1>2, <2>3, <2>4 DEF InPlace, WorkerSteps
  <2> QED BY <1>1, <1>2, <2>1, <2>4, <2>5, TypedFrom
<1>7. ASSUME NEW p \in Callers, Serves(p)
      PROVE  Typed'
  <2>1. Longer /\ notes' \in [Docs -> Seq(AnyNote)] /\ UNCHANGED notes /\ month' \in Months
        /\ UNCHANGED act /\ UNCHANGED jobs /\ UNCHANGED doc
    BY <1>1, <1>7, NotesKept DEF Serves
  <2>2. /\ call' = [q \in Callers |-> call'[q]] /\ call'[p] \in Call \cup {NoCall}
        /\ \A q \in Callers \ {p} : call'[q] = call[q]
    BY <1>7 DEF Serves, Calls
  <2>3. Others(p)
    BY <1>1, <2>1 DEF Others
  <2>4. ~Free(p)' => InPlace(p, act[p])'
    BY <1>1, <2>1 DEF Free, InPlace
  <2> QED BY <1>1, <2>1, <2>2, <2>3, <2>4, TypedFrom
<1>8. ASSUME NEW p \in Callers, Dies(p)
      PROVE  Typed'
  <2>1. Longer /\ notes' \in [Docs -> Seq(AnyNote)] /\ UNCHANGED notes /\ month' \in Months
        /\ UNCHANGED jobs /\ UNCHANGED doc
    BY <1>1, <1>8, NotesKept DEF Dies, Books
  <2>2. /\ call' = [q \in Callers |-> call'[q]] /\ call'[p] = NoCall
        /\ \A q \in Callers \ {p} : call'[q] = call[q]
    BY <1>8 DEF Dies, Calls
  <2>3. Others(p) /\ act'[p] = NoAct /\ Free(p)'
    BY <1>8 DEF Dies, Gone, Free
  <2> QED BY <1>1, <2>1, <2>2, <2>3, TypedFrom
<1>9. consults' \in [Docs -> Nat] /\ emissions' \in [Docs -> Nat] /\ crashes' \in Nat
  BY CountsTyped
<1>10. ASSUME NEW d \in Docs, Decides(d)
       PROVE  Typed'
  <2>1. /\ UNCHANGED act /\ UNCHANGED call /\ UNCHANGED doc /\ UNCHANGED jobs /\ month' \in Months
    BY <1>1, <1>10 DEF Decides, Books
  <2>2. PICK i \in DOMAIN notes[d], v \in Verdicts : notes' = [notes EXCEPT ![d][i].status = v]
    BY <1>10 DEF Decides, Verdicts
  <2>3. /\ notes' \in [Docs -> Seq(AnyNote)] /\ \A e \in Docs \ {d} : notes'[e] = notes[e]
        /\ Len(notes'[d]) = Len(notes[d])
    BY <2>2, NoteChanged
  <2>4. \A e \in Docs : Len(notes'[e]) = Len(notes[e])
    BY <2>3
  <2>5. \A p \in Callers : ~Free(p)' => InPlace(p, act[p])'
    <3>1. \A p \in Callers : ~Free(p) => act[p].doc \in Docs
      BY FreeAct DEF AnyAct
    <3> QED BY <1>1, <2>1, <2>4, <3>1 DEF Free, InPlace
  <2> QED BY <1>1, <1>9, <2>1, <2>3, <2>4, <2>5 DEF Typed
<1>11. CASE Calm
  BY <1>1, <1>9, <1>11 DEF Calm, Typed, Free, InPlace
<1> QED BY <1>3, <1>4, <1>5, <1>6, <1>7, <1>8, <1>10, <1>11, NextShape, RequestedTyped, WorkedTyped

LEMMA TypedInit ==
  ASSUME Init
  PROVE  Typed
<1>1. \A d \in Docs : notes[d] = <<>> /\ notes[d] \in Seq(AnyNote) /\ Len(notes[d]) = 0
  BY DEF Init
<1>2. notes \in [Docs -> Seq(AnyNote)]
  BY <1>1 DEF Init
<1> QED BY <1>1, <1>2, QuotaAssumption DEF Init, QuotaInit, Typed, QuotaAssumption, NoRow, AnyRow,
           Status, Free

\* Every document, note, job and handler keeps its type whatever overlaps and
\* dies; a reference never points past the provider's documents, and a handler
\* that saves what a consult found has found something.
THEOREM Typing == Spec => []Typed
<1>1. Init => Typed
  BY TypedInit
<1>2. Typed /\ [Next]_vars => Typed'
  BY TypedStep
<1> QED BY <1>1, <1>2, PTL DEF Spec

-----------------------------------------------------------------------------
(* What is said of the notes *)

Sealed == {"authorized", "canceled"}

\* among ns there is a note that reference ref denotes and SEFAZ authorized
Vouched(ns, ref) ==
  \E i \in DOMAIN ns : /\ ns[i].status \in Sealed
                       /\ ref > 0 => i = ref
                       /\ ref = 0 => ns[i].key = 0
Proved(ns) == \E i \in DOMAIN ns : ns[i].status \in Sealed

\* what a handler takes from the provider to its row is so
Grounded(a) ==
  /\ a.pc = "em_result" => a.result # "authorized"
  /\ a.pc = "rc_save" /\ a.result = "authorized" => Vouched(notes[a.doc], a.row.ref)
  /\ a.pc = "cn_save" => Vouched(notes[a.doc], a.row.ref)

DocsGrounded == \A d \in Docs : doc[d].status \in Sealed => Vouched(notes[d], doc[d].ref)
LedgerGrounded ==
  \A d \in Docs, m \in Months : ConsumeKey(m, d) \in ledger => Proved(notes[d])
ActsGrounded == \A p \in Callers : ~Free(p) => Grounded(act[p])
CallGrounded(c) == c.pc \in ConsumeSteps => Proved(notes[c.doc])
CallsGrounded == \A p \in Callers : CallGrounded(call[p])

Genuine == DocsGrounded /\ LedgerGrounded /\ ActsGrounded /\ CallsGrounded

\* notes keep their keys, and what SEFAZ has authorized stays authorized or canceled
Lasting ==
  \A d \in Docs : \A i \in DOMAIN notes[d] :
    /\ i \in DOMAIN notes'[d] /\ notes'[d][i].key = notes[d][i].key
    /\ notes[d][i].status \in Sealed => notes'[d][i].status \in Sealed

LEMMA NotesLast ==
  ASSUME Typed, [Next]_vars
  PROVE  Lasting
<1>1. ASSUME UNCHANGED notes
      PROVE  Lasting
  BY <1>1 DEF Lasting
<1>2. ASSUME NEW d \in Docs, NEW i \in DOMAIN notes[d], NEW v \in Verdicts,
             notes' = [notes EXCEPT ![d][i].status = v],
             notes[d][i].status = "processing" \/ v \in Sealed
      PROVE  Lasting
  <2>1. /\ \A e \in Docs \ {d} : notes'[e] = notes[e]
        /\ DOMAIN notes'[d] = DOMAIN notes[d]
        /\ notes'[d][i].key = notes[d][i].key /\ notes'[d][i].status = v
        /\ \A k \in DOMAIN notes[d] \ {i} : notes'[d][k] = notes[d][k]
    BY <1>2, NoteChanged
  <2>2. notes[d][i].status \in Sealed => notes'[d][i].status \in Sealed
    BY <1>2, <2>1 DEF Sealed
  <2> QED BY <2>1, <2>2 DEF Lasting
<1>3. ASSUME NEW d \in Docs, NEW key \in Nat, NEW v \in Verdicts, notes' = NotesAfter(d, key, v)
      PROVE  Lasting
  <2>1. /\ \A e \in Docs \ {d} : notes'[e] = notes[e]
        /\ \/ UNCHANGED notes
           \/ /\ DOMAIN notes'[d] = DOMAIN notes[d] \cup {Len(notes[d]) + 1}
              /\ \A k \in DOMAIN notes[d] : notes'[d][k] = notes[d][k]
    BY <1>3, NoteAdded
  <2> QED BY <1>1, <2>1 DEF Lasting
<1>4. ASSUME NEW r \in Requests, Begins(r) \/ Requested(r)
      PROVE  Lasting
  <2>1. CASE Requested(r) /\ Cancels(r)
    <3>1. act[r] \in AnyAct /\ act[r].pc = "cn_call" /\ InPlace(r, act[r])
      BY <2>1, FreeAct DEF Requested, Cancels
    <3>2. act[r].doc \in Docs /\ act[r].row.ref \in Nat /\ act[r].row.ref <= Len(notes[act[r].doc])
      BY <3>1 DEF AnyAct, AnyRow, InPlace
    <3>3. PICK i \in Lookup(act[r].doc, act[r].row.ref) :
               notes' = [notes EXCEPT ![act[r].doc][i].status = "canceled"]
      BY <2>1 DEF Cancels
    <3>4. i \in DOMAIN notes[act[r].doc]
      BY <3>2, <3>3, FoundNotes
    <3> QED BY <1>2, <3>2, <3>3, <3>4 DEF Verdicts, Sealed
  <2>2. CASE ~Cancels(r)
    <3>1. UNCHANGED notes
      BY <1>4, <2>2 DEF Begins, Requested, Queues, Concludes, GivesUp, Answered, Enqueues, Reprocesses
    <3> QED BY <1>1, <3>1
  <2>3. CASE Begins(r)
    <3>1. UNCHANGED notes
      BY <2>3 DEF Begins
    <3> QED BY <1>1, <3>1
  <2> QED BY <1>4, <2>1, <2>2, <2>3
<1>5. ASSUME NEW w \in Workers, Drops(w) \/ Takes(w) \/ Finds(w) \/ Worked(w)
      PROVE  Lasting
  <2>1. CASE Worked(w) /\ Posts(w)
    <3>1. act[w].doc \in Docs /\ act[w].row.ref \in Nat
      BY <2>1 DEF Worked, AnyAct, AnyRow
    <3>2. UNCHANGED notes \/ \E v \in Verdicts : notes' = NotesAfter(act[w].doc, act[w].row.ref, v)
      BY <2>1 DEF Posts, Verdicts
    <3> QED BY <1>1, <1>3, <3>1, <3>2
  <2>2. CASE Worked(w) /\ ~Posts(w)
    <3>1. UNCHANGED notes
      BY <2>2 DEF Worked, Closes, Writes, Consults, Ends
    <3> QED BY <1>1, <3>1
  <2>3. CASE Drops(w) \/ Takes(w) \/ Finds(w)
    <3>1. UNCHANGED notes
      BY <2>3 DEF Drops, Takes, Finds
    <3> QED BY <1>1, <3>1
  <2> QED BY <1>5, <2>1, <2>2, <2>3
<1>6. ASSUME NEW p \in Callers, Serves(p) \/ Dies(p)
      PROVE  Lasting
  BY <1>1, <1>6 DEF Serves, Dies
<1>7. ASSUME NEW d \in Docs, Decides(d)
      PROVE  Lasting
  <2>1. PICK i \in DOMAIN notes[d], v \in {"authorized", "rejected", "canceled"} :
          notes[d][i].status = "processing" /\ notes' = [notes EXCEPT ![d][i].status = v]
    BY <1>7 DEF Decides
  <2> QED BY <1>2, <2>1 DEF Verdicts
<1>8. ASSUME Calm
      PROVE  Lasting
  BY <1>1, <1>8 DEF Calm
<1> QED BY <1>4, <1>5, <1>6, <1>7, <1>8, NextShape

LEMMA VouchedLasts ==
  ASSUME Lasting, NEW d \in Docs
  PROVE  /\ Proved(notes[d]) => Proved(notes'[d])
         /\ \A ref \in Nat : Vouched(notes[d], ref) => Vouched(notes'[d], ref)
         /\ \A ref \in Nat : Vouched(notes[d], ref) => Proved(notes[d])
BY DEF Lasting, Vouched, Proved

\* a step of p that leaves its document, its call and the ledger in order
LEMMA GenuineFrom ==
  ASSUME Typed, Typed', Genuine, Lasting, NEW p \in Callers,
         Others(p), \A q \in Callers \ {p} : call'[q] = call[q],
         NEW e \in Docs, \A d \in Docs \ {e} : doc'[d] = doc[d],
         doc'[e] = doc[e] \/ doc'[e].status \notin Sealed \/ Vouched(notes'[e], doc'[e].ref),
         \A d \in Docs, m \in Months :
           ConsumeKey(m, d) \in ledger' => ConsumeKey(m, d) \in ledger \/ Proved(notes'[d]),
         ~Free(p)' => Grounded(act[p])',
         CallGrounded(call[p])'
  PROVE  Genuine'
<1>1. \A d \in Docs : doc[d].ref \in Nat
  BY DEF Typed, AnyRow
<1>2. DocsGrounded'
  BY <1>1, VouchedLasts DEF Genuine, DocsGrounded
<1>3. LedgerGrounded'
  BY VouchedLasts DEF Genuine, LedgerGrounded
<1>4. ASSUME NEW q \in Callers, q # p, ~Free(q)'
      PROVE  Grounded(act[q])'
  <2>1. act'[q] = act[q] /\ ~Free(q)
    BY <1>4 DEF Others, Free
  <2>2. act[q].doc \in Docs /\ act[q].row.ref \in Nat
    BY <2>1, FreeAct DEF AnyAct, AnyRow
  <2>3. Grounded(act[q])
    BY <2>1 DEF Genuine, ActsGrounded
  <2> QED BY <2>1, <2>2, <2>3, VouchedLasts DEF Grounded
<1>5. ActsGrounded'
  BY <1>4 DEF ActsGrounded
<1>6. ASSUME NEW q \in Callers, q # p
      PROVE  CallGrounded(call[q])'
  <2>1. CallGrounded(call[q]) /\ call'[q] = call[q]
    BY <1>6 DEF Genuine, CallsGrounded
  <2>2. call[q].pc \in ConsumeSteps => call[q].doc \in Docs
    BY DEF Typed, NoCall, Call, ConsumeSteps
  <2> QED BY <2>1, <2>2, VouchedLasts DEF CallGrounded
<1>7. CallsGrounded'
  BY <1>6 DEF CallsGrounded
<1> QED BY <1>2, <1>3, <1>5, <1>7 DEF Genuine

\* nothing but notes and counters moves
LEMMA GenuineKept ==
  ASSUME Typed, Genuine, Lasting, UNCHANGED <<act, call, doc, ledger>>
  PROVE  Genuine'
<1>1. \A d \in Docs : doc[d].ref \in Nat
  BY DEF Typed, AnyRow
<1>2. DocsGrounded' /\ LedgerGrounded'
  BY <1>1, VouchedLasts DEF Genuine, DocsGrounded, LedgerGrounded
<1>3. ASSUME NEW q \in Callers, ~Free(q)
      PROVE  Grounded(act[q])'
  <2>1. act[q].doc \in Docs /\ act[q].row.ref \in Nat
    BY <1>3, FreeAct DEF AnyAct, AnyRow
  <2> QED BY <1>3, <2>1, VouchedLasts DEF Grounded, Genuine, ActsGrounded
<1>4. ActsGrounded'
  BY <1>3 DEF ActsGrounded, Free
<1>5. ASSUME NEW q \in Callers
      PROVE  CallGrounded(call[q])'
  <2>1. call[q].pc \in ConsumeSteps => call[q].doc \in Docs
    BY DEF Typed, NoCall, Call, ConsumeSteps
  <2> QED BY <2>1, VouchedLasts DEF CallGrounded, Genuine, CallsGrounded
<1>6. CallsGrounded'
  BY <1>5 DEF CallsGrounded
<1> QED BY <1>2, <1>4, <1>6 DEF Genuine

LEMMA RequestGenuine ==
  ASSUME Typed, Typed', Genuine, Lasting, NEW r \in Requests, Begins(r) \/ Requested(r)
  PROVE  Genuine'
<1>1. r \in Callers /\ r \notin Workers
  BY EmissionAssumption DEF EmissionAssumption
<1>2. UNCHANGED ledger /\ CallGrounded(call[r])
  BY <1>1 DEF Begins, Requested, Queues, Concludes, GivesUp, Answered, Enqueues, Reprocesses, Cancels,
     Books, Genuine, CallsGrounded
<1>3. CASE Begins(r)
  <2>1. PICK d \in Docs, pc \in {"rq_create", "rq_requeue", "rq_manual", "rq_reject", "rp_save", "cn_call"} :
          act'[r] = Begin(pc, d, NoJob) /\ Others(r)
    BY <1>3 DEF Begins
  <2>2. act'[r].pc = pc
    BY <2>1, BeginTyped DEF RequestSteps
  <2>3. Grounded(act[r])'
    BY <2>2 DEF Grounded
  <2>4. UNCHANGED doc /\ UNCHANGED call /\ UNCHANGED notes
    BY <1>3 DEF Begins
  <2>5. CallGrounded(call[r])'
    BY <1>2, <2>4 DEF CallGrounded
  <2> QED BY <1>1, <1>2, <2>1, <2>3, <2>4, <2>5, GenuineFrom
<1>4. CASE Requested(r)
  <2>1. act[r] \in AnyAct /\ act[r].doc \in Docs /\ ~Free(r) /\ InPlace(r, act[r]) /\ Grounded(act[r])
        /\ act[r].row.ref \in Nat
    BY <1>1, <1>4, FreeAct DEF Requested, AnyAct, AnyRow, Genuine, ActsGrounded
  <2>2. CASE Queues(r)
    <3>1. Saved(r, "queued", act[r].row.ref) /\ Others(r) /\ act'[r].pc \in {"rq_reserving", "rq_enqueue"}
      BY <2>2 DEF Queues, To
    <3>2. /\ call' = call \/ Calls(r, ReserveCall(act[r].doc))
          /\ UNCHANGED notes
      BY <2>2 DEF Queues
    <3>3. CallGrounded(call[r])'
      BY <1>2, <2>1, <3>2, ReserveTypes DEF CallGrounded, Calls, ConsumeSteps
    <3>4. \A q \in Callers \ {r} : call'[q] = call[q]
      BY <3>2 DEF Calls
    <3>5. doc'[act[r].doc].status \notin Sealed /\ \A d \in Docs \ {act[r].doc} : doc'[d] = doc[d]
      BY <3>1 DEF Saved, Sealed
    <3>6. Grounded(act[r])'
      BY <3>1 DEF Grounded
    <3> QED BY <1>1, <1>2, <2>1, <3>1, <3>3, <3>4, <3>5, <3>6, GenuineFrom
  <2>3. CASE Concludes(r)
    <3>1. PICK s \in {"rejected", "manual_action", "offline_receipt", "queued", "canceled"} :
             Saved(r, s, act[r].row.ref) /\ (s = "canceled" => act[r].pc = "cn_save")
      BY <2>3 DEF Concludes
    <3>2. Others(r) /\ Free(r)' /\ UNCHANGED call /\ UNCHANGED notes
      BY <2>3 DEF Concludes, Gone, Free
    <3>3. CallGrounded(call[r])'
      BY <1>2, <3>2 DEF CallGrounded
    <3>4. /\ doc'[act[r].doc] = [status |-> s, ref |-> act[r].row.ref]
          /\ \A d \in Docs \ {act[r].doc} : doc'[d] = doc[d]
      BY <3>1 DEF Saved
    <3>5. doc'[act[r].doc].status \notin Sealed \/ Vouched(notes'[act[r].doc], doc'[act[r].doc].ref)
      BY <2>1, <3>1, <3>2, <3>4 DEF Sealed, Grounded
    <3> QED BY <1>1, <1>2, <2>1, <3>2, <3>3, <3>4, <3>5, GenuineFrom
  <2>4. CASE GivesUp(r) \/ Enqueues(r)
    <3>1. Others(r) /\ Free(r)' /\ UNCHANGED call /\ UNCHANGED notes /\ UNCHANGED doc
      BY <2>4 DEF GivesUp, Enqueues, Gone, Free
    <3>2. CallGrounded(call[r])'
      BY <1>2, <3>1 DEF CallGrounded
    <3> QED BY <1>1, <1>2, <2>1, <3>1, <3>2, GenuineFrom
  <2>5. CASE Answered(r)
    <3>1. /\ Others(r) /\ act'[r].pc \in {"rq_enqueue", "rq_offline"} /\ UNCHANGED doc
          /\ Calls(r, NoCall)
      BY <2>5 DEF Answered, To
    <3>2. CallGrounded(call[r])' /\ Grounded(act[r])' /\ \A q \in Callers \ {r} : call'[q] = call[q]
      BY <3>1 DEF CallGrounded, NoCall, ConsumeSteps, Calls, Grounded
    <3> QED BY <1>1, <1>2, <2>1, <3>1, <3>2, GenuineFrom
  <2>6. CASE Reprocesses(r)
    <3>1. /\ Others(r) /\ act'[r].pc \in {"rp_read", "rp_requeue"}
          /\ UNCHANGED call /\ UNCHANGED notes
          /\ UNCHANGED doc \/ Saved(r, "queued", act[r].row.ref)
      BY <2>6 DEF Reprocesses, To
    <3>2. CallGrounded(call[r])' /\ Grounded(act[r])'
      BY <1>2, <3>1 DEF CallGrounded, Grounded
    <3>3. doc'[act[r].doc] = doc[act[r].doc] \/ doc'[act[r].doc].status \notin Sealed
      BY <3>1 DEF Saved, Sealed
    <3>4. \A d \in Docs \ {act[r].doc} : doc'[d] = doc[d]
      BY <3>1 DEF Saved
    <3> QED BY <1>1, <1>2, <2>1, <3>1, <3>2, <3>3, <3>4, GenuineFrom
  <2>7. CASE Cancels(r)
    <3>1. /\ Others(r) /\ act'[r].pc = "cn_save" /\ act'[r].doc = act[r].doc /\ act'[r].row = act[r].row
          /\ act[r].pc = "cn_call" /\ UNCHANGED call /\ UNCHANGED doc
      BY <2>7 DEF Cancels, To
    <3>2. PICK i \in Lookup(act[r].doc, act[r].row.ref) :
               notes' = [notes EXCEPT ![act[r].doc][i].status = "canceled"]
      BY <2>7 DEF Cancels
    <3>3. act[r].row.ref <= Len(notes[act[r].doc])
      BY <2>1, <3>1 DEF InPlace
    <3>4. i \in DOMAIN notes[act[r].doc]
      BY <2>1, <3>2, <3>3, FoundNotes
    <3>5. /\ i \in DOMAIN notes'[act[r].doc] /\ notes'[act[r].doc][i].status = "canceled"
          /\ notes'[act[r].doc][i].key = notes[act[r].doc][i].key
      BY <2>1, <3>2, <3>4, NoteChanged DEF Verdicts
    <3>6. /\ act[r].row.ref > 0 => i = act[r].row.ref
          /\ act[r].row.ref = 0 => notes[act[r].doc][i].key = 0
      BY <3>2 DEF Lookup
    <3>7. Vouched(notes'[act[r].doc], act[r].row.ref)
      BY <3>5, <3>6 DEF Vouched, Sealed
    <3>8. Grounded(act[r])'
      BY <3>1, <3>7 DEF Grounded
    <3>9. CallGrounded(call[r])'
      <4>1. call[r].pc \in ConsumeSteps => call[r].doc \in Docs
        BY <1>1 DEF Typed, NoCall, Call, ConsumeSteps
      <4> QED BY <1>2, <3>1, <4>1, VouchedLasts DEF CallGrounded
    <3> QED BY <1>1, <1>2, <2>1, <3>1, <3>8, <3>9, GenuineFrom
  <2> QED BY <1>4, <2>2, <2>3, <2>4, <2>5, <2>6, <2>7 DEF Requested
<1> QED BY <1>3, <1>4

LEMMA WorkerGenuine ==
  ASSUME "authorized" \notin Answers,
         Typed, Typed', Genuine, Lasting, NEW w \in Workers,
         Drops(w) \/ Takes(w) \/ Finds(w) \/ Worked(w)
  PROVE  Genuine'
<1>1. w \in Callers /\ w \notin Requests
  BY EmissionAssumption DEF EmissionAssumption
<1>2. UNCHANGED ledger /\ CallGrounded(call[w])
  BY <1>1 DEF Drops, Takes, Finds, Worked, Closes, Writes, Posts, Consults, Ends,
     Books, Genuine, CallsGrounded
<1>3. ASSUME NEW s, NEW j \in AnyJob, Closing(w, s, j),
             s = "authorized" => Proved(notes'[j.doc])
      PROVE  /\ Others(w) /\ \A q \in Callers \ {w} : call'[q] = call[q]
             /\ CallGrounded(call[w])' /\ Grounded(act[w])' /\ j.doc \in Docs
  <2>1. CallGrounded(call[w])'
    BY <1>1, <1>3, CallTypes DEF Closing, Calls, CallGrounded, ConsumeSteps
  <2> QED BY <1>3, <2>1 DEF Closing, Calls, Grounded, AnyJob
<1>4. CASE Drops(w)
  <2>1. PICK j \in jobs : TRUE
    BY <1>4 DEF Drops
  <2>2. j.doc \in Docs
    BY DEF Typed, AnyJob
  <2>3. UNCHANGED <<act, call, doc, ledger>>
    BY <1>2, <1>4 DEF Drops
  <2> QED BY <2>3, GenuineKept
<1>5. CASE Takes(w)
  <2>1. PICK j \in jobs, pc \in {"em_save", "em_manual", "em_reject", "rc_manual", "rc_consult"} :
          act'[w] = Begin(pc, j.doc, j)
    BY <1>5 DEF Takes
  <2>2. j \in AnyJob /\ j.doc \in Docs
    BY DEF Typed, AnyJob
  <2>3. act'[w].pc = pc
    BY <2>1, <2>2, BeginTyped DEF WorkerSteps
  <2>4. Grounded(act[w])'
    BY <2>3 DEF Grounded
  <2>5. UNCHANGED doc /\ UNCHANGED call /\ UNCHANGED notes /\ Others(w)
    BY <1>5 DEF Takes
  <2>6. CallGrounded(call[w])'
    BY <1>2, <2>5 DEF CallGrounded
  <2> QED BY <1>1, <1>2, <2>2, <2>4, <2>5, <2>6, GenuineFrom
<1>6. CASE Finds(w)
  <2>1. PICK j \in jobs : Closing(w, doc[j.doc].status, j)
    BY <1>6 DEF Finds
  <2>2. j \in AnyJob /\ j.doc \in Docs /\ doc[j.doc].ref \in Nat
    BY DEF Typed, AnyJob, AnyRow
  <2>3. doc[j.doc].status = "authorized" => Proved(notes'[j.doc])
    BY <2>2, VouchedLasts DEF Genuine, DocsGrounded, Sealed
  <2>4. /\ Others(w) /\ \A q \in Callers \ {w} : call'[q] = call[q]
        /\ CallGrounded(call[w])' /\ Grounded(act[w])'
    BY <1>3, <2>1, <2>2, <2>3
  <2>5. UNCHANGED doc
    BY <1>6 DEF Finds
  <2> QED BY <1>1, <1>2, <2>2, <2>4, <2>5, GenuineFrom
<1>7. CASE Worked(w)
  <2>1. /\ act[w] \in AnyAct /\ act[w].doc \in Docs /\ ~Free(w) /\ InPlace(w, act[w])
        /\ Grounded(act[w]) /\ act[w].row.ref \in Nat
        /\ act[w].job \in AnyJob /\ act[w].job.doc = act[w].doc
    BY <1>1, <1>7 DEF Worked, AnyAct, AnyRow, InPlace, Genuine, ActsGrounded
  <2>2. CASE Closes(w)
    <3>1. PICK s \in {"authorized", "rejected", "manual_action"} :
            /\ Saved(w, s, act[w].row.ref) /\ Closing(w, s, act[w].job)
            /\ \/ s # "authorized"
               \/ act[w].pc = "em_result" /\ act[w].result = "authorized"
               \/ act[w].pc = "rc_save" /\ Learnt(act[w], s)
      BY <2>2 DEF Closes
    <3>2. UNCHANGED notes
      BY <2>2 DEF Closes
    <3>3. act[w].pc = "rc_save" => act[w].row.status # "authorized"
      BY <2>1 DEF InPlace, Terminal
    <3>4. s = "authorized" => Vouched(notes[act[w].doc], act[w].row.ref)
      BY <2>1, <3>1, <3>3 DEF Learnt, Grounded
    <3>5. s = "authorized" => Proved(notes'[act[w].doc])
      BY <2>1, <3>4, VouchedLasts
    <3>6. /\ Others(w) /\ \A q \in Callers \ {w} : call'[q] = call[q]
          /\ CallGrounded(call[w])' /\ Grounded(act[w])'
      BY <1>3, <2>1, <3>1, <3>5
    <3>7. /\ doc'[act[w].doc] = [status |-> s, ref |-> act[w].row.ref]
          /\ \A d \in Docs \ {act[w].doc} : doc'[d] = doc[d]
      BY <3>1 DEF Saved
    <3>8. doc'[act[w].doc].status \notin Sealed \/ Vouched(notes'[act[w].doc], doc'[act[w].doc].ref)
      BY <3>1, <3>2, <3>4, <3>7 DEF Sealed
    <3> QED BY <1>1, <1>2, <2>1, <3>6, <3>7, <3>8, GenuineFrom
  <2>3. CASE Writes(w)
    <3>1. \E s \in Status \ Terminal, n \in Nat : Saved(w, s, n)
      BY <2>1, <2>3 DEF Writes, Status, Terminal, AnyAct
    <3>2. doc'[act[w].doc].status \notin Sealed /\ \A d \in Docs \ {act[w].doc} : doc'[d] = doc[d]
      BY <3>1 DEF Saved, Sealed, Terminal
    <3>3. /\ Others(w) /\ act'[w].pc \in {"em_post", "em_enqueue", "rc_enqueue"}
          /\ UNCHANGED call /\ UNCHANGED notes
      BY <2>3 DEF Writes, To
    <3>4. CallGrounded(call[w])' /\ Grounded(act[w])'
      BY <1>2, <3>3 DEF CallGrounded, Grounded
    <3> QED BY <1>1, <1>2, <2>1, <3>2, <3>3, <3>4, GenuineFrom
  <2>4. CASE Posts(w)
    <3>1. /\ Others(w) /\ act'[w].pc = "em_result" /\ act'[w].result \in Answers
          /\ UNCHANGED call /\ UNCHANGED doc
      BY <2>4 DEF Posts, To
    <3>2. Grounded(act[w])'
      BY <3>1 DEF Grounded
    <3>3. CallGrounded(call[w])'
      <4>1. call[w].pc \in ConsumeSteps => call[w].doc \in Docs
        BY <1>1 DEF Typed, NoCall, Call, ConsumeSteps
      <4> QED BY <1>2, <3>1, <4>1, VouchedLasts DEF CallGrounded
    <3> QED BY <1>1, <1>2, <2>1, <3>1, <3>2, <3>3, GenuineFrom
  <2>5. CASE Consults(w)
    <3>1. /\ Others(w) /\ act'[w].pc = "rc_save" /\ act'[w].doc = act[w].doc
          /\ act'[w].row = act[w].row /\ act[w].pc = "rc_consult"
          /\ UNCHANGED call /\ UNCHANGED doc /\ UNCHANGED notes
      BY <2>5 DEF Consults, To
    <3>2. act'[w].result = "authorized" => Vouched(notes[act[w].doc], act[w].row.ref)
      <4>1. act[w].row.ref <= Len(notes[act[w].doc])
        BY <2>1, <3>1 DEF InPlace
      <4>2. ASSUME act'[w].result = "authorized"
            PROVE  \E i \in Lookup(act[w].doc, act[w].row.ref) :
                      notes[act[w].doc][i].status = "authorized"
        BY <2>5, <4>2 DEF Consults
      <4>3. \A i \in Lookup(act[w].doc, act[w].row.ref) :
               /\ i \in DOMAIN notes[act[w].doc]
               /\ act[w].row.ref > 0 => i = act[w].row.ref
               /\ act[w].row.ref = 0 => notes[act[w].doc][i].key = 0
        BY <2>1, <4>1, FoundNotes DEF Lookup
      <4> QED BY <4>2, <4>3 DEF Vouched, Sealed
    <3>3. Grounded(act[w])' /\ CallGrounded(call[w])'
      BY <1>2, <3>1, <3>2 DEF Grounded, CallGrounded
    <3> QED BY <1>1, <1>2, <2>1, <3>1, <3>3, GenuineFrom
  <2>6. CASE Ends(w)
    <3>1. Others(w) /\ Free(w)' /\ UNCHANGED notes /\ \A q \in Callers \ {w} : call'[q] = call[q]
      BY <2>6 DEF Ends, Gone, Free, Calls
    <3>2. \/ UNCHANGED doc
          \/ \E s \in {"manual_action", "provider_error"} : Saved(w, s, act[w].row.ref)
      BY <2>6 DEF Ends
    <3>3. /\ doc'[act[w].doc] = doc[act[w].doc] \/ doc'[act[w].doc].status \notin Sealed
          /\ \A d \in Docs \ {act[w].doc} : doc'[d] = doc[d]
      BY <3>2 DEF Saved, Sealed
    <3>4. call'[w] = call[w] \/ call'[w] = NoCall
      BY <1>1, <2>6 DEF Ends, Calls
    <3>5. CallGrounded(call[w])'
      BY <1>2, <3>1, <3>4 DEF CallGrounded, NoCall, ConsumeSteps
    <3> QED BY <1>1, <1>2, <2>1, <3>1, <3>3, <3>5, GenuineFrom
  <2> QED BY <1>7, <2>2, <2>3, <2>4, <2>5, <2>6 DEF Worked
<1> QED BY <1>4, <1>5, <1>6, <1>7

LEMMA CallerGenuine ==
  ASSUME Typed, Typed', Genuine, Lasting, NEW p \in Callers, Serves(p) \/ Dies(p)
  PROVE  Genuine'
<1>1. CASE Serves(p)
  <2>1. /\ call[p] \in Call /\ \A q \in Callers \ {p} : call'[q] = call[q]
        /\ call'[p].doc = call[p].doc /\ Commits(p)
        /\ UNCHANGED act /\ UNCHANGED doc /\ UNCHANGED notes
    BY <1>1 DEF Serves, Calls
  <2>2. Others(p) /\ (~Free(p)' => Grounded(act[p])')
    BY <2>1 DEF Others, Typed, Free, Grounded, Genuine, ActsGrounded
  <2>3. CallGrounded(call[p]) /\ call[p].doc \in Docs
    BY <2>1 DEF Genuine, CallsGrounded, Call
  <2>4. CallGrounded(call[p])'
    <3>1. call'[p].pc \in ConsumeSteps => call[p].pc \in ConsumeSteps
      BY <2>1 DEF Commits, ConsumeSteps
    <3> QED BY <2>1, <2>3, <3>1 DEF CallGrounded
  <2>5. \/ UNCHANGED ledger
        \/ /\ call[p].pc \in ConsumeSteps
           /\ ledger' = ledger \cup {ConsumeKey(call[p].period, call[p].doc)}
        \/ ledger' = ledger \cup {ReleaseKey(call[p].period, call[p].doc)}
    BY <2>1 DEF Commits, ConsumeSteps
  <2>6. \A d \in Docs, m \in Months :
           ConsumeKey(m, d) \in ledger' => ConsumeKey(m, d) \in ledger \/ Proved(notes'[d])
    BY <2>1, <2>3, <2>5 DEF CallGrounded, ConsumeKey, ReleaseKey
  <2> QED BY <2>1, <2>2, <2>3, <2>4, <2>6, GenuineFrom
<1>2. CASE Dies(p)
  <2>1. /\ Others(p) /\ Free(p)' /\ UNCHANGED doc /\ UNCHANGED ledger /\ Calls(p, NoCall)
        /\ ~Free(p)
    BY <1>2 DEF Dies, Gone, Free, Books
  <2>2. CallGrounded(call[p])' /\ \A q \in Callers \ {p} : call'[q] = call[q]
    BY <2>1 DEF Calls, CallGrounded, NoCall, ConsumeSteps
  <2>3. act[p].doc \in Docs
    BY <2>1, FreeAct DEF AnyAct
  <2> QED BY <2>1, <2>2, <2>3, GenuineFrom
<1> QED BY <1>1, <1>2

LEMMA GenuineStep ==
  ASSUME "authorized" \notin Answers, Typed, Genuine, [Next]_vars
  PROVE  Genuine'
<1>1. Typed' /\ Lasting
  BY TypedStep, NotesLast
<1>2. ASSUME NEW d \in Docs, Decides(d)
      PROVE  Genuine'
  BY <1>1, <1>2, GenuineKept DEF Decides, Books
<1>3. ASSUME Calm
      PROVE  Genuine'
  BY <1>1, <1>3, GenuineKept DEF Calm
<1> QED BY <1>1, <1>2, <1>3, NextShape, RequestGenuine, WorkerGenuine, CallerGenuine

\* Behind a document that is authorized or canceled, and behind every unit that
\* was charged, there is a note SEFAZ authorized, whatever requests, jobs,
\* reprocessing and crashes overlap, provided the answer to a POST is never
\* itself an authorization: emit_nfce returns 202, 422 or an error, and only a
\* consult says that a note is authorized.
THEOREM DocumentsAreGenuine ==
  ASSUME "authorized" \notin Answers
  PROVE  Spec => []NoPhantom
<1>1. Init => Typed /\ Genuine
  <2>1. ASSUME Init
        PROVE  Genuine
    BY <2>1 DEF Init, QuotaInit, Genuine, DocsGrounded, LedgerGrounded, ActsGrounded, CallsGrounded,
       CallGrounded, NoRow, NoCall, ConsumeSteps, Sealed, Free
  <2> QED BY <2>1, TypedInit
<1>2. Typed /\ Genuine /\ [Next]_vars => (Typed /\ Genuine)'
  BY TypedStep, GenuineStep
<1>3. ASSUME Typed, Genuine
      PROVE  NoPhantom
  <2>1. ASSUME NEW d \in Docs, doc[d].status \in {"authorized", "canceled"}
        PROVE  \E i \in Lookup(d, doc[d].ref) : notes[d][i].status \in {"authorized", "canceled"}
    <3>1. Vouched(notes[d], doc[d].ref) /\ doc[d].ref \in Nat
      BY <1>3, <2>1 DEF Genuine, DocsGrounded, Sealed, Typed, AnyRow
    <3>2. PICK i \in DOMAIN notes[d] : /\ notes[d][i].status \in Sealed
                                       /\ doc[d].ref > 0 => i = doc[d].ref
                                       /\ doc[d].ref = 0 => notes[d][i].key = 0
      BY <3>1 DEF Vouched
    <3> QED BY <3>1, <3>2 DEF Lookup, Sealed
  <2>2. ASSUME NEW d \in Docs, NEW m \in Months, ConsumeKey(m, d) \in ledger
        PROVE  \E i \in DOMAIN notes[d] : notes[d][i].status \in {"authorized", "canceled"}
    BY <1>3, <2>2 DEF Genuine, LedgerGrounded, Proved, Sealed
  <2> QED BY <2>1, <2>2 DEF NoPhantom
<1> QED BY <1>1, <1>2, <1>3, PTL DEF Spec

-----------------------------------------------------------------------------
(* One handler at a time *)

\* statuses the document may have at each step of a handler that is alone
Stage(pc) ==
  CASE pc = "rq_create" -> {"absent"}
    [] pc \in {"rq_requeue", "rq_manual", "rq_reject"} -> Status \ {"absent", "authorized", "canceled"}
    [] pc = "rp_save" -> (Status \ Terminal) \cup {"rejected"}
    [] pc \in {"rq_reserving", "rq_offline", "rq_enqueue", "rp_read", "rp_requeue"} -> {"queued"}
    [] pc \in {"cn_call", "cn_save"} -> {"authorized"}
    [] pc \in {"em_post", "em_result"} -> {"processing"}
    [] pc = "em_enqueue" -> {"processing", "provider_error"}
    [] pc = "closing" -> {"authorized", "rejected", "manual_action"}
    [] OTHER -> Status \ Terminal

\* past these the copy of the row is not used again
Spent == {"rp_read", "em_enqueue", "rc_enqueue", "closing"}
Current(a) ==
  /\ doc[a.doc].status \in Stage(a.pc)
  /\ a.pc \notin Spent => a.row = doc[a.doc]

OneJob == \A j, k \in jobs : j.doc = k.doc => j = k
OwnJob == \A w \in Workers : ~Free(w) => act[w].job \in jobs
OwnDoc == \A p, q \in Callers : ~Free(p) /\ ~Free(q) /\ p # q => act[p].doc # act[q].doc
NoJobFor == \A r \in Requests : ~Free(r) => \A j \in jobs : j.doc # act[r].doc
AllCurrent == \A p \in Callers : ~Free(p) => Current(act[p])

Alone == OneJob /\ OwnJob /\ OwnDoc /\ NoJobFor /\ AllCurrent

\* p moves, or starts on a document no other handler is at; only that document
\* is written, and only its job comes or goes
LEMMA AloneFrom ==
  ASSUME Typed, Typed', Alone, NEW p \in Callers, Others(p), NEW e \in Docs,
         \A q \in Callers \ {p} : ~Free(q) => act[q].doc # e,
         \A d \in Docs \ {e} : doc'[d] = doc[d],
         \A j \in jobs : j.doc # e => j \in jobs',
         \A j \in jobs' : j.doc # e => j \in jobs,
         \A j, k \in jobs' : j.doc = e /\ k.doc = e => j = k,
         ~Free(p)' => act'[p].doc = e /\ Current(act[p])',
         ~Free(p)' /\ p \in Workers => act'[p].job \in jobs',
         ~Free(p)' /\ p \in Requests => \A j \in jobs' : j.doc # e
  PROVE  Alone'
<1>1. ASSUME NEW q \in Callers \ {p}, ~Free(q)'
      PROVE  /\ act'[q] = act[q] /\ ~Free(q) /\ act[q] \in AnyAct /\ InPlace(q, act[q])
             /\ act[q].doc \in Docs /\ act[q].doc # e /\ doc'[act[q].doc] = doc[act[q].doc]
  <2>1. act'[q] = act[q] /\ ~Free(q)
    BY <1>1 DEF Others, Free
  <2>2. act[q] \in AnyAct /\ InPlace(q, act[q]) /\ act[q].doc # e
    BY <2>1, FreeAct
  <2> QED BY <2>1, <2>2 DEF AnyAct
<1>2. OneJob'
  BY DEF Alone, OneJob
<1>3. ASSUME NEW w \in Workers, ~Free(w)'
      PROVE  act'[w].job \in jobs'
  <2>1. w \in Callers
    BY EmissionAssumption DEF EmissionAssumption
  <2>2. CASE w = p
    BY <1>3, <2>2
  <2>3. CASE w # p
    <3>1. /\ act'[w] = act[w] /\ ~Free(w) /\ InPlace(w, act[w]) /\ act[w].doc # e
      BY <1>1, <1>3, <2>1, <2>3
    <3>2. act[w].job \in jobs /\ act[w].job.doc # e
      BY <3>1 DEF Alone, OwnJob, InPlace
    <3> QED BY <3>1, <3>2
  <2> QED BY <2>2, <2>3
<1>4. OwnDoc'
  <2>1. ASSUME NEW q \in Callers, NEW s \in Callers, ~Free(q)', ~Free(s)', q # s
        PROVE  act'[q].doc # act'[s].doc
    <3>1. CASE q # p /\ s # p
      BY <1>1, <2>1, <3>1 DEF Alone, OwnDoc
    <3>2. CASE q = p
      BY <1>1, <2>1, <3>2
    <3>3. CASE s = p
      BY <1>1, <2>1, <3>3
    <3> QED BY <3>1, <3>2, <3>3
  <2> QED BY <2>1 DEF OwnDoc
<1>5. ASSUME NEW r \in Requests, ~Free(r)', NEW j \in jobs'
      PROVE  j.doc # act'[r].doc
  <2>1. r \in Callers
    BY EmissionAssumption DEF EmissionAssumption
  <2>2. CASE r = p
    BY <1>5, <2>2
  <2>3. CASE r # p
    <3>1. /\ act'[r] = act[r] /\ ~Free(r) /\ act[r].doc # e
      BY <1>1, <1>5, <2>1, <2>3
    <3>2. CASE j.doc = e
      BY <3>1, <3>2
    <3>3. CASE j.doc # e
      BY <1>5, <3>1, <3>3 DEF Alone, NoJobFor
    <3> QED BY <3>2, <3>3
  <2> QED BY <2>2, <2>3
<1>6. ASSUME NEW q \in Callers, ~Free(q)'
      PROVE  Current(act[q])'
  <2>1. CASE q = p
    BY <1>6, <2>1
  <2>2. CASE q # p
    <3>1. act'[q] = act[q] /\ ~Free(q) /\ doc'[act[q].doc] = doc[act[q].doc]
      BY <1>1, <1>6, <2>2
    <3>2. Current(act[q])
      BY <3>1 DEF Alone, AllCurrent
    <3> QED BY <3>1, <3>2 DEF Current
  <2> QED BY <2>1, <2>2
<1> QED BY <1>2, <1>3, <1>4, <1>5, <1>6 DEF Alone, OwnJob, NoJobFor, AllCurrent

\* where a handler is alone
LEMMA AloneAt ==
  ASSUME Typed, Alone, NEW p \in Callers, ~Free(p)
  PROVE  /\ act[p] \in AnyAct /\ InPlace(p, act[p]) /\ act[p].doc \in Docs
         /\ act[p].row \in AnyRow /\ doc[act[p].doc] \in AnyRow
         /\ \A q \in Callers \ {p} : ~Free(q) => act[q].doc # act[p].doc
         /\ Current(act[p])
         /\ p \in Requests => \A j \in jobs : j.doc # act[p].doc
         /\ p \in Workers => /\ act[p].job \in jobs /\ act[p].job.doc = act[p].doc
                             /\ \A j \in jobs : j.doc = act[p].doc => j = act[p].job
<1>1. act[p] \in AnyAct /\ InPlace(p, act[p])
  BY FreeAct
<1>2. act[p].doc \in Docs /\ act[p].row \in AnyRow /\ doc[act[p].doc] \in AnyRow
  BY <1>1 DEF AnyAct, Typed
<1> QED BY <1>1, <1>2 DEF Alone, OneJob, OwnJob, OwnDoc, NoJobFor, AllCurrent, InPlace

LEMMA Untaken ==
  ASSUME Typed, Alone, NEW j \in jobs, ~Taken(j)
  PROVE  /\ j \in AnyJob /\ j.doc \in Docs /\ doc[j.doc] \in AnyRow
         /\ \A q \in Callers : ~Free(q) => act[q].doc # j.doc
         /\ \A k \in jobs : k.doc = j.doc => k = j
<1>1. j \in AnyJob /\ j.doc \in Docs /\ doc[j.doc] \in AnyRow
  BY DEF Typed, AnyJob
<1>2. ASSUME NEW q \in Callers, ~Free(q)
      PROVE  act[q].doc # j.doc
  <2>1. CASE q \in Requests
    BY <1>2, <2>1 DEF Alone, NoJobFor
  <2>2. CASE q \in Workers
    <3>1. act[q].job \in jobs /\ act[q].job.doc = act[q].doc
      BY <1>2, <2>2, AloneAt
    <3>2. act[q].job # j
      BY <1>2, <2>2 DEF Taken
    <3> QED BY <3>1, <3>2 DEF Alone, OneJob
  <2> QED BY <2>1, <2>2, EmissionAssumption DEF EmissionAssumption
<1> QED BY <1>1, <1>2 DEF Alone, OneJob

LEMMA RequestAlone ==
  ASSUME "in_flight" \notin Env, Typed, Typed', Alone, NEW r \in Requests,
         Begins(r) \/ Requested(r)
  PROVE  Alone'
<1>1. r \in Callers /\ r \notin Workers
  BY EmissionAssumption DEF EmissionAssumption
<1>. DEFINE e == act[r].doc
<1>2. CASE Begins(r)
  <2>1. PICK d \in Docs, pc \in {"rq_create", "rq_requeue", "rq_manual", "rq_reject", "rp_save", "cn_call"} :
          /\ Free(r) /\ MayAsk(d) /\ act'[r] = Begin(pc, d, NoJob) /\ Others(r)
          /\ doc[d].status \in Stage(pc)
    BY <1>2 DEF Begins, Stage, Typed, AnyRow
  <2>2. act'[r].doc = d /\ act'[r].pc = pc /\ act'[r].row = doc[d]
    BY <2>1, BeginTyped DEF RequestSteps
  <2>3. UNCHANGED doc /\ UNCHANGED jobs
    BY <1>2 DEF Begins
  <2>4. (\A j \in jobs : j.doc # d) /\ \A q \in Callers : ~Free(q) => act[q].doc # d
    BY <2>1 DEF MayAsk, Quiet
  <2>5. Current(act[r])'
    BY <2>1, <2>2, <2>3 DEF Current
  <2> QED BY <1>1, <2>1, <2>2, <2>3, <2>4, <2>5, AloneFrom
<1>3. CASE Requested(r)
  <2>1. ~Free(r)
    BY <1>3 DEF Requested
  <2>2. /\ act[r] \in AnyAct /\ InPlace(r, act[r]) /\ e \in Docs
        /\ act[r].row \in AnyRow /\ doc[e] \in AnyRow
        /\ \A q \in Callers \ {r} : ~Free(q) => act[q].doc # e
        /\ Current(act[r]) /\ \A j \in jobs : j.doc # e
    BY <1>1, <2>1, AloneAt
  <2>. HIDE DEF e
  <2>3. CASE Enqueues(r)
    <3>1. /\ Others(r) /\ Free(r)' /\ UNCHANGED doc
          /\ \E j \in AnyJob : j.doc = e /\ jobs' = jobs \cup {j}
      BY <2>3 DEF Enqueues, Gone, Free, e
    <3> QED BY <1>1, <2>2, <3>1, AloneFrom
  <2>4. CASE ~Enqueues(r)
    <3>1. UNCHANGED jobs
      BY <1>3, <2>4 DEF Requested, Queues, Concludes, GivesUp, Answered, Reprocesses, Cancels
    <3>2. Others(r)
      BY <1>3, <2>4 DEF Requested, Queues, Concludes, GivesUp, Answered, Reprocesses, Cancels, To, Gone
    <3>3. \A d \in Docs \ {e} : doc'[d] = doc[d]
      BY <1>3, <2>4 DEF Requested, Queues, Concludes, GivesUp, Answered, Reprocesses, Cancels, Saved, e
    <3>4. ~Free(r)' => act'[r].doc = e
      BY <1>3, <2>4 DEF Requested, Queues, Concludes, GivesUp, Answered, Reprocesses, Cancels, To, Gone,
         Free, e
    <3>5. ASSUME ~Free(r)'
          PROVE  Current(act[r])'
      <4>1. CASE Queues(r)
        <5>1. /\ doc'[e] = [status |-> "queued", ref |-> act[r].row.ref]
              /\ act'[r].row = [status |-> "queued", ref |-> act[r].row.ref]
              /\ act'[r].pc \in {"rq_reserving", "rq_enqueue"} /\ act'[r].doc = e
          BY <4>1 DEF Queues, Saved, To, e
        <5> QED BY <5>1 DEF Current, Stage
      <4>2. CASE Concludes(r) \/ GivesUp(r)
        BY <3>5, <4>2 DEF Concludes, GivesUp, Gone, Free
      <4>3. CASE Answered(r)
        <5>1. /\ act[r].pc = "rq_reserving" /\ act'[r].pc \in {"rq_enqueue", "rq_offline"}
              /\ act'[r].doc = e /\ act'[r].row = act[r].row /\ UNCHANGED doc
          BY <4>3 DEF Answered, To, e
        <5>2. act[r].row = doc[e] /\ doc[e].status = "queued"
          BY <2>2, <5>1 DEF Current, Stage, Spent, e
        <5> QED BY <5>1, <5>2 DEF Current, Stage
      <4>4. CASE Reprocesses(r)
        <5>1. CASE act[r].pc = "rp_save" /\ To(r, "rp_read") /\ Saved(r, "queued", act[r].row.ref)
          BY <5>1 DEF To, Saved, Current, Stage, Spent
        <5>2. CASE act[r].pc = "rp_read" /\ To(r, "rp_requeue") /\ UNCHANGED doc
                   /\ act'[r].row = doc[act[r].doc]
          <6>1. doc[e].status = "queued"
            BY <2>2, <5>2 DEF Current, Stage, e
          <6> QED BY <5>2, <6>1 DEF To, Current, Stage, e
        <5> QED BY <4>4, <5>1, <5>2 DEF Reprocesses
      <4>5. CASE Cancels(r)
        <5>1. /\ act[r].pc = "cn_call" /\ act'[r].pc = "cn_save" /\ act'[r].doc = e
              /\ act'[r].row = act[r].row /\ UNCHANGED doc
          BY <4>5 DEF Cancels, To, e
        <5>2. act[r].row = doc[e] /\ doc[e].status = "authorized"
          BY <2>2, <5>1 DEF Current, Stage, Spent, e
        <5> QED BY <5>1, <5>2 DEF Current, Stage
      <4> QED BY <1>3, <2>4, <4>1, <4>2, <4>3, <4>4, <4>5 DEF Requested
    <3> QED BY <1>1, <2>2, <3>1, <3>2, <3>3, <3>4, <3>5, AloneFrom
  <2> QED BY <2>3, <2>4
<1> QED BY <1>2, <1>3

LEMMA WorkerAlone ==
  ASSUME Typed, Typed', Alone, NEW w \in Workers,
         Drops(w) \/ Takes(w) \/ Finds(w) \/ Worked(w)
  PROVE  Alone'
<1>1. w \in Callers /\ w \notin Requests
  BY EmissionAssumption DEF EmissionAssumption
<1>2. ASSUME NEW j \in jobs, ~Taken(j)
      PROVE  /\ j \in AnyJob /\ j.doc \in Docs /\ doc[j.doc] \in AnyRow
             /\ \A q \in Callers : ~Free(q) => act[q].doc # j.doc
             /\ \A k \in jobs : k.doc = j.doc => k = j
  BY <1>2, Untaken
<1>3. CASE Drops(w)
  <2>1. PICK j \in jobs : ~Taken(j) /\ jobs' = jobs \ {j}
    BY <1>3 DEF Drops
  <2>2. Others(w) /\ Free(w)' /\ UNCHANGED doc
    BY <1>1, <1>3 DEF Drops, Others, Typed, Free
  <2> QED BY <1>1, <1>2, <2>1, <2>2, AloneFrom
<1>4. CASE Takes(w)
  <2>1. PICK j \in jobs, pc \in {"em_save", "em_manual", "em_reject", "rc_manual", "rc_consult"} :
          /\ ~Taken(j) /\ doc[j.doc].status \notin Terminal /\ act'[w] = Begin(pc, j.doc, j)
    BY <1>4 DEF Takes
  <2>2. Others(w) /\ UNCHANGED doc /\ UNCHANGED jobs
    BY <1>4 DEF Takes
  <2>3. /\ j \in AnyJob /\ j.doc \in Docs /\ doc[j.doc] \in AnyRow
        /\ \A q \in Callers : ~Free(q) => act[q].doc # j.doc
        /\ \A k \in jobs : k.doc = j.doc => k = j
    BY <1>2, <2>1
  <2>4. act'[w].doc = j.doc /\ act'[w].pc = pc /\ act'[w].row = doc[j.doc] /\ act'[w].job = j
    BY <2>1, <2>3, BeginTyped DEF WorkerSteps
  <2>5. Current(act[w])'
    BY <2>1, <2>2, <2>3, <2>4 DEF Current, Stage, AnyRow
  <2> QED BY <1>1, <2>2, <2>3, <2>4, <2>5, AloneFrom
<1>5. CASE Finds(w)
  <2>1. PICK j \in jobs : ~Taken(j) /\ Closing(w, doc[j.doc].status, j)
    BY <1>5 DEF Finds
  <2>2. UNCHANGED doc /\ UNCHANGED jobs
    BY <1>5 DEF Finds
  <2>3. /\ j \in AnyJob /\ j.doc \in Docs /\ doc[j.doc] \in AnyRow
        /\ \A q \in Callers : ~Free(q) => act[q].doc # j.doc
        /\ \A k \in jobs : k.doc = j.doc => k = j
    BY <1>2, <2>1
  <2>4. Others(w) /\ act'[w].doc = j.doc /\ act'[w].pc = "closing" /\ act'[w].job = j
        /\ doc[j.doc].status \in {"authorized", "rejected", "manual_action"}
    BY <2>1 DEF Closing
  <2>5. Current(act[w])'
    BY <2>2, <2>4 DEF Current, Stage, Spent
  <2> QED BY <1>1, <2>2, <2>3, <2>4, <2>5, AloneFrom
<1>6. CASE Worked(w)
  <2>. DEFINE e == act[w].doc
  <2>1. ~Free(w)
    BY <1>6 DEF Worked
  <2>2. /\ act[w] \in AnyAct /\ InPlace(w, act[w]) /\ e \in Docs
        /\ act[w].row \in AnyRow /\ doc[e] \in AnyRow
        /\ \A q \in Callers \ {w} : ~Free(q) => act[q].doc # e
        /\ Current(act[w]) /\ act[w].job \in jobs /\ act[w].job.doc = e
        /\ \A j \in jobs : j.doc = e => j = act[w].job
    BY <1>1, <2>1, AloneAt
  <2>. HIDE DEF e
  <2>3. CASE Ends(w)
    <3>1. Others(w) /\ Free(w)'
      BY <2>3 DEF Ends, Gone, Free
    <3>2. \A d \in Docs \ {e} : doc'[d] = doc[d]
      BY <2>3 DEF Ends, Saved, e
    <3>3. \/ jobs' = jobs \ {act[w].job}
          \/ \E j \in AnyJob : j.doc = e /\ jobs' = (jobs \ {act[w].job}) \cup {j}
      BY <2>3 DEF Ends, e
    <3>4. /\ \A j \in jobs : j.doc # e => j \in jobs'
          /\ \A j \in jobs' : j.doc # e => j \in jobs
          /\ \A j, k \in jobs' : j.doc = e /\ k.doc = e => j = k
      BY <2>2, <3>3
    <3> QED BY <1>1, <2>2, <3>1, <3>2, <3>4, AloneFrom
  <2>4. CASE ~Ends(w)
    <3>1. UNCHANGED jobs
      BY <1>6, <2>4 DEF Worked, Closes, Writes, Posts, Consults
    <3>2. Others(w) /\ act'[w].doc = e /\ act'[w].job = act[w].job
      BY <1>6, <2>2, <2>4 DEF Worked, Closes, Writes, Posts, Consults, To, Closing, e
    <3>3. \A d \in Docs \ {e} : doc'[d] = doc[d]
      BY <1>6, <2>4 DEF Worked, Closes, Writes, Posts, Consults, Saved, e
    <3>4. Current(act[w])'
      <4>1. CASE Closes(w)
        <5>1. PICK s \in {"authorized", "rejected", "manual_action"} :
                Saved(w, s, act[w].row.ref) /\ Closing(w, s, act[w].job)
          BY <4>1 DEF Closes
        <5>2. doc'[e].status = s /\ act'[w].pc = "closing"
          BY <5>1 DEF Saved, Closing, e
        <5> QED BY <3>2, <5>2 DEF Current, Stage, Spent
      <4>2. CASE Writes(w)
        <5>1. CASE /\ act[w].pc = "em_save" /\ To(w, "em_post")
                   /\ Saved(w, "processing", act[w].row.ref)
                   /\ act'[w].row = [status |-> "processing", ref |-> act[w].row.ref]
          BY <3>2, <5>1 DEF Current, Stage, To, Saved, e
        <5>2. CASE To(w, "em_enqueue") /\ Saved(w, "processing", act[w].ref)
          BY <3>2, <5>2 DEF Current, Stage, To, Saved, Spent, e
        <5>3. CASE To(w, "em_enqueue") /\ Saved(w, "provider_error", act[w].row.ref)
          BY <3>2, <5>3 DEF Current, Stage, To, Saved, Spent, e
        <5>4. CASE To(w, "rc_enqueue") /\ \E s \in Status \ Terminal : Saved(w, s, act[w].row.ref)
          BY <3>2, <5>4 DEF Current, Stage, To, Saved, Spent, e
        <5> QED BY <4>2, <5>1, <5>2, <5>3, <5>4 DEF Writes
      <4>3. CASE Posts(w)
        <5>1. /\ act[w].pc = "em_post" /\ act'[w].pc = "em_result" /\ act'[w].row = act[w].row
              /\ UNCHANGED doc
          BY <4>3 DEF Posts, To
        <5> QED BY <2>2, <3>2, <5>1 DEF Current, Stage, Spent, e
      <4>4. CASE Consults(w)
        <5>1. /\ act[w].pc = "rc_consult" /\ act'[w].pc = "rc_save" /\ act'[w].row = act[w].row
              /\ UNCHANGED doc
          BY <4>4 DEF Consults, To
        <5> QED BY <2>2, <3>2, <5>1 DEF Current, Stage, Spent, e
      <4> QED BY <1>6, <2>4, <4>1, <4>2, <4>3, <4>4 DEF Worked
    <3> QED BY <1>1, <2>2, <3>1, <3>2, <3>3, <3>4, AloneFrom
  <2> QED BY <2>3, <2>4
<1> QED BY <1>3, <1>4, <1>5, <1>6

LEMMA AloneStep ==
  ASSUME "in_flight" \notin Env, Typed, Alone, [Next]_vars
  PROVE  Alone'
<1>1. Typed'
  BY TypedStep
<1>2. ASSUME UNCHANGED <<act, doc, jobs>>
      PROVE  Alone'
  BY <1>2 DEF Alone, OneJob, OwnJob, OwnDoc, NoJobFor, AllCurrent, Current, Free
<1>3. ASSUME NEW p \in Callers, Dies(p)
      PROVE  Alone'
  <2>1. ~Free(p) /\ Others(p) /\ Free(p)' /\ UNCHANGED doc /\ UNCHANGED jobs
    BY <1>3 DEF Dies, Gone, Free
  <2>2. act[p].doc \in Docs /\ \A q \in Callers \ {p} : ~Free(q) => act[q].doc # act[p].doc
    BY <2>1, AloneAt
  <2>3. \A j, k \in jobs : j.doc = k.doc => j = k
    BY DEF Alone, OneJob
  <2> QED BY <1>1, <2>1, <2>2, <2>3, AloneFrom
<1>4. ASSUME NEW p \in Callers, Serves(p)
      PROVE  Alone'
  BY <1>2, <1>4 DEF Serves
<1>5. ASSUME NEW d \in Docs, Decides(d)
      PROVE  Alone'
  BY <1>2, <1>5 DEF Decides
<1>6. ASSUME Calm
      PROVE  Alone'
  BY <1>2, <1>6 DEF Calm
<1> QED BY <1>1, <1>3, <1>4, <1>5, <1>6, NextShape, RequestAlone, WorkerAlone

LEMMA AloneInit ==
  ASSUME Init
  PROVE  Alone
<1>1. \A p \in Callers : Free(p)
  BY DEF Init, Free
<1> QED BY <1>1, EmissionAssumption DEF Init, Alone, OneJob, OwnJob, OwnDoc, NoJobFor, AllCurrent,
           EmissionAssumption

\* who writes a document is at one of these steps
LEMMA WriterShape ==
  ASSUME Typed, [Next]_vars, NEW d \in Docs, doc'[d] # doc[d]
  PROVE  \E p \in Callers :
           /\ ~Free(p) /\ act[p].doc = d
           /\ \/ p \in Requests /\ (Queues(p) \/ Concludes(p) \/ Reprocesses(p))
              \/ p \in Workers /\ (Closes(p) \/ Writes(p) \/ Ends(p))
<1>1. Requests \subseteq Callers /\ Workers \subseteq Callers
  BY EmissionAssumption DEF EmissionAssumption
<1>2. ASSUME NEW r \in Requests, Requested(r)
      PROVE  ~Free(r) /\ act[r].doc = d /\ (Queues(r) \/ Concludes(r) \/ Reprocesses(r))
  <2>1. Queues(r) \/ Concludes(r) \/ Reprocesses(r)
    BY <1>2 DEF Requested, GivesUp, Answered, Enqueues, Cancels
  <2>2. doc' = doc \/ \E s, n : Saved(r, s, n)
    BY <2>1 DEF Queues, Concludes, Reprocesses
  <2>3. act[r].doc = d
    BY <2>2 DEF Saved
  <2> QED BY <1>2, <2>1, <2>3 DEF Requested
<1>3. ASSUME NEW w \in Workers, Worked(w)
      PROVE  ~Free(w) /\ act[w].doc = d /\ (Closes(w) \/ Writes(w) \/ Ends(w))
  <2>1. Closes(w) \/ Writes(w) \/ Ends(w)
    BY <1>3 DEF Worked, Posts, Consults
  <2>2. doc' = doc \/ \E s, n : Saved(w, s, n)
    BY <2>1 DEF Closes, Writes, Ends
  <2>3. act[w].doc = d
    BY <2>2 DEF Saved
  <2> QED BY <1>3, <2>1, <2>3 DEF Worked
<1>4. \/ \E r \in Requests : Requested(r)
      \/ \E w \in Workers : Worked(w)
  BY NextShape DEF Begins, Drops, Takes, Finds, Serves, Dies, Decides, Calm
<1> QED BY <1>1, <1>2, <1>3, <1>4

LEMMA FinalStep ==
  ASSUME Typed, Alone, [Next]_vars, NEW d \in Docs, doc[d].status = "authorized"
  PROVE  doc'[d].status \in {"authorized", "canceled"}
<1>. SUFFICES ASSUME doc'[d] # doc[d]
              PROVE  doc'[d].status = "canceled"
  OBVIOUS
<1>1. PICK p \in Callers :
        /\ ~Free(p) /\ act[p].doc = d
        /\ \/ p \in Requests /\ (Queues(p) \/ Concludes(p) \/ Reprocesses(p))
           \/ p \in Workers /\ (Closes(p) \/ Writes(p) \/ Ends(p))
  BY WriterShape
<1>2. "authorized" \in Stage(act[p].pc)
  BY <1>1, AloneAt DEF Current
<1>3. act[p].pc \in {"cn_call", "cn_save", "closing"} \/ act[p].pc \notin RequestSteps \cup WorkerSteps
  BY <1>2 DEF Stage, Status, Terminal
<1>4. CASE p \in Workers /\ (Closes(p) \/ Writes(p) \/ Ends(p))
  BY <1>3, <1>4 DEF Closes, Writes, Ends, WorkerSteps
<1>5. CASE p \in Requests /\ (Queues(p) \/ Reprocesses(p))
  BY <1>3, <1>5 DEF Queues, Reprocesses, RequestSteps
<1>6. CASE p \in Requests /\ Concludes(p)
  <2>1. act[p].pc = "cn_save"
    BY <1>3, <1>6 DEF Concludes, RequestSteps
  <2> QED BY <1>1, <1>6, <2>1 DEF Concludes, Saved
<1> QED BY <1>1, <1>4, <1>5, <1>6

\* Once authorized a document stays so until it is canceled, although every
\* handler overwrites the whole row from its own copy and processes may die at
\* any point, if nobody asks again for a document that has a job or a request:
\* then no two handlers hold copies of one row.
THEOREM AuthorizationKept ==
  ASSUME "in_flight" \notin Env
  PROVE  Spec => AuthorizedIsFinal
<1>1. Init => Typed /\ Alone
  BY TypedInit, AloneInit
<1>2. Typed /\ Alone /\ [Next]_vars => (Typed /\ Alone)'
  BY TypedStep, AloneStep
<1>3. Typed /\ Alone /\ [Next]_vars =>
        [\A d \in Docs : doc[d].status = "authorized"
           => doc'[d].status \in {"authorized", "canceled"}]_vars
  BY FinalStep
<1> QED BY <1>1, <1>2, <1>3, PTL DEF Spec, AuthorizedIsFinal

-----------------------------------------------------------------------------
(* One note at a time *)

Alive == {"processing", "authorized"}
KeyedOnly(ns, ref) == \A i \in DOMAIN ns : ns[i].status \in Alive => ns[i].key = ref
OnlyOne(ns, ref) == \A i \in DOMAIN ns : ns[i].status \in Alive => i = ref
KeysDiffer(ns) == \A i, k \in DOMAIN ns : ns[i].key = ns[k].key => i = k
Dead(ns, ref) == ref \in DOMAIN ns => ns[ref].status \notin Alive

\* statuses in which an emission may be asked for, or asked for again
OpenStatus == {"absent", "queued", "rejected", "offline_receipt", "provider_error"}
\* steps at which what is alive has the key the next POST would send
KeyedSteps == {"rq_create", "rq_requeue", "rq_manual", "rq_reject", "rq_reserving", "rq_offline",
               "rp_save", "rp_requeue", "em_save", "em_manual", "em_reject", "em_post", "em_result"}

\* a note that is alive was sent under the reference the document still has,
\* or is the one that reference names; the first, if an emission may follow
SingleDoc(d) ==
  /\ KeysDiffer(notes[d])
  /\ KeyedOnly(notes[d], doc[d].ref) \/ OnlyOne(notes[d], doc[d].ref)
  /\ doc[d].status \in OpenStatus => KeyedOnly(notes[d], doc[d].ref)
SingleAct(a) ==
  /\ a.pc \in KeyedSteps => KeyedOnly(notes[a.doc], a.row.ref)
  /\ a.pc = "em_result" /\ a.result = "accepted" => OnlyOne(notes[a.doc], a.ref)
  /\ a.pc = "rc_save" /\ a.result \in {"rejected", "canceled"} => Dead(notes[a.doc], a.row.ref)
\* no worker has been at the document of an emission job that waits
FreshJobs == \A j \in jobs : j.fn = "emit" => Taken(j) \/ doc[j.doc].status = "queued"

SingleDocs == \A d \in Docs : SingleDoc(d)
SingleActs == \A p \in Callers : ~Free(p) => SingleAct(act[p])
Single == SingleDocs /\ SingleActs /\ FreshJobs

\* no note comes to life
Waning ==
  \A d \in Docs :
    /\ DOMAIN notes'[d] = DOMAIN notes[d]
    /\ \A i \in DOMAIN notes[d] : /\ notes'[d][i].key = notes[d][i].key
                                  /\ notes'[d][i].status \in Alive => notes[d][i].status \in Alive

LEMMA WaningKeeps ==
  ASSUME Waning, NEW d \in Docs
  PROVE  /\ KeysDiffer(notes[d]) => KeysDiffer(notes'[d])
         /\ \A ref \in Nat : /\ KeyedOnly(notes[d], ref) => KeyedOnly(notes'[d], ref)
                             /\ OnlyOne(notes[d], ref) => OnlyOne(notes'[d], ref)
                             /\ Dead(notes[d], ref) => Dead(notes'[d], ref)
BY DEF Waning, KeysDiffer, KeyedOnly, OnlyOne, Dead

LEMMA NotesWane ==
  ASSUME Typed, [Next]_vars, ~\E w \in Workers : Worked(w) /\ Posts(w)
  PROVE  Waning
<1>1. ASSUME UNCHANGED notes
      PROVE  Waning
  BY <1>1 DEF Waning
<1>2. ASSUME NEW d \in Docs, NEW i \in DOMAIN notes[d], NEW v \in Verdicts,
             notes' = [notes EXCEPT ![d][i].status = v],
             notes[d][i].status \in Alive
      PROVE  Waning
  <2>1. /\ \A e \in Docs \ {d} : notes'[e] = notes[e]
        /\ DOMAIN notes'[d] = DOMAIN notes[d]
        /\ notes'[d][i].key = notes[d][i].key
        /\ \A k \in DOMAIN notes[d] \ {i} : notes'[d][k] = notes[d][k]
    BY <1>2, NoteChanged
  <2> QED BY <1>2, <2>1 DEF Waning
<1>3. ASSUME NEW r \in Requests, Begins(r) \/ Requested(r)
      PROVE  Waning
  <2>1. CASE Requested(r) /\ Cancels(r)
    <3>1. act[r] \in AnyAct /\ act[r].pc = "cn_call" /\ InPlace(r, act[r])
      BY <2>1, FreeAct DEF Requested, Cancels
    <3>2. act[r].doc \in Docs /\ act[r].row.ref \in Nat /\ act[r].row.ref <= Len(notes[act[r].doc])
      BY <3>1 DEF AnyAct, AnyRow, InPlace
    <3>3. PICK i \in Lookup(act[r].doc, act[r].row.ref) :
               /\ notes[act[r].doc][i].status = "authorized"
               /\ notes' = [notes EXCEPT ![act[r].doc][i].status = "canceled"]
      BY <2>1 DEF Cancels
    <3>4. i \in DOMAIN notes[act[r].doc]
      BY <3>2, <3>3, FoundNotes
    <3> QED BY <1>2, <3>2, <3>3, <3>4 DEF Verdicts, Alive
  <2>2. CASE ~Cancels(r)
    <3>1. UNCHANGED notes
      BY <1>3, <2>2 DEF Begins, Requested, Queues, Concludes, GivesUp, Answered, Enqueues, Reprocesses
    <3> QED BY <1>1, <3>1
  <2>3. CASE Begins(r)
    <3>1. UNCHANGED notes
      BY <2>3 DEF Begins
    <3> QED BY <1>1, <3>1
  <2> QED BY <1>3, <2>1, <2>2, <2>3
<1>4. ASSUME NEW w \in Workers, Drops(w) \/ Takes(w) \/ Finds(w) \/ Worked(w)
      PROVE  UNCHANGED notes
  BY <1>4 DEF Drops, Takes, Finds, Worked, Closes, Writes, Consults, Ends
<1>5. ASSUME NEW p \in Callers, Serves(p) \/ Dies(p)
      PROVE  UNCHANGED notes
  BY <1>5 DEF Serves, Dies
<1>6. ASSUME NEW d \in Docs, Decides(d)
      PROVE  Waning
  <2>1. PICK i \in DOMAIN notes[d], v \in {"authorized", "rejected", "canceled"} :
          notes[d][i].status = "processing" /\ notes' = [notes EXCEPT ![d][i].status = v]
    BY <1>6 DEF Decides
  <2> QED BY <1>2, <2>1 DEF Verdicts, Alive
<1>7. ASSUME Calm
      PROVE  UNCHANGED notes
  BY <1>7 DEF Calm
<1> QED BY <1>1, <1>3, <1>4, <1>5, <1>6, <1>7, NextShape

LEMMA SingleFrom ==
  ASSUME Typed, Alone, Single, NEW p \in Callers, Others(p), NEW e \in Docs,
         ~Free(p) => act[p].doc = e,
         \A q \in Callers \ {p} : ~Free(q) => act[q].doc # e,
         \A d \in Docs \ {e} : doc'[d] = doc[d] /\ notes'[d] = notes[d],
         \A j \in jobs' : j.doc # e => j \in jobs,
         \A j \in jobs' : j.doc = e /\ j.fn = "emit" => Taken(j)' \/ doc'[e].status = "queued",
         SingleDoc(e)',
         ~Free(p)' => SingleAct(act[p])'
  PROVE  Single'
<1>1. ASSUME NEW q \in Callers \ {p}, ~Free(q)'
      PROVE  act'[q] = act[q] /\ ~Free(q) /\ act[q].doc \in Docs /\ notes'[act[q].doc] = notes[act[q].doc]
  <2>1. act'[q] = act[q] /\ ~Free(q)
    BY <1>1 DEF Others, Free
  <2> QED BY <2>1, FreeAct DEF AnyAct
<1>2. SingleDocs'
  BY DEF Single, SingleDocs, SingleDoc
<1>3. ASSUME NEW q \in Callers \ {p}, ~Free(q)'
      PROVE  SingleAct(act[q])'
  BY <1>1, <1>3 DEF Single, SingleActs, SingleAct
<1>4. SingleActs'
  BY <1>3 DEF SingleActs
<1>5. ASSUME NEW j \in jobs', j.fn = "emit"
      PROVE  Taken(j)' \/ doc'[j.doc].status = "queued"
  <2>1. CASE j.doc = e
    BY <1>5, <2>1
  <2>2. CASE j.doc # e
    <3>1. j \in jobs /\ j \in AnyJob /\ j.doc \in Docs
      BY <2>2 DEF Typed, AnyJob
    <3>2. CASE doc[j.doc].status = "queued"
      BY <2>2, <3>1, <3>2
    <3>3. CASE Taken(j)
      <4>1. PICK w \in Workers : ~Free(w) /\ act[w].job = j
        BY <3>3 DEF Taken
      <4>2. w \in Callers
        BY EmissionAssumption DEF EmissionAssumption
      <4>3. act[w].doc = j.doc
        BY <4>1, <4>2, AloneAt
      <4>4. w # p
        BY <2>2, <4>1, <4>3
      <4>5. act'[w] = act[w] /\ ~Free(w)'
        BY <4>1, <4>2, <4>4 DEF Others, Free
      <4> QED BY <4>1, <4>5 DEF Taken
    <3> QED BY <1>5, <3>1, <3>2, <3>3 DEF Single, FreshJobs
  <2> QED BY <2>1, <2>2
<1>6. FreshJobs'
  BY <1>5 DEF FreshJobs
<1> QED BY <1>2, <1>4, <1>6 DEF Single

LEMMA SingleKept ==
  ASSUME Typed, Single, Waning, UNCHANGED <<act, doc, jobs>>
  PROVE  Single'
<1>1. \A d \in Docs : doc[d].ref \in Nat
  BY DEF Typed, AnyRow
<1>2. SingleDocs'
  BY <1>1, WaningKeeps DEF Single, SingleDocs, SingleDoc
<1>3. ASSUME NEW q \in Callers, ~Free(q)
      PROVE  SingleAct(act[q])'
  <2>1. act[q].doc \in Docs /\ act[q].row.ref \in Nat /\ act[q].ref \in Nat
    BY <1>3, FreeAct DEF AnyAct, AnyRow
  <2>2. SingleAct(act[q])
    BY <1>3 DEF Single, SingleActs
  <2> QED BY <1>3, <2>1, <2>2, WaningKeeps DEF SingleAct
<1>4. SingleActs'
  BY <1>3 DEF SingleActs, Free
<1>5. FreshJobs'
  BY DEF Single, FreshJobs, Taken, Free
<1> QED BY <1>2, <1>4, <1>5 DEF Single

LEMMA RequestSingle ==
  ASSUME "in_flight" \notin Env, Retriable \cap {"processing", "manual_action"} = {},
         Typed, Typed', Alone, Single, Waning, NEW r \in Requests,
         Begins(r) \/ Requested(r)
  PROVE  Single'
<1>1. r \in Callers /\ r \notin Workers
  BY EmissionAssumption DEF EmissionAssumption
<1>2. ASSUME NEW d \in Docs, doc'[d] = doc[d]
      PROVE  SingleDoc(d)'
  <2>1. doc[d].ref \in Nat /\ SingleDoc(d)
    BY DEF Typed, AnyRow, Single, SingleDocs
  <2> QED BY <1>2, <2>1, WaningKeeps DEF SingleDoc
<1>3. CASE Begins(r)
  <2>1. PICK d \in Docs, pc \in {"rq_create", "rq_requeue", "rq_manual", "rq_reject", "rp_save", "cn_call"} :
          /\ Free(r) /\ MayAsk(d) /\ act'[r] = Begin(pc, d, NoJob) /\ Others(r)
          /\ pc # "cn_call" => doc[d].status \in OpenStatus
    <3>1. \A d \in Docs : doc[d].status \in Status
      BY DEF Typed, AnyRow
    <3> QED BY <1>3, <3>1 DEF Begins, OpenStatus, Status, Terminal
  <2>2. act'[r].doc = d /\ act'[r].pc = pc /\ act'[r].row = doc[d]
    BY <2>1, BeginTyped DEF RequestSteps
  <2>3. UNCHANGED doc /\ UNCHANGED jobs /\ UNCHANGED notes
    BY <1>3 DEF Begins
  <2>4. (\A j \in jobs : j.doc # d) /\ \A q \in Callers : ~Free(q) => act[q].doc # d
    BY <2>1 DEF MayAsk, Quiet
  <2>5. SingleAct(act[r])'
    BY <2>1, <2>2, <2>3 DEF SingleAct, KeyedSteps, Single, SingleDocs, SingleDoc
  <2>6. SingleDoc(d)'
    BY <1>2, <2>3
  <2> QED BY <1>1, <2>1, <2>3, <2>4, <2>5, <2>6, SingleFrom
<1>4. CASE Requested(r)
  <2>1. ~Free(r)
    BY <1>4 DEF Requested
  <2>0. PICK e \in Docs : e = act[r].doc
    BY <1>1, <2>1, AloneAt
  <2>2. /\ act[r] \in AnyAct /\ InPlace(r, act[r])
        /\ act[r].row \in AnyRow /\ doc[e] \in AnyRow
        /\ \A q \in Callers \ {r} : ~Free(q) => act[q].doc # e
        /\ Current(act[r]) /\ \A j \in jobs : j.doc # e
    BY <1>1, <2>0, <2>1, AloneAt
  <2>3. SingleAct(act[r]) /\ SingleDoc(e)
    BY <1>1, <2>1, <2>2 DEF Single, SingleActs, SingleDocs
  <2>4. act[r].row.ref \in Nat
    BY <2>2 DEF AnyRow
  <2>5. ASSUME Saved(r, "queued", act[r].row.ref) \/ Concludes(r), UNCHANGED notes,
               act[r].pc \in KeyedSteps
        PROVE  SingleDoc(e)'
    <3>1. doc'[e].ref = act[r].row.ref
      BY <2>0, <2>5 DEF Saved, Concludes
    <3>2. KeyedOnly(notes[e], act[r].row.ref)
      BY <2>0, <2>3, <2>5 DEF SingleAct
    <3> QED BY <2>3, <2>5, <3>1, <3>2 DEF SingleDoc
  <2>6. CASE Queues(r)
    <3>1. /\ Others(r) /\ act'[r].doc = e /\ act'[r].pc \in {"rq_reserving", "rq_enqueue"}
          /\ act'[r].row.ref = act[r].row.ref /\ Saved(r, "queued", act[r].row.ref)
          /\ act[r].pc \in KeyedSteps /\ UNCHANGED notes /\ UNCHANGED jobs
      BY <2>0, <2>6 DEF Queues, To, KeyedSteps
    <3>2. KeyedOnly(notes[e], act[r].row.ref)
      BY <2>0, <2>3, <3>1 DEF SingleAct
    <3>3. SingleAct(act[r])'
      BY <3>1, <3>2 DEF SingleAct
    <3>4. SingleDoc(e)'
      BY <2>5, <3>1
    <3>5. \A d \in Docs \ {e} : doc'[d] = doc[d]
      BY <2>0, <3>1 DEF Saved
    <3>6. act[r].doc = e
      BY <2>0
    <3> QED BY <1>1, <2>2, <3>1, <3>3, <3>4, <3>5, <3>6, SingleFrom
  <2>7. CASE Concludes(r)
    <3>1. /\ Others(r) /\ Free(r)' /\ UNCHANGED notes /\ UNCHANGED jobs
          /\ act[r].pc \in KeyedSteps \/ act[r].pc = "cn_save"
      BY <2>7 DEF Concludes, Gone, Free, KeyedSteps
    <3>2. \A d \in Docs \ {e} : doc'[d] = doc[d]
      BY <2>0, <2>7 DEF Saved, Concludes
    <3>3. CASE act[r].pc = "cn_save"
      <4>1. doc'[e] = [status |-> "canceled", ref |-> act[r].row.ref]
        BY <2>0, <2>7, <3>3 DEF Concludes, Saved
      <4>2. act[r].row.ref = doc[e].ref
        BY <2>0, <2>2, <3>3 DEF Current, Spent
      <4> QED BY <2>0, <1>1, <2>2, <2>3, <3>1, <3>2, <4>1, <4>2, SingleFrom DEF SingleDoc, OpenStatus
    <3>4. CASE act[r].pc \in KeyedSteps
      <4>1. SingleDoc(e)'
        BY <2>5, <2>7, <3>1, <3>4
      <4> QED BY <2>0, <1>1, <2>2, <3>1, <3>2, <4>1, SingleFrom
    <3> QED BY <3>1, <3>3, <3>4
  <2>8. CASE GivesUp(r)
    <3>1. Others(r) /\ Free(r)' /\ UNCHANGED notes /\ UNCHANGED jobs /\ UNCHANGED doc
      BY <2>8 DEF GivesUp, Gone, Free
    <3>2. SingleDoc(e)' /\ act[r].doc = e
      BY <2>0, <1>2, <2>2, <3>1
    <3> QED BY <1>1, <2>2, <3>1, <3>2, SingleFrom
  <2>9. CASE Answered(r)
    <3>1. /\ Others(r) /\ act'[r].doc = e /\ act'[r].pc \in {"rq_enqueue", "rq_offline"}
          /\ act'[r].row = act[r].row /\ act[r].pc = "rq_reserving"
          /\ UNCHANGED notes /\ UNCHANGED jobs /\ UNCHANGED doc
      BY <2>0, <2>9 DEF Answered, To
    <3>2. SingleDoc(e)' /\ act[r].doc = e
      BY <2>0, <1>2, <2>2, <3>1
    <3>3. SingleAct(act[r])'
      BY <2>3, <3>1, <3>2 DEF SingleAct, KeyedSteps
    <3> QED BY <1>1, <2>2, <3>1, <3>2, <3>3, SingleFrom
  <2>10. CASE Enqueues(r)
    <3>1. /\ Others(r) /\ Free(r)' /\ UNCHANGED notes /\ UNCHANGED doc /\ act[r].pc = "rq_enqueue"
          /\ \E j \in AnyJob : j.doc = e /\ jobs' = jobs \cup {j}
      BY <2>0, <2>10 DEF Enqueues, Gone, Free
    <3>2. SingleDoc(e)' /\ act[r].doc = e
      BY <2>0, <1>2, <2>2, <3>1
    <3>3. doc[e].status = "queued"
      BY <2>2, <3>1, <3>2 DEF Current, Stage
    <3> QED BY <1>1, <2>2, <3>1, <3>2, <3>3, SingleFrom
  <2>11. CASE Reprocesses(r)
    <3>1. /\ Others(r) /\ act'[r].doc = e /\ UNCHANGED notes /\ UNCHANGED jobs /\ act[r].doc = e
      BY <2>0, <2>11 DEF Reprocesses, To
    <3>2. CASE act[r].pc = "rp_save" /\ To(r, "rp_read") /\ Saved(r, "queued", act[r].row.ref)
      <4>1. SingleDoc(e)'
        BY <2>5, <3>1, <3>2 DEF KeyedSteps
      <4>2. SingleAct(act[r])'
        BY <3>2 DEF SingleAct, KeyedSteps, To
      <4>3. \A d \in Docs \ {e} : doc'[d] = doc[d]
        BY <3>1, <3>2 DEF Saved
      <4> QED BY <1>1, <2>2, <3>1, <4>1, <4>2, <4>3, SingleFrom
    <3>3. CASE /\ act[r].pc = "rp_read" /\ To(r, "rp_requeue") /\ UNCHANGED doc
               /\ act'[r].row = doc[act[r].doc]
      <4>1. doc[e].status = "queued"
        BY <2>2, <3>1, <3>3 DEF Current, Stage
      <4>2. SingleDoc(e)'
        BY <1>2, <2>2, <3>3
      <4>3. KeyedOnly(notes[e], doc[e].ref)
        BY <2>3, <4>1 DEF SingleDoc, OpenStatus
      <4>4. SingleAct(act[r])'
        BY <3>1, <3>3, <4>3 DEF SingleAct, To
      <4> QED BY <1>1, <2>2, <3>1, <3>3, <4>2, <4>4, SingleFrom
    <3> QED BY <2>11, <3>2, <3>3 DEF Reprocesses
  <2>12. CASE Cancels(r)
    <3>1. /\ Others(r) /\ act'[r].doc = e /\ act'[r].pc = "cn_save" /\ UNCHANGED jobs /\ UNCHANGED doc
          /\ act[r].doc = e /\ act[r].pc = "cn_call"
      BY <2>0, <2>12 DEF Cancels, To
    <3>2. SingleDoc(e)' /\ SingleAct(act[r])'
      BY <1>2, <2>2, <3>1 DEF SingleAct, KeyedSteps
    <3>3. \A d \in Docs \ {e} : notes'[d] = notes[d]
      <4>1. PICK i \in Lookup(e, act[r].row.ref) : notes' = [notes EXCEPT ![e][i].status = "canceled"]
        BY <2>12, <3>1 DEF Cancels
      <4> QED BY <4>1 DEF Typed
    <3> QED BY <1>1, <2>2, <3>1, <3>2, <3>3, SingleFrom
  <2> QED BY <1>4, <2>6, <2>7, <2>8, <2>9, <2>10, <2>11, <2>12 DEF Requested
<1> QED BY <1>3, <1>4

LEMMA WorkerSingle ==
  ASSUME Typed, Typed', Alone, Single, NEW w \in Workers,
         Drops(w) \/ Takes(w) \/ Finds(w) \/ Worked(w)
  PROVE  Single'
<1>1. w \in Callers /\ w \notin Requests
  BY EmissionAssumption DEF EmissionAssumption
<1>2. ASSUME NEW d \in Docs, doc'[d] = doc[d], UNCHANGED notes
      PROVE  SingleDoc(d)'
  BY <1>2 DEF Single, SingleDocs, SingleDoc
<1>3. CASE Drops(w)
  <2>1. PICK j \in jobs : ~Taken(j) /\ jobs' = jobs \ {j}
    BY <1>3 DEF Drops
  <2>2. Others(w) /\ Free(w)' /\ Free(w) /\ UNCHANGED doc /\ UNCHANGED notes
    BY <1>1, <1>3 DEF Drops, Others, Typed, Free
  <2>3. /\ j \in AnyJob /\ j.doc \in Docs
        /\ \A q \in Callers : ~Free(q) => act[q].doc # j.doc
        /\ \A k \in jobs : k.doc = j.doc => k = j
    BY <2>1, Untaken
  <2>4. SingleDoc(j.doc)'
    BY <1>2, <2>2, <2>3
  <2> QED BY <1>1, <2>1, <2>2, <2>3, <2>4, SingleFrom
<1>4. CASE Takes(w)
  <2>1. PICK j \in jobs, pc \in {"em_save", "em_manual", "em_reject", "rc_manual", "rc_consult"} :
          /\ Free(w) /\ ~Taken(j) /\ doc[j.doc].status \notin Terminal /\ act'[w] = Begin(pc, j.doc, j)
          /\ pc \in {"rc_manual", "rc_consult"} <=> j.fn = "reconcile"
    BY <1>4 DEF Takes
  <2>2. Others(w) /\ UNCHANGED doc /\ UNCHANGED jobs /\ UNCHANGED notes
    BY <1>4 DEF Takes
  <2>3. /\ j \in AnyJob /\ j.doc \in Docs
        /\ \A q \in Callers : ~Free(q) => act[q].doc # j.doc
        /\ \A k \in jobs : k.doc = j.doc => k = j
    BY <2>1, Untaken
  <2>4. act'[w].doc = j.doc /\ act'[w].pc = pc /\ act'[w].row = doc[j.doc] /\ act'[w].job = j
    BY <2>1, <2>3, BeginTyped DEF WorkerSteps
  <2>5. ~Free(w)'
    BY <2>4 DEF Free, NoAct
  <2>6. Taken(j)'
    BY <2>4, <2>5 DEF Taken
  <2>7. pc \notin {"rc_manual", "rc_consult"} => KeyedOnly(notes[j.doc], doc[j.doc].ref)
    <3>1. ASSUME pc \notin {"rc_manual", "rc_consult"}
          PROVE  doc[j.doc].status = "queued"
      BY <2>1, <2>3, <3>1 DEF Single, FreshJobs, AnyJob
    <3> QED BY <2>3, <3>1 DEF Single, SingleDocs, SingleDoc, OpenStatus
  <2>8. SingleAct(act[w])'
    BY <2>2, <2>4, <2>7 DEF SingleAct, KeyedSteps
  <2>9. SingleDoc(j.doc)'
    BY <1>2, <2>2, <2>3
  <2> QED BY <1>1, <2>1, <2>2, <2>3, <2>6, <2>8, <2>9, SingleFrom
<1>5. CASE Finds(w)
  <2>1. PICK j \in jobs : Free(w) /\ ~Taken(j) /\ j.fn = "reconcile" /\ Closing(w, doc[j.doc].status, j)
    BY <1>5 DEF Finds
  <2>2. UNCHANGED doc /\ UNCHANGED jobs /\ UNCHANGED notes
    BY <1>5 DEF Finds
  <2>3. /\ j \in AnyJob /\ j.doc \in Docs
        /\ \A q \in Callers : ~Free(q) => act[q].doc # j.doc
        /\ \A k \in jobs : k.doc = j.doc => k = j
    BY <2>1, Untaken
  <2>4. Others(w) /\ act'[w].pc = "closing"
    BY <2>1 DEF Closing
  <2>5. SingleAct(act[w])'
    BY <2>4 DEF SingleAct, KeyedSteps
  <2>6. SingleDoc(j.doc)'
    BY <1>2, <2>2, <2>3
  <2>7. \A k \in jobs' : k.doc = j.doc => k.fn # "emit"
    BY <2>1, <2>2, <2>3
  <2> QED BY <1>1, <2>1, <2>2, <2>3, <2>4, <2>5, <2>6, <2>7, SingleFrom
<1>6. CASE Worked(w)
  <2>1. ~Free(w)
    BY <1>6 DEF Worked
  <2>2. PICK e \in Docs : e = act[w].doc
    BY <1>1, <2>1, AloneAt
  <2>3. /\ act[w] \in AnyAct /\ InPlace(w, act[w])
        /\ act[w].row \in AnyRow /\ doc[e] \in AnyRow /\ act[w].row.ref \in Nat
        /\ \A q \in Callers \ {w} : ~Free(q) => act[q].doc # e
        /\ Current(act[w]) /\ act[w].job \in jobs /\ act[w].job.doc = e
        /\ \A j \in jobs : j.doc = e => j = act[w].job
    BY <1>1, <2>1, <2>2, AloneAt DEF AnyRow
  <2>4. SingleAct(act[w]) /\ SingleDoc(e)
    BY <1>1, <2>1, <2>2 DEF Single, SingleActs, SingleDocs
  \* the row is saved with a key that is the only one alive
  <2>5. ASSUME NEW s, Saved(w, s, act[w].row.ref), UNCHANGED notes,
               KeyedOnly(notes[e], act[w].row.ref)
        PROVE  SingleDoc(e)'
    <3>1. doc'[e].ref = act[w].row.ref
      BY <2>2, <2>5 DEF Saved
    <3> QED BY <2>4, <2>5, <3>1 DEF SingleDoc
  \* or with the reference it had, and a status in which none is asked for
  <2>6. ASSUME NEW s, Saved(w, s, act[w].row.ref), UNCHANGED notes,
               s \notin OpenStatus \/ s = doc[e].status, act[w].pc \notin Spent
        PROVE  SingleDoc(e)'
    <3>1. doc'[e] = [status |-> s, ref |-> doc[e].ref]
      BY <2>2, <2>3, <2>6 DEF Saved, Current
    <3> QED BY <2>4, <2>6, <3>1 DEF SingleDoc
  <2>7. \A d \in Docs \ {e} : doc'[d] = doc[d]
    BY <1>6, <2>2 DEF Worked, Closes, Writes, Posts, Consults, Ends, Saved
  <2>8. CASE Ends(w)
    <3>1. Others(w) /\ Free(w)' /\ UNCHANGED notes
      BY <2>8 DEF Ends, Gone, Free
    <3>2. \/ jobs' = jobs \ {act[w].job}
          \/ \E j \in AnyJob : j.fn = "reconcile" /\ jobs' = (jobs \ {act[w].job}) \cup {j} /\ j.doc = e
      BY <2>2, <2>8 DEF Ends
    <3>3. /\ \A j \in jobs' : j.doc # e => j \in jobs
          /\ \A j \in jobs' : j.doc = e => j.fn # "emit"
      BY <2>3, <3>2
    <3>4. SingleDoc(e)'
      <4>1. CASE UNCHANGED doc
        BY <1>2, <3>1, <4>1
      <4>2. CASE \E s \in {"manual_action", "provider_error"} :
                   Saved(w, s, act[w].row.ref) /\ act[w].pc \in {"em_manual", "em_result"}
        <5>1. KeyedOnly(notes[e], act[w].row.ref)
          BY <2>2, <2>4, <4>2 DEF SingleAct, KeyedSteps
        <5> QED BY <2>5, <3>1, <4>2, <5>1
      <4> QED BY <2>8, <4>1, <4>2 DEF Ends
    <3> QED BY <1>1, <2>2, <2>3, <2>7, <3>1, <3>3, <3>4, SingleFrom
  <2>9. CASE ~Ends(w)
    <3>1. UNCHANGED jobs /\ Others(w) /\ act'[w].doc = e /\ act'[w].job = act[w].job
      BY <1>6, <2>2, <2>3, <2>9 DEF Worked, Closes, Writes, Posts, Consults, To, Closing
    <3>2. ~Free(w)'
      <4>1. act'[w] \in AnyAct
        BY <1>6, <2>9 DEF Worked, Closes, Writes, Posts, Consults, To, Closing
      <4> QED BY <4>1 DEF Free, NoAct, AnyAct, RequestSteps, WorkerSteps
    <3>3. \A j \in jobs' : j.doc = e => Taken(j)'
      BY <2>3, <3>1, <3>2 DEF Taken
    <3>4. ASSUME \A d \in Docs \ {e} : notes'[d] = notes[d], SingleDoc(e)', SingleAct(act[w])'
          PROVE  Single'
      BY <1>1, <2>2, <2>3, <2>7, <3>1, <3>3, <3>4, SingleFrom
    <3>5. CASE Closes(w)
      <4>1. PICK s \in {"authorized", "rejected", "manual_action"} :
              /\ Saved(w, s, act[w].row.ref) /\ Closing(w, s, act[w].job)
              /\ \/ act[w].pc \in {"em_reject", "em_result"}
                 \/ act[w].pc = "rc_manual" /\ s = "manual_action"
                 \/ act[w].pc = "rc_save" /\ Learnt(act[w], s)
        BY <3>5 DEF Closes
      <4>2. UNCHANGED notes
        BY <3>5 DEF Closes
      <4>3. SingleAct(act[w])'
        BY <4>1 DEF Closing, SingleAct, KeyedSteps
      <4>4. SingleDoc(e)'
        <5>1. CASE act[w].pc \in {"em_reject", "em_result"}
          <6>1. KeyedOnly(notes[e], act[w].row.ref)
            BY <2>2, <2>4, <5>1 DEF SingleAct, KeyedSteps
          <6> QED BY <2>5, <4>1, <4>2, <6>1
        <5>2. CASE act[w].pc \in {"rc_manual", "rc_save"} /\ s # "rejected"
          BY <2>6, <4>1, <4>2, <5>2 DEF OpenStatus, Spent
        <5>3. CASE act[w].pc = "rc_save" /\ Learnt(act[w], s) /\ s = "rejected"
          <6>1. act[w].result \in {"rejected", "canceled"}
            BY <2>3, <5>3 DEF Learnt, InPlace, Terminal
          <6>2. Dead(notes[e], act[w].row.ref)
            BY <2>2, <2>4, <5>3, <6>1 DEF SingleAct
          <6>3. doc[e].ref = act[w].row.ref
            BY <2>2, <2>3, <5>3 DEF Current, Spent
          <6>4. KeyedOnly(notes[e], act[w].row.ref)
            BY <2>4, <6>2, <6>3 DEF SingleDoc, Dead, OnlyOne, KeyedOnly
          <6> QED BY <2>5, <4>1, <4>2, <6>4
        <5> QED BY <4>1, <5>1, <5>2, <5>3
      <4> QED BY <3>4, <4>2, <4>3, <4>4
    <3>6. CASE Writes(w)
      <4>1. UNCHANGED notes
        BY <3>6 DEF Writes
      <4>2. CASE /\ act[w].pc = "em_save" /\ To(w, "em_post")
                 /\ Saved(w, "processing", act[w].row.ref)
                 /\ act'[w].row = [status |-> "processing", ref |-> act[w].row.ref]
        <5>1. KeyedOnly(notes[e], act[w].row.ref)
          BY <2>2, <2>4, <4>2 DEF SingleAct, KeyedSteps
        <5>2. SingleDoc(e)'
          BY <2>5, <4>1, <4>2, <5>1
        <5>3. SingleAct(act[w])'
          BY <3>1, <4>1, <4>2, <5>1 DEF To, SingleAct
        <5> QED BY <3>4, <4>1, <5>2, <5>3
      <4>3. CASE /\ act[w].pc = "em_result" /\ act[w].result = "accepted" /\ To(w, "em_enqueue")
                 /\ Saved(w, "processing", act[w].ref)
        <5>1. doc'[e] = [status |-> "processing", ref |-> act[w].ref]
          BY <2>2, <4>3 DEF Saved
        <5>2. OnlyOne(notes[e], act[w].ref)
          BY <2>2, <2>4, <4>3 DEF SingleAct
        <5>3. SingleDoc(e)'
          BY <2>4, <4>1, <5>1, <5>2 DEF SingleDoc, OpenStatus
        <5>4. SingleAct(act[w])'
          BY <4>3 DEF To, SingleAct, KeyedSteps
        <5> QED BY <3>4, <4>1, <5>3, <5>4
      <4>4. CASE /\ act[w].pc = "em_result" /\ To(w, "em_enqueue")
                 /\ Saved(w, "provider_error", act[w].row.ref)
        <5>1. KeyedOnly(notes[e], act[w].row.ref)
          BY <2>2, <2>4, <4>4 DEF SingleAct, KeyedSteps
        <5>2. SingleDoc(e)'
          BY <2>5, <4>1, <4>4, <5>1
        <5>3. SingleAct(act[w])'
          BY <4>4 DEF To, SingleAct, KeyedSteps
        <5> QED BY <3>4, <4>1, <5>2, <5>3
      <4>5. CASE /\ act[w].pc = "rc_save" /\ To(w, "rc_enqueue")
                 /\ \E s \in Status \ Terminal : Saved(w, s, act[w].row.ref) /\ Learnt(act[w], s)
        <5>1. PICK s \in Status \ Terminal : Saved(w, s, act[w].row.ref) /\ Learnt(act[w], s)
          BY <4>5
        <5>2. s = act[w].row.status \/ s = "processing"
          BY <2>3, <4>5, <5>1 DEF Learnt, InPlace, Found, Terminal
        <5>3. act[w].row.status = doc[e].status
          BY <2>2, <2>3, <4>5 DEF Current, Spent
        <5>4. SingleDoc(e)'
          BY <2>6, <4>1, <4>5, <5>1, <5>2, <5>3 DEF OpenStatus, Spent
        <5>5. SingleAct(act[w])'
          BY <4>5 DEF To, SingleAct, KeyedSteps
        <5> QED BY <3>4, <4>1, <5>4, <5>5
      <4> QED BY <3>6, <4>2, <4>3, <4>4, <4>5 DEF Writes
    <3>7. CASE Consults(w)
      <4>1. /\ act[w].pc = "rc_consult" /\ act'[w].pc = "rc_save" /\ act'[w].row = act[w].row
            /\ UNCHANGED doc /\ UNCHANGED notes
        BY <3>7 DEF Consults, To
      <4>2. SingleDoc(e)'
        BY <1>2, <4>1
      <4>3. act'[w].result \in {"rejected", "canceled"} => Dead(notes[e], act[w].row.ref)
        <5>1. ASSUME act'[w].result \in {"rejected", "canceled"}
              PROVE  \E i \in Lookup(e, act[w].row.ref) : notes[e][i].status \in {"rejected", "canceled"}
          BY <2>2, <3>7, <5>1 DEF Consults
        <5>2. act[w].row.ref = 0 => act[w].row.ref \notin DOMAIN notes[e]
          <6>1. notes[e] \in Seq(AnyNote)
            BY DEF Typed
          <6> QED BY <6>1
        <5> QED BY <2>3, <5>1, <5>2 DEF Lookup, Dead, Alive
      <4>4. SingleAct(act[w])'
        BY <3>1, <4>1, <4>3 DEF SingleAct, KeyedSteps
      <4> QED BY <3>4, <4>1, <4>2, <4>4
    <3>8. CASE Posts(w)
      <4>. DEFINE key == act[w].row.ref
      <4>1. /\ act[w].pc = "em_post" /\ act'[w].pc = "em_result" /\ act'[w].row = act[w].row
            /\ act'[w].result \in Answers /\ UNCHANGED doc
            /\ \/ UNCHANGED notes /\ act'[w].result # "accepted"
               \/ \E v \in Verdicts : notes' = NotesAfter(e, key, v)
            /\ \/ act'[w].result # "accepted"
               \/ act'[w].result = "accepted" /\ Keyed(e, key) # {} /\ act'[w].ref \in Keyed(e, key)
               \/ /\ act'[w].result = "accepted" /\ Keyed(e, key) = {}
                  /\ act'[w].ref = Len(notes[e]) + 1
        BY <2>2, <3>8 DEF Posts, To, Verdicts
      <4>2. KeyedOnly(notes[e], key) /\ key = doc[e].ref /\ KeysDiffer(notes[e])
        BY <2>2, <2>3, <2>4, <4>1 DEF SingleAct, KeyedSteps, Current, Spent, SingleDoc
      <4>3. ASSUME UNCHANGED notes,
                   act'[w].result # "accepted" \/ act'[w].ref \in Keyed(e, key)
            PROVE  Single'
        <5>1. SingleDoc(e)'
          BY <1>2, <4>1, <4>3
        <5>2. act'[w].result = "accepted" => OnlyOne(notes[e], act'[w].ref)
          BY <4>2, <4>3 DEF OnlyOne, KeyedOnly, KeysDiffer, Keyed
        <5>3. SingleAct(act[w])'
          BY <3>1, <4>1, <4>2, <4>3, <5>2 DEF SingleAct
        <5> QED BY <3>4, <4>3, <5>1, <5>3
      <4>4. ASSUME NEW v \in Verdicts, notes' = NotesAfter(e, key, v), Keyed(e, key) = {}
            PROVE  Single'
        <5>1. PICK n : n = Len(notes[e]) + 1
          OBVIOUS
        <5>2. PICK k \in Nat : k = key
          BY <2>3
        <5>3. /\ \A d \in Docs \ {e} : notes'[d] = notes[d]
              /\ DOMAIN notes'[e] = DOMAIN notes[e] \cup {n}
              /\ notes'[e][n] = [key |-> k, status |-> v]
              /\ \A i \in DOMAIN notes[e] : notes'[e][i] = notes[e][i]
          BY <4>4, <5>1, <5>2, NoteAdded
        <5>4. \A i \in DOMAIN notes[e] : notes[e][i].key # k /\ notes[e][i].status \notin Alive
          BY <4>2, <4>4, <5>2 DEF Keyed, KeyedOnly
        <5>5. KeysDiffer(notes'[e]) /\ KeyedOnly(notes'[e], k) /\ OnlyOne(notes'[e], n)
          BY <4>2, <5>3, <5>4 DEF KeysDiffer, KeyedOnly, OnlyOne
        <5>6. SingleDoc(e)'
          BY <4>1, <4>2, <5>2, <5>5 DEF SingleDoc
        <5>7. act'[w].result = "accepted" => act'[w].ref = n
          BY <4>1, <4>4, <5>1
        <5>8. act'[w].row.ref = k
          BY <4>1, <5>2
        <5>9. SingleAct(act[w])'
          BY <3>1, <4>1, <5>5, <5>7, <5>8 DEF SingleAct
        <5> QED BY <3>4, <5>3, <5>6, <5>9
      <4>5. CASE UNCHANGED notes /\ act'[w].result # "accepted"
        BY <4>3, <4>5
      <4>6. CASE \E v \in Verdicts : notes' = NotesAfter(e, key, v)
        <5>1. PICK v \in Verdicts : notes' = NotesAfter(e, key, v)
          BY <4>6
        <5>2. CASE Keyed(e, key) = {}
          BY <4>4, <5>1, <5>2
        <5>3. CASE Keyed(e, key) # {}
          <6>1. UNCHANGED notes
            BY <5>1, <5>3 DEF NotesAfter
          <6> QED BY <4>1, <4>3, <5>3, <6>1
        <5> QED BY <5>2, <5>3
      <4> QED BY <4>1, <4>5, <4>6
    <3> QED BY <1>6, <2>9, <3>5, <3>6, <3>7, <3>8 DEF Worked
  <2> QED BY <2>8, <2>9
<1> QED BY <1>3, <1>4, <1>5, <1>6

LEMMA SingleStep ==
  ASSUME "in_flight" \notin Env, MaxCrashes = 0,
         Retriable \cap {"processing", "manual_action"} = {},
         Typed, Alone, Single, [Next]_vars
  PROVE  Single'
<1>1. Typed'
  BY TypedStep
<1>2. CASE \E w \in Workers : Worked(w) /\ Posts(w)
  BY <1>1, <1>2, WorkerSingle
<1>3. CASE ~\E w \in Workers : Worked(w) /\ Posts(w)
  <2>1. Waning
    BY <1>3, NotesWane
  <2>2. ASSUME NEW p \in Callers, Serves(p) \/ Dies(p)
        PROVE  Single'
    BY <2>1, <2>2, SingleKept DEF Serves, Dies
  <2>3. ASSUME NEW d \in Docs, Decides(d)
        PROVE  Single'
    BY <2>1, <2>3, SingleKept DEF Decides
  <2>4. ASSUME Calm
        PROVE  Single'
    BY <2>1, <2>4, SingleKept DEF Calm
  <2> QED BY <1>1, <2>1, <2>2, <2>3, <2>4, NextShape, RequestSingle, WorkerSingle
<1> QED BY <1>2, <1>3

\* A sale never has two notes alive at SEFAZ, for any number of emissions and
\* refusals, whether answers are lost, the provider is down or the payload is
\* refused, as long as no process dies and nobody asks again while there is
\* work on the document, or when it is processing or in manual_action: the
\* provider's id has then replaced the reference, and with it the idempotency
\* key, so another POST would make another note.
THEOREM NotesAreSingle ==
  ASSUME "in_flight" \notin Env, MaxCrashes = 0,
         Retriable \cap {"processing", "manual_action"} = {}
  PROVE  Spec => []OneNote
<1>1. Init => Typed /\ Alone /\ Single
  <2>1. ASSUME Init
        PROVE  Single
    <3>1. /\ \A p \in Callers : Free(p)
          /\ \A d \in Docs : notes[d] = <<>> /\ jobs = {}
      BY <2>1 DEF Init, Free
    <3>2. \A d \in Docs : DOMAIN notes[d] = {}
      BY <3>1
    <3>3. SingleDocs
      BY <3>2 DEF SingleDocs, SingleDoc, KeysDiffer, KeyedOnly, OnlyOne
    <3> QED BY <2>1, <3>1, <3>3 DEF Single, SingleActs, FreshJobs, Init
  <2> QED BY <2>1, TypedInit, AloneInit
<1>2. Typed /\ Alone /\ Single /\ [Next]_vars => (Typed /\ Alone /\ Single)'
  BY TypedStep, AloneStep, SingleStep
<1>3. ASSUME Typed, Single
      PROVE  OneNote
  <2>1. ASSUME NEW d \in Docs
        PROVE  Cardinality(Live(d)) <= 1
    <3>1. \A i, k \in Live(d) : i = k
      BY <1>3 DEF Single, SingleDocs, SingleDoc, Live, KeysDiffer, KeyedOnly, OnlyOne, Alive
    <3>2. CASE Live(d) = {}
      BY <3>2, FS_EmptySet
    <3>3. CASE Live(d) # {}
      <4>1. PICK i : Live(d) = {i}
        BY <3>1, <3>3
      <4> QED BY <4>1, FS_Singleton
    <3> QED BY <3>2, <3>3
  <2> QED BY <2>1 DEF OneNote
<1> QED BY <1>1, <1>2, <1>3, PTL DEF Spec

-----------------------------------------------------------------------------
(* Where the unit of a document is *)

\* the periods in which the document holds a unit, and those in which it used one
Out(d) == {m \in Months : <<d, m>> \in held}
Used(d) == {m \in Months : ConsumeKey(m, d) \in ledger}

\* nothing is reserved, or not any more
EmptySteps == {"rq_create", "rq_manual", "rq_reject", "rq_offline", "cn_call", "cn_save"}
\* the unit of the job's period is reserved
HoldingSteps == {"em_reject", "em_save", "em_post", "em_result", "em_enqueue",
                 "rc_manual", "rc_consult", "rc_save", "rc_enqueue"}
\* commits of a closing call before which the reservation is still there
BeforeReturn == {"rel_check", "rel_reserved", "co_check", "co_used", "co_reserved"}

\* for a handler a and its call c: the status of the document, and where its unit is
HeldAt(a, c, status, out, used) ==
  /\ a.pc \in EmptySteps \cup HoldingSteps \cup
               {"rq_requeue", "rq_reserving", "rq_enqueue", "closing"}
  /\ a.pc \in EmptySteps => out = {}
  /\ a.pc = "rq_requeue" => /\ out # {} <=> status \in Reserved
                            /\ out # {} => "month" \notin Env
  /\ a.pc = "rq_reserving" => /\ c.pc = "granted" => out = {a.period}
                              /\ c.pc # "granted" => out = {}
  /\ a.pc = "rq_enqueue" => out = {a.period}
  /\ a.pc \in HoldingSteps => out = {a.job.period} /\ status \in Reserved
  /\ a.pc = "closing" => /\ c.pc \in BeforeReturn => out = {a.job.period}
                         /\ c.pc \notin BeforeReturn => out = {}
  /\ used # {} <=>
       \/ a.pc \in {"cn_call", "cn_save"}
       \/ a.pc = "closing" /\ status = "authorized" /\ c.pc = "closed"
HeldAct(a, c) == HeldAt(a, c, doc[a.doc].status, Out(a.doc), Used(a.doc))

Calling == {"rq_reserving", "closing"}
CallAt(a, c, status) ==
  /\ a.pc \notin Calling => c = NoCall
  /\ a.pc \in Calling => c \in Call /\ c.doc = a.doc
  /\ a.pc = "rq_reserving" => /\ c.period = a.period
                              /\ c.pc \in ReserveSteps \cup {"granted", "exceeded"}
  /\ a.pc = "closing" => /\ c.period = a.job.period
                         /\ \/ c.pc = "closed"
                            \/ status = "authorized" /\ c.pc \in ConsumeSteps
                            \/ status # "authorized" /\ c.pc \in ReleaseSteps
HeldCall(a, c) == CallAt(a, c, doc[a.doc].status)

HeldDoc(d) ==
  /\ Used(d) # {} => doc[d].status \in {"authorized", "canceled"}
  /\ Quiet(d) => /\ Out(d) # {} <=> doc[d].status \in Reserved
                 /\ doc[d].status = "authorized" => Used(d) # {}
HeldJob(j) == Taken(j) \/ (doc[j.doc].status \in Reserved /\ Out(j.doc) = {j.period})

HeldDocs == \A d \in Docs : HeldDoc(d)
HeldActs == \A p \in Callers : ~Free(p) => HeldAct(act[p], call[p])
HeldCalls == \A p \in Callers : HeldCall(act[p], call[p])
HeldJobs == \A j \in jobs : HeldJob(j)
AllHeld == HeldDocs /\ HeldActs /\ HeldCalls /\ HeldJobs

LEMMA TakenLasts ==
  ASSUME Typed, Alone, NEW p \in Callers, Others(p), NEW j \in jobs, Taken(j),
         ~Free(p) => act[p].doc # j.doc
  PROVE  Taken(j)'
<1>1. PICK w \in Workers : ~Free(w) /\ act[w].job = j
  BY DEF Taken
<1>2. w \in Callers
  BY EmissionAssumption DEF EmissionAssumption
<1>3. act[w].doc = j.doc
  BY <1>1, <1>2, AloneAt
<1>4. act'[w] = act[w] /\ ~Free(w)'
  BY <1>1, <1>2, <1>3 DEF Others, Free
<1> QED BY <1>1, <1>4 DEF Taken

\* while the month does not turn, whatever is held is of this month
Still ==
  "month" \notin Env =>
    /\ \A d \in Docs : Out(d) \subseteq {month}
    /\ \A p \in Callers : call[p].pc \in ReserveSteps => call[p].period = month

LEMMA BooksKept ==
  ASSUME UNCHANGED ledger, UNCHANGED held, NEW d
  PROVE  Out(d)' = Out(d) /\ Used(d)' = Used(d)
BY DEF Out, Used

LEMMA StillStep ==
  ASSUME Typed, Still, [Next]_vars
  PROVE  Still'
<1>. SUFFICES ASSUME "month" \notin Env
              PROVE  Still'
  BY DEF Still
<1>1. ASSUME UNCHANGED month, UNCHANGED held, UNCHANGED call
      PROVE  Still'
  BY <1>1 DEF Still, Out
\* a call begins or ends
<1>2. ASSUME UNCHANGED month, UNCHANGED held, NEW p \in Callers, NEW c, Calls(p, c),
             c.pc \in ReserveSteps => c.period = month
      PROVE  Still'
  BY <1>2 DEF Still, Out, Calls
<1>3. NoCall.pc \notin ReserveSteps
  BY DEF NoCall, ReserveSteps
<1>4. \A r \in Requests : r \in Callers
  BY EmissionAssumption DEF EmissionAssumption
<1>5. \A w \in Workers : w \in Callers
  BY EmissionAssumption DEF EmissionAssumption
<1>6. ASSUME NEW r \in Requests, Begins(r)
      PROVE  Still'
  BY <1>1, <1>6 DEF Begins, Books
<1>7. ASSUME NEW r \in Requests, Requested(r)
      PROVE  Still'
  <2>1. CASE Concludes(r) \/ GivesUp(r) \/ Enqueues(r) \/ Reprocesses(r) \/ Cancels(r)
    BY <1>1, <2>1 DEF Concludes, GivesUp, Enqueues, Reprocesses, Cancels, Books
  <2>2. CASE Queues(r)
    <3>1. UNCHANGED month /\ UNCHANGED held
      BY <2>2 DEF Queues, Books
    <3>2. PICK e \in Docs : e = act[r].doc
      BY <1>7 DEF Requested, AnyAct
    <3>3. UNCHANGED call \/ Calls(r, ReserveCall(e))
      BY <2>2, <3>2 DEF Queues
    <3>4. ReserveCall(e).period = month
      BY ReserveTypes
    <3> QED BY <1>1, <1>2, <1>4, <3>1, <3>3, <3>4
  <2>3. CASE Answered(r)
    BY <1>2, <1>3, <1>4, <2>3 DEF Answered, Books
  <2> QED BY <1>7, <2>1, <2>2, <2>3 DEF Requested
<1>8. ASSUME NEW w \in Workers, NEW j \in AnyJob, NEW s, Closing(w, s, j),
             UNCHANGED month, UNCHANGED held
      PROVE  Still'
  <2>1. j.doc \in Docs /\ j.period \in Months /\ j.addon \in BOOLEAN
    BY DEF AnyJob
  <2>2. /\ ConsumeCall(j.doc, j.period, j.addon).pc \notin ReserveSteps
        /\ ReleaseCall(j.doc, j.period).pc \notin ReserveSteps
    BY <2>1, CallTypes DEF ReserveSteps
  <2> QED BY <1>2, <1>5, <1>8, <2>2 DEF Closing
<1>9. ASSUME NEW w \in Workers, Drops(w) \/ Takes(w) \/ Finds(w) \/ Worked(w)
      PROVE  Still'
  <2>1. CASE Drops(w) \/ Takes(w) \/ Writes(w) \/ Posts(w) \/ Consults(w)
    BY <1>1, <2>1 DEF Drops, Takes, Writes, Posts, Consults, Books
  <2>2. CASE Finds(w)
    BY <1>8, <2>2 DEF Finds, Typed, Books
  <2>3. CASE Worked(w) /\ Closes(w)
    <3>1. act[w].job \in AnyJob
      BY <2>3 DEF Worked, InPlace
    <3> QED BY <1>8, <2>3, <3>1 DEF Closes, Books
  <2>4. CASE Ends(w)
    <3>1. UNCHANGED month /\ UNCHANGED held /\ (UNCHANGED call \/ Calls(w, NoCall))
      BY <2>4 DEF Ends, Books
    <3> QED BY <1>1, <1>2, <1>3, <1>5, <3>1
  <2> QED BY <1>9, <2>1, <2>2, <2>3, <2>4 DEF Worked
<1>10. ASSUME NEW p \in Callers, Dies(p)
      PROVE  Still'
  BY <1>2, <1>3, <1>10 DEF Dies, Books
<1>11. ASSUME NEW p \in Callers, Serves(p)
      PROVE  Still'
  <2>1. PICK e, m : e = call[p].doc /\ m = call[p].period /\ Mine(p) = <<e, m>>
    BY DEF Mine
  <2>2. /\ call[p].pc \in ReserveSteps => m = month
        /\ \A d \in Docs : Out(d) \subseteq {month}
    BY <2>1 DEF Still
  <2>3. /\ call'[p].period = m /\ UNCHANGED month
        /\ \A q \in Callers \ {p} : call'[q] = call[q]
    BY <1>11, <2>1 DEF Serves, Calls
  <2>4. /\ call'[p].pc \in ReserveSteps => call[p].pc \in ReserveSteps
        /\ \/ UNCHANGED held
           \/ held' = held \ {<<e, m>>}
           \/ held' = held \cup {<<e, m>>} /\ call[p].pc \in ReserveSteps
    BY <1>11, <2>1 DEF Serves, Commits, ReserveSteps
  <2>5. \A d \in Docs : Out(d)' \subseteq {month}
    BY <2>2, <2>4 DEF Out
  <2> QED BY <2>2, <2>3, <2>4, <2>5 DEF Still
<1>12. ASSUME NEW d \in Docs, Decides(d)
      PROVE  Still'
  BY <1>1, <1>12 DEF Decides, Books
<1>13. ASSUME Calm
      PROVE  Still'
  BY <1>1, <1>13 DEF Calm
<1> QED BY <1>6, <1>7, <1>9, <1>10, <1>11, <1>12, <1>13, NextShape

LEMMA StillInit ==
  ASSUME Init
  PROVE  Still
BY DEF Init, QuotaInit, Still, Out, NoCall, ReserveSteps

\* for a handler at document e
LEMMA HeldHere ==
  ASSUME NEW p \in Callers, NEW e \in Docs, act'[p].doc = e,
         HeldAt(act'[p], call'[p], doc'[e].status, Out(e)', Used(e)'),
         CallAt(act'[p], call'[p], doc'[e].status)
  PROVE  HeldAct(act[p], call[p])' /\ HeldCall(act[p], call[p])'
<1>1. Out(act[p].doc)' = Out(e)' /\ Used(act[p].doc)' = Used(e)'
  BY DEF Out, Used
<1> QED BY <1>1 DEF HeldAct, HeldCall

LEMMA HeldFrom ==
  ASSUME Typed, Alone, AllHeld, NEW p \in Callers, Others(p), NEW e \in Docs,
         ~Free(p) => act[p].doc = e,
         \A q \in Callers \ {p} : call'[q] = call[q],
         \A q \in Callers \ {p} : ~Free(q) => act[q].doc # e,
         \A d \in Docs \ {e} : doc'[d] = doc[d] /\ Out(d)' = Out(d) /\ Used(d)' = Used(d),
         \A j \in jobs : j.doc # e => j \in jobs',
         \A j \in jobs' : j.doc # e => j \in jobs,
         \A j \in jobs' : j.doc = e => HeldJob(j)',
         HeldDoc(e)', HeldCall(act[p], call[p])',
         ~Free(p)' => HeldAct(act[p], call[p])'
  PROVE  AllHeld'
<1>1. ASSUME NEW q \in Callers \ {p}
      PROVE  /\ act'[q] = act[q] /\ call'[q] = call[q] /\ (Free(q)' <=> Free(q))
             /\ ~Free(q) => /\ act[q].doc \in Docs \ {e}
                            /\ doc'[act[q].doc] = doc[act[q].doc]
                            /\ Out(act[q].doc)' = Out(act[q].doc)
                            /\ Used(act[q].doc)' = Used(act[q].doc)
  <2>1. act'[q] = act[q] /\ call'[q] = call[q] /\ (Free(q)' <=> Free(q))
    BY DEF Others, Free
  <2>2. ASSUME ~Free(q)
        PROVE  act[q].doc \in Docs \ {e}
    BY <2>2, FreeAct DEF AnyAct
  <2>3. ASSUME ~Free(q)
        PROVE  /\ Out(act[q].doc)' = Out(act[q].doc)
               /\ Used(act[q].doc)' = Used(act[q].doc)
    <3>1. PICK d \in Docs \ {e} : d = act[q].doc
      BY <2>2, <2>3
    <3>2. Out(d)' = Out(d) /\ Used(d)' = Used(d)
      BY <3>1
    <3>3. act'[q].doc = d
      BY <2>1, <3>1
    <3> QED BY <3>1, <3>2, <3>3 DEF Out, Used
  <2> QED BY <2>1, <2>2, <2>3
<1>2. ASSUME NEW d \in Docs, d # e
      PROVE  HeldDoc(d)'
  <2>1. doc'[d] = doc[d] /\ Out(d)' = Out(d) /\ Used(d)' = Used(d) /\ HeldDoc(d)
    BY <1>2 DEF AllHeld, HeldDocs
  <2>2. Quiet(d)' => Quiet(d)
    BY <1>1, <1>2 DEF Quiet
  <2> QED BY <2>1, <2>2 DEF HeldDoc
<1>3. HeldDocs'
  BY <1>2 DEF HeldDocs
<1>4. ASSUME NEW q \in Callers, q # p, ~Free(q)'
      PROVE  HeldAct(act[q], call[q])'
  BY <1>1, <1>4 DEF AllHeld, HeldActs, HeldAct
<1>5. HeldActs'
  BY <1>4 DEF HeldActs
<1>6. ASSUME NEW q \in Callers, q # p
      PROVE  HeldCall(act[q], call[q])'
  <2>1. HeldCall(act[q], call[q])
    BY DEF AllHeld, HeldCalls
  <2>2. CASE Free(q)
    BY <1>1, <1>6, <2>1, <2>2 DEF HeldCall, CallAt, Free, NoAct, Calling
  <2>3. CASE ~Free(q)
    BY <1>1, <1>6, <2>1, <2>3 DEF HeldCall
  <2> QED BY <2>2, <2>3
<1>7. HeldCalls'
  BY <1>6 DEF HeldCalls
<1>8. ASSUME NEW j \in jobs', j.doc # e
      PROVE  HeldJob(j)'
  <2>1. j \in jobs /\ j.doc \in Docs /\ HeldJob(j)
    BY <1>8 DEF Typed, AnyJob, AllHeld, HeldJobs
  <2>2. doc'[j.doc] = doc[j.doc] /\ Out(j.doc)' = Out(j.doc)
    BY <1>8, <2>1
  <2>3. CASE Taken(j)
    BY <1>8, <2>1, <2>3, TakenLasts DEF HeldJob
  <2>4. CASE doc[j.doc].status \in Reserved /\ Out(j.doc) = {j.period}
    BY <2>2, <2>4 DEF HeldJob
  <2> QED BY <2>1, <2>3, <2>4 DEF HeldJob
<1>9. HeldJobs'
  BY <1>8 DEF HeldJobs
<1> QED BY <1>3, <1>5, <1>7, <1>9 DEF AllHeld

\* the handler of document e goes on
LEMMA HeldOn ==
  ASSUME Typed, Alone, AllHeld, NEW p \in Callers, Others(p), NEW e \in Docs,
         ~Free(p) => act[p].doc = e,
         \A q \in Callers \ {p} : call'[q] = call[q],
         \A q \in Callers \ {p} : ~Free(q) => act[q].doc # e,
         \A d \in Docs \ {e} : doc'[d] = doc[d] /\ Out(d)' = Out(d) /\ Used(d)' = Used(d),
         UNCHANGED jobs, ~Free(p)', act'[p].doc = e,
         \A j \in jobs' : j.doc = e => Taken(j)',
         Used(e)' # {} => doc'[e].status \in {"authorized", "canceled"},
         HeldAt(act'[p], call'[p], doc'[e].status, Out(e)', Used(e)'),
         CallAt(act'[p], call'[p], doc'[e].status)
  PROVE  AllHeld'
<1>1. HeldAct(act[p], call[p])' /\ HeldCall(act[p], call[p])'
  BY HeldHere
<1>2. ~Quiet(e)'
  BY DEF Quiet
<1>3. HeldDoc(e)'
  BY <1>2 DEF HeldDoc
<1>4. \A j \in jobs' : j.doc = e => HeldJob(j)'
  BY DEF HeldJob
<1> QED BY <1>1, <1>3, <1>4, HeldFrom

\* or is done with it
LEMMA HeldOver ==
  ASSUME Typed, Alone, AllHeld, NEW p \in Callers, Gone(p), NEW e \in Docs,
         ~Free(p) => act[p].doc = e, call'[p] = NoCall,
         \A q \in Callers \ {p} : call'[q] = call[q],
         \A q \in Callers \ {p} : ~Free(q) => act[q].doc # e,
         \A d \in Docs \ {e} : doc'[d] = doc[d] /\ Out(d)' = Out(d) /\ Used(d)' = Used(d),
         \A j \in jobs : j.doc # e => j \in jobs',
         \A j \in jobs' : j.doc # e => j \in jobs,
         \A j \in jobs' : j.doc = e => HeldJob(j)',
         HeldDoc(e)'
  PROVE  AllHeld'
<1>1. Others(p) /\ act'[p].pc = "idle" /\ Free(p)'
  BY DEF Gone, Free, NoAct
<1>2. HeldCall(act[p], call[p])'
  BY <1>1 DEF HeldCall, CallAt, Calling
<1> QED BY <1>1, <1>2, HeldFrom

\* what is known of a handler and its document
LEMMA HeldKnown ==
  ASSUME Typed, Alone, AllHeld, NEW p \in Callers, ~Free(p), NEW e \in Docs, e = act[p].doc
  PROVE  /\ act[p] \in AnyAct /\ InPlace(p, act[p]) /\ doc[e] \in AnyRow
         /\ HeldAt(act[p], call[p], doc[e].status, Out(e), Used(e))
         /\ CallAt(act[p], call[p], doc[e].status) /\ HeldDoc(e)
         /\ Current(act[p])
         /\ \A q \in Callers \ {p} : ~Free(q) => act[q].doc # e
         /\ p \in Requests => \A j \in jobs : j.doc # e
         /\ p \in Workers => /\ act[p].job \in jobs /\ act[p].job.doc = e
                             /\ \A j \in jobs : j.doc = e => j = act[p].job
<1>1. HeldAct(act[p], call[p]) /\ HeldCall(act[p], call[p]) /\ HeldDoc(e)
  BY DEF AllHeld, HeldActs, HeldCalls, HeldDocs
<1> QED BY <1>1, AloneAt DEF HeldAct, HeldCall

LEMMA RequestHeld ==
  ASSUME "in_flight" \notin Env, "payload" \notin Env, "reprocess" \notin Env,
         Retriable \cap Reserved = {} \/ "month" \notin Env,
         Typed, Alone, Still, AllHeld, NEW r \in Requests, Begins(r) \/ Requested(r)
  PROVE  AllHeld'
<1>1. r \in Callers /\ r \notin Workers
  BY EmissionAssumption DEF EmissionAssumption
<1>2. UNCHANGED ledger /\ UNCHANGED held
  BY DEF Begins, Requested, Queues, Concludes, GivesUp, Answered, Enqueues, Reprocesses, Cancels, Books
<1>3. \A d \in Docs : Out(d)' = Out(d) /\ Used(d)' = Used(d)
  BY <1>2, BooksKept
<1>4. CASE Begins(r)
  <2>1. PICK d \in Docs, pc \in {"rq_create", "rq_requeue", "cn_call"} :
          /\ Free(r) /\ MayAsk(d) /\ act'[r] = Begin(pc, d, NoJob) /\ Others(r)
          /\ pc = "rq_create" => doc[d].status = "absent"
          /\ pc = "rq_requeue" => /\ doc[d].status \notin {"authorized", "canceled"}
                                  /\ doc[d].status \in Reserved => "month" \notin Env
          /\ pc = "cn_call" => doc[d].status = "authorized"
    BY <1>4 DEF Begins
  <2>2. act'[r].doc = d /\ act'[r].pc = pc /\ ~Free(r)'
    BY <2>1, BeginTyped DEF RequestSteps, Free, NoAct
  <2>3. UNCHANGED doc /\ UNCHANGED jobs /\ UNCHANGED call
    BY <1>4 DEF Begins
  <2>4. Quiet(d)
    BY <2>1 DEF MayAsk
  <2>5. (\A j \in jobs : j.doc # d) /\ \A q \in Callers : ~Free(q) => act[q].doc # d
    BY <2>4 DEF Quiet
  <2>6. HeldDoc(d) /\ HeldCall(act[r], call[r])
    BY <1>1 DEF AllHeld, HeldDocs, HeldCalls
  <2>7. call'[r] = NoCall
    BY <2>1, <2>3, <2>6 DEF HeldCall, CallAt, Free, NoAct, Calling
  <2>8. /\ Out(d) # {} <=> doc[d].status \in Reserved
        /\ pc # "rq_requeue" => Out(d) = {}
        /\ Used(d) # {} <=> pc = "cn_call"
    BY <2>1, <2>4, <2>6 DEF HeldDoc, Reserved
  <2>9. HeldAt(act'[r], call'[r], doc'[d].status, Out(d)', Used(d)')
    BY <1>3, <2>1, <2>2, <2>3, <2>7, <2>8 DEF HeldAt, EmptySteps, HoldingSteps
  <2>10. CallAt(act'[r], call'[r], doc'[d].status)
    BY <2>2, <2>7 DEF CallAt, Calling
  <2>11. Used(d)' # {} => doc'[d].status \in {"authorized", "canceled"}
    BY <1>3, <2>3, <2>6 DEF HeldDoc
  <2> QED BY <1>1, <1>3, <2>1, <2>2, <2>3, <2>5, <2>9, <2>10, <2>11, HeldOn
<1>5. CASE Requested(r)
  <2>1. ~Free(r)
    BY <1>5 DEF Requested
  <2>2. PICK e \in Docs : e = act[r].doc
    BY <1>1, <2>1, AloneAt
  <2>3. /\ act[r] \in AnyAct /\ doc[e] \in AnyRow
        /\ HeldAt(act[r], call[r], doc[e].status, Out(e), Used(e))
        /\ CallAt(act[r], call[r], doc[e].status) /\ HeldDoc(e)
        /\ Current(act[r])
        /\ \A q \in Callers \ {r} : ~Free(q) => act[q].doc # e
        /\ \A j \in jobs : j.doc # e
    BY <1>1, <2>1, <2>2, HeldKnown
  <2>4. Out(e)' = Out(e) /\ Used(e)' = Used(e)
    BY <1>3
  \* the request goes on
  <2>5. ASSUME UNCHANGED jobs, NEW pc \in RequestSteps, To(r, pc),
               \A q \in Callers \ {r} : call'[q] = call[q],
               \A d \in Docs \ {e} : doc'[d] = doc[d],
               Used(e) # {} => doc'[e].status \in {"authorized", "canceled"},
               HeldAt(act'[r], call'[r], doc'[e].status, Out(e), Used(e)),
               CallAt(act'[r], call'[r], doc'[e].status)
        PROVE  AllHeld'
    <3>1. Others(r) /\ act'[r].doc = e /\ ~Free(r)'
      BY <2>2, <2>5 DEF To, Free, NoAct, RequestSteps
    <3> QED BY <1>1, <1>3, <2>2, <2>3, <2>4, <2>5, <3>1, HeldOn
  \* the request ends
  <2>6. ASSUME Gone(r), call'[r] = NoCall, \A q \in Callers \ {r} : call'[q] = call[q],
               \A d \in Docs \ {e} : doc'[d] = doc[d], UNCHANGED jobs,
               Out(e) # {} <=> doc'[e].status \in Reserved,
               doc'[e].status = "authorized" => Used(e) # {},
               Used(e) # {} => doc'[e].status \in {"authorized", "canceled"}
        PROVE  AllHeld'
    <3>1. HeldDoc(e)'
      BY <2>4, <2>6 DEF HeldDoc
    <3> QED BY <1>1, <1>3, <2>2, <2>3, <2>6, <3>1, HeldOver
  <2>7. CASE Queues(r)
    <3>1. act[r].pc \in {"rq_create", "rq_requeue"}
      BY <2>3, <2>7 DEF Queues, HeldAt, EmptySteps, HoldingSteps
    <3>2. Used(e) = {} /\ act[r].row = doc[e]
      BY <2>2, <2>3, <3>1 DEF HeldAt, Current, Spent
    <3>3. /\ act'[r].period = month /\ doc'[e].status = "queued"
          /\ (\A d \in Docs \ {e} : doc'[d] = doc[d]) /\ UNCHANGED jobs
      BY <2>2, <2>7 DEF Queues, Saved
    \* what was refused reserves again
    <3>4. CASE To(r, "rq_reserving") /\ Calls(r, ReserveCall(e))
      <4>1. Out(e) = {}
        BY <2>3, <2>7, <3>1, <3>2, <3>4 DEF Queues, To, HeldAt, EmptySteps
      <4>2. /\ ReserveCall(e) \in Call /\ ReserveCall(e).doc = e
            /\ ReserveCall(e).pc = "res_read" /\ ReserveCall(e).period = month
        BY ReserveTypes
      <4>3. call'[r] = ReserveCall(e) /\ \A q \in Callers \ {r} : call'[q] = call[q]
        BY <3>4 DEF Calls
      <4>4. act'[r].pc = "rq_reserving" /\ act'[r].doc = e
        BY <2>2, <3>4 DEF To
      <4>5. HeldAt(act'[r], call'[r], doc'[e].status, Out(e), Used(e))
        BY <3>2, <4>1, <4>2, <4>3, <4>4 DEF HeldAt, EmptySteps, HoldingSteps
      <4>6. CallAt(act'[r], call'[r], doc'[e].status)
        BY <3>3, <4>2, <4>3, <4>4 DEF CallAt, Calling, ReserveSteps
      <4> QED BY <2>5, <3>2, <3>3, <3>4, <4>3, <4>5, <4>6 DEF RequestSteps
    \* what is still open holds a unit, of this month
    <3>5. CASE /\ act[r].row.status \in Reserved /\ act[r].pc # "rq_create"
               /\ To(r, "rq_enqueue") /\ UNCHANGED call
      <4>1. Out(e) = {month}
        BY <2>3, <3>1, <3>2, <3>5 DEF HeldAt, Still
      <4>2. act'[r].pc = "rq_enqueue" /\ call[r] = NoCall
        BY <2>3, <3>1, <3>5 DEF To, CallAt, Calling
      <4>3. HeldAt(act'[r], call'[r], doc'[e].status, Out(e), Used(e))
        BY <3>2, <3>3, <4>1, <4>2 DEF HeldAt, EmptySteps, HoldingSteps
      <4>4. CallAt(act'[r], call'[r], doc'[e].status)
        BY <3>5, <4>2 DEF CallAt, Calling
      <4> QED BY <2>5, <3>2, <3>3, <3>5, <4>3, <4>4 DEF RequestSteps
    <3> QED BY <2>2, <2>7, <3>4, <3>5 DEF Queues
  <2>8. CASE Concludes(r)
    <3>1. PICK s \in {"rejected", "manual_action", "offline_receipt", "canceled"} :
            /\ Saved(r, s, act[r].row.ref) /\ act[r].pc \in EmptySteps
            /\ s = "canceled" <=> act[r].pc = "cn_save"
            /\ act[r].pc # "cn_call"
      <4>1. act[r].pc # "rp_save"
        BY <2>3 DEF HeldAt, EmptySteps, HoldingSteps
      <4> QED BY <2>8, <4>1 DEF Concludes, EmptySteps
    <3>2. call'[r] = NoCall /\ Gone(r) /\ UNCHANGED jobs /\ UNCHANGED call
      BY <2>3, <2>8, <3>1 DEF Concludes, CallAt, Calling, EmptySteps
    <3>3. doc'[e].status = s /\ \A d \in Docs \ {e} : doc'[d] = doc[d]
      BY <2>2, <3>1 DEF Saved
    <3>4. Out(e) = {} /\ (Used(e) # {} => s = "canceled")
      BY <2>3, <3>1 DEF HeldAt, EmptySteps
    <3> QED BY <2>6, <3>2, <3>3, <3>4 DEF Reserved
  <2>9. CASE GivesUp(r)
    <3>1. act[r].pc \in {"rq_enqueue", "cn_call"}
      BY <2>2, <2>3, <2>9 DEF GivesUp, HeldAt, EmptySteps, HoldingSteps, Current, Stage
    <3>2. call'[r] = NoCall /\ Gone(r) /\ UNCHANGED jobs /\ UNCHANGED call /\ UNCHANGED doc
      BY <2>3, <2>9, <3>1 DEF GivesUp, CallAt, Calling
    <3>3. act[r].pc = "rq_enqueue" => doc[e].status \in Reserved /\ Used(e) = {} /\ Out(e) # {}
      BY <2>2, <2>3 DEF Current, Stage, HeldAt, Reserved
    <3>4. act[r].pc = "cn_call" => doc[e].status = "authorized" /\ Used(e) # {} /\ Out(e) = {}
      BY <2>2, <2>3 DEF Current, Stage, HeldAt, EmptySteps
    <3> QED BY <2>6, <3>1, <3>2, <3>3, <3>4 DEF Reserved
  <2>10. CASE Answered(r)
    <3>1. /\ act[r].pc = "rq_reserving" /\ UNCHANGED jobs /\ UNCHANGED doc
          /\ call'[r] = NoCall /\ (\A q \in Callers \ {r} : call'[q] = call[q])
          /\ act'[r].period = act[r].period
      BY <2>10 DEF Answered, Calls
    <3>2. PICK pc \in {"rq_enqueue", "rq_offline"} :
            /\ To(r, pc)
            /\ pc = "rq_enqueue" <=> call[r].pc = "granted"
      BY <2>10 DEF Answered
    <3>3. act'[r].pc = pc
      BY <3>2 DEF To
    <3>4. Used(e) = {} /\ Out(e) = IF pc = "rq_enqueue" THEN {act[r].period} ELSE {}
      BY <2>3, <3>1, <3>2 DEF HeldAt, EmptySteps, HoldingSteps
    <3>5. HeldAt(act'[r], call'[r], doc'[e].status, Out(e), Used(e))
      BY <3>1, <3>2, <3>3, <3>4 DEF HeldAt, EmptySteps, HoldingSteps
    <3>6. CallAt(act'[r], call'[r], doc'[e].status)
      BY <3>1, <3>3 DEF CallAt, Calling
    <3> QED BY <2>5, <3>1, <3>2, <3>4, <3>5, <3>6 DEF RequestSteps
  <2>11. CASE Enqueues(r)
    <3>1. PICK k \in AnyJob : k.doc = e /\ k.period = act[r].period /\ jobs' = jobs \cup {k}
      BY <2>2, <2>11 DEF Enqueues
    <3>2. /\ act[r].pc = "rq_enqueue" /\ Gone(r) /\ UNCHANGED call /\ UNCHANGED doc
      BY <2>11 DEF Enqueues
    <3>3. /\ Out(e) = {act[r].period} /\ Used(e) = {} /\ call[r] = NoCall
          /\ doc[e].status = "queued"
      BY <2>2, <2>3, <3>2 DEF HeldAt, CallAt, Calling, Current, Stage
    <3>4. HeldDoc(e)' /\ HeldJob(k)'
      <4>1. Out(k.doc)' = Out(e)'
        BY <3>1
      <4> QED BY <2>4, <3>1, <3>2, <3>3, <4>1 DEF HeldDoc, HeldJob, Reserved
    <3> QED BY <1>1, <1>3, <2>2, <2>3, <3>1, <3>2, <3>3, <3>4, HeldOver
  <2>12. CASE Reprocesses(r)
    BY <2>3, <2>12 DEF Reprocesses, HeldAt, EmptySteps, HoldingSteps
  <2>13. CASE Cancels(r)
    <3>1. /\ To(r, "cn_save") /\ act[r].pc = "cn_call" /\ UNCHANGED call /\ UNCHANGED doc /\ UNCHANGED jobs
      BY <2>13 DEF Cancels
    <3>2. act'[r].pc = "cn_save"
      BY <3>1 DEF To
    <3>3. call[r] = NoCall /\ Out(e) = {} /\ Used(e) # {}
      BY <2>3, <3>1 DEF HeldAt, CallAt, Calling, EmptySteps
    <3>4. HeldAt(act'[r], call'[r], doc'[e].status, Out(e), Used(e))
      BY <3>1, <3>2, <3>3 DEF HeldAt, EmptySteps, HoldingSteps
    <3>5. CallAt(act'[r], call'[r], doc'[e].status)
      BY <3>1, <3>2, <3>3 DEF CallAt, Calling
    <3>6. Used(e) # {} => doc'[e].status \in {"authorized", "canceled"}
      BY <2>3, <3>1 DEF HeldDoc
    <3> QED BY <2>5, <3>1, <3>4, <3>5, <3>6 DEF RequestSteps
  <2> QED BY <1>5, <2>7, <2>8, <2>9, <2>10, <2>11, <2>12, <2>13 DEF Requested
<1> QED BY <1>4, <1>5

LEMMA WorkerHeld ==
  ASSUME "payload" \notin Env, Typed, Alone, AllHeld, NEW w \in Workers,
         Drops(w) \/ Takes(w) \/ Finds(w) \/ Worked(w)
  PROVE  AllHeld'
<1>1. w \in Callers /\ w \notin Requests
  BY EmissionAssumption DEF EmissionAssumption
<1>2. UNCHANGED ledger /\ UNCHANGED held
  BY DEF Drops, Takes, Finds, Worked, Closes, Writes, Posts, Consults, Ends, Books
<1>3. \A d \in Docs : Out(d)' = Out(d) /\ Used(d)' = Used(d)
  BY <1>2, BooksKept
\* a job nobody has taken up finds the unit
<1>4. ASSUME NEW j \in jobs, ~Taken(j)
      PROVE  /\ doc[j.doc].status \in Reserved /\ Out(j.doc) = {j.period} /\ Used(j.doc) = {}
             /\ j \in AnyJob /\ j.doc \in Docs
             /\ \A q \in Callers : ~Free(q) => act[q].doc # j.doc
             /\ \A k \in jobs : k.doc = j.doc => k = j
  <2>1. /\ j \in AnyJob /\ j.doc \in Docs
        /\ \A q \in Callers : ~Free(q) => act[q].doc # j.doc
        /\ \A k \in jobs : k.doc = j.doc => k = j
    BY <1>4, Untaken
  <2>2. doc[j.doc].status \in Reserved /\ Out(j.doc) = {j.period}
    BY <1>4 DEF AllHeld, HeldJobs, HeldJob
  <2>3. Used(j.doc) = {}
    BY <2>1, <2>2 DEF AllHeld, HeldDocs, HeldDoc, Reserved
  <2> QED BY <2>1, <2>2, <2>3
<1>5. ~Drops(w)
  BY <1>4 DEF Drops, Reserved, Terminal
<1>6. ~Finds(w)
  BY <1>4 DEF Finds, Closing, Reserved
<1>7. CASE Takes(w)
  <2>1. PICK j \in jobs, pc \in {"em_save", "rc_manual", "rc_consult"} :
          Free(w) /\ ~Taken(j) /\ act'[w] = Begin(pc, j.doc, j)
    BY <1>7 DEF Takes
  <2>2. PICK e \in Docs : e = j.doc
    BY <1>4, <2>1
  <2>3. /\ doc[e].status \in Reserved /\ Out(e) = {j.period} /\ Used(e) = {}
        /\ j \in AnyJob
        /\ \A q \in Callers : ~Free(q) => act[q].doc # e
        /\ \A k \in jobs : k.doc = e => k = j
    BY <1>4, <2>1, <2>2
  <2>4. act'[w].doc = e /\ act'[w].pc = pc /\ act'[w].job = j
    BY <2>1, <2>2, <2>3, BeginTyped DEF WorkerSteps
  <2>5. ~Free(w)'
    BY <2>4 DEF Free, NoAct
  <2>6. Others(w) /\ UNCHANGED doc /\ UNCHANGED jobs /\ UNCHANGED call
    BY <1>7 DEF Takes
  <2>7. Taken(j)'
    BY <2>4, <2>5 DEF Taken
  <2>8. HeldCall(act[w], call[w])
    BY <1>1 DEF AllHeld, HeldCalls
  <2>9. call'[w] = NoCall
    BY <2>1, <2>6, <2>8 DEF HeldCall, CallAt, Free, NoAct, Calling
  <2>10. HeldAt(act'[w], call'[w], doc'[e].status, Out(e)', Used(e)')
    BY <1>3, <2>3, <2>4, <2>6 DEF HeldAt, EmptySteps, HoldingSteps
  <2>11. CallAt(act'[w], call'[w], doc'[e].status)
    BY <2>4, <2>9 DEF CallAt, Calling
  <2>12. Used(e)' = {}
    BY <1>3, <2>3
  <2>13. \A k \in jobs' : k.doc = e => Taken(k)'
    BY <2>3, <2>6, <2>7
  <2> QED BY <1>1, <1>3, <2>1, <2>3, <2>4, <2>5, <2>6, <2>10, <2>11, <2>12, <2>13, HeldOn
<1>8. CASE Worked(w)
  <2>1. ~Free(w)
    BY <1>8 DEF Worked
  <2>2. PICK e \in Docs : e = act[w].doc
    BY <1>1, <2>1, AloneAt
  <2>3. PICK j \in AnyJob : j = act[w].job
    BY <1>1, <2>1, FreeAct DEF InPlace
  <2>4. /\ act[w] \in AnyAct /\ InPlace(w, act[w]) /\ doc[e] \in AnyRow
        /\ HeldAt(act[w], call[w], doc[e].status, Out(e), Used(e))
        /\ CallAt(act[w], call[w], doc[e].status) /\ HeldDoc(e)
        /\ Current(act[w])
        /\ \A q \in Callers \ {w} : ~Free(q) => act[q].doc # e
        /\ j \in jobs /\ j.doc = e
        /\ \A k \in jobs : k.doc = e => k = j
    BY <1>1, <2>1, <2>2, <2>3, HeldKnown
  <2>5. Out(e)' = Out(e) /\ Used(e)' = Used(e)
    BY <1>3
  \* the unit is there and has not been used
  <2>6. ASSUME act[w].pc \in HoldingSteps
        PROVE  /\ Out(e) = {j.period} /\ Used(e) = {} /\ doc[e].status \in Reserved
               /\ call[w] = NoCall
    BY <2>3, <2>4, <2>6 DEF HeldAt, CallAt, Calling, HoldingSteps
  \* the job goes on
  <2>7. ASSUME UNCHANGED jobs, Others(w), act'[w] \in AnyAct, act'[w].doc = e, act'[w].job = j,
               \A q \in Callers \ {w} : call'[q] = call[q],
               \A d \in Docs \ {e} : doc'[d] = doc[d],
               Used(e) = {},
               HeldAt(act'[w], call'[w], doc'[e].status, Out(e), Used(e)),
               CallAt(act'[w], call'[w], doc'[e].status)
        PROVE  AllHeld'
    <3>1. ~Free(w)'
      BY <2>7 DEF Free, NoAct, AnyAct, RequestSteps, WorkerSteps
    <3>2. \A k \in jobs' : k.doc = e => Taken(k)'
      BY <2>4, <2>7, <3>1 DEF Taken
    <3>3. Used(e)' = {}
      BY <2>5, <2>7
    <3> QED BY <1>1, <1>3, <2>2, <2>4, <2>5, <2>7, <3>1, <3>2, <3>3, HeldOn
  \* with the unit
  <2>8. ASSUME act[w].pc \in HoldingSteps, NEW pc \in HoldingSteps, To(w, pc),
               UNCHANGED jobs, UNCHANGED call,
               \A d \in Docs \ {e} : doc'[d] = doc[d], doc'[e].status \in Reserved
        PROVE  AllHeld'
    <3>1. /\ Others(w) /\ act'[w] \in AnyAct /\ act'[w].doc = e /\ act'[w].job = j /\ act'[w].pc = pc
      BY <2>2, <2>3, <2>8 DEF To
    <3>2. HeldAt(act'[w], call'[w], doc'[e].status, Out(e), Used(e))
      BY <2>6, <2>8, <3>1 DEF HeldAt, EmptySteps, HoldingSteps
    <3>3. CallAt(act'[w], call'[w], doc'[e].status)
      BY <2>6, <2>8, <3>1 DEF CallAt, Calling, HoldingSteps
    <3> QED BY <2>6, <2>7, <2>8, <3>1, <3>2, <3>3
  <2>9. CASE Closes(w)
    <3>1. PICK s \in {"authorized", "rejected", "manual_action"} :
            Saved(w, s, act[w].row.ref) /\ Closing(w, s, j)
      BY <2>3, <2>9 DEF Closes
    <3>2. act[w].pc \in HoldingSteps /\ UNCHANGED jobs
      BY <2>9 DEF Closes, HoldingSteps
    <3>3. doc'[e].status = s /\ \A d \in Docs \ {e} : doc'[d] = doc[d]
      BY <2>2, <3>1 DEF Saved
    <3>4. /\ Others(w) /\ act'[w] \in AnyAct /\ act'[w].doc = e /\ act'[w].job = j
          /\ act'[w].pc = "closing"
      BY <2>4, <3>1 DEF Closing
    <3>5. /\ call'[w] \in Call /\ call'[w].doc = e /\ call'[w].period = j.period
          /\ \/ s = "authorized" /\ call'[w].pc = "co_check"
             \/ s # "authorized" /\ call'[w].pc = "rel_check"
          /\ \A q \in Callers \ {w} : call'[q] = call[q]
      BY <2>4, <3>1, CallTypes DEF Closing, Calls
    <3>6. HeldAt(act'[w], call'[w], doc'[e].status, Out(e), Used(e))
      BY <2>6, <3>2, <3>4, <3>5 DEF HeldAt, EmptySteps, HoldingSteps, BeforeReturn
    <3>7. CallAt(act'[w], call'[w], doc'[e].status)
      BY <3>3, <3>4, <3>5 DEF CallAt, Calling, ConsumeSteps, ReleaseSteps
    <3> QED BY <2>6, <2>7, <3>2, <3>3, <3>4, <3>5, <3>6, <3>7
  <2>10. CASE Writes(w)
    <3>1. act[w].pc \in HoldingSteps /\ UNCHANGED jobs /\ UNCHANGED call
      BY <2>10 DEF Writes, HoldingSteps
    <3>2. PICK pc, s, n : pc \in HoldingSteps /\ To(w, pc) /\ Saved(w, s, n) /\ s \in Reserved
      <4>1. CASE act[w].pc # "rc_save"
        BY <2>10, <4>1 DEF Writes, HoldingSteps, Reserved
      <4>2. CASE act[w].pc = "rc_save"
        <5>1. PICK s \in Status \ Terminal :
                Saved(w, s, act[w].row.ref) /\ Learnt(act[w], s) /\ To(w, "rc_enqueue")
          BY <2>10, <4>2 DEF Writes
        <5>2. s = act[w].row.status \/ s = "processing"
          BY <2>4, <4>2, <5>1 DEF Learnt, InPlace, Found, Terminal
        <5>3. act[w].row.status = doc[e].status
          BY <2>2, <2>4, <4>2 DEF Current, Spent
        <5> QED BY <2>6, <3>1, <5>1, <5>2, <5>3 DEF Reserved, HoldingSteps
      <4> QED BY <4>1, <4>2
    <3>3. doc'[e].status = s /\ \A d \in Docs \ {e} : doc'[d] = doc[d]
      BY <2>2, <3>2 DEF Saved
    <3> QED BY <2>8, <3>1, <3>2, <3>3
  <2>11. CASE Posts(w) \/ Consults(w)
    <3>1. /\ act[w].pc \in HoldingSteps /\ UNCHANGED jobs /\ UNCHANGED call /\ UNCHANGED doc
          /\ \E pc \in HoldingSteps : To(w, pc)
      BY <2>11 DEF Posts, Consults, HoldingSteps
    <3> QED BY <2>6, <2>8, <3>1
  <2>12. CASE Ends(w)
    \* what holds of the document and of the job that takes over, if there is one
    <3>1. ASSUME NEW J, jobs' = (jobs \ {j}) \cup J, \A k \in J : k \in AnyJob /\ k.doc = e,
                 \A k \in J : k.period = j.period /\ doc'[e].status \in Reserved /\ Out(e) = {j.period},
                 call'[w] = NoCall, \A q \in Callers \ {w} : call'[q] = call[q],
                 \A d \in Docs \ {e} : doc'[d] = doc[d],
                 Out(e) # {} <=> doc'[e].status \in Reserved,
                 doc'[e].status = "authorized" => Used(e) # {},
                 Used(e) # {} => doc'[e].status \in {"authorized", "canceled"}
          PROVE  AllHeld'
      <4>1. HeldDoc(e)'
        BY <2>5, <3>1 DEF HeldDoc
      <4>2. \A k \in jobs : k.doc # e => k \in jobs'
        BY <2>4, <3>1
      <4>3. \A k \in jobs' : k.doc # e => k \in jobs
        BY <3>1
      <4>4. ASSUME NEW k \in jobs', k.doc = e
            PROVE  HeldJob(k)'
        <5>1. k \in J
          BY <2>4, <3>1, <4>4
        <5>2. Out(k.doc)' = {k.period}
          BY <2>5, <3>1, <4>4, <5>1
        <5> QED BY <3>1, <4>4, <5>1, <5>2 DEF HeldJob
      <4>5. Gone(w)
        BY <2>12 DEF Ends
      <4> QED BY <1>1, <1>3, <2>2, <2>4, <3>1, <4>1, <4>2, <4>3, <4>4, <4>5, HeldOver
    <3>2. CASE act[w].pc = "em_result"
      <4>1. /\ Saved(w, "provider_error", act[w].row.ref) /\ jobs' = jobs \ {j} /\ UNCHANGED call
        BY <2>3, <2>12, <3>2 DEF Ends
      <4>2. doc'[e].status = "provider_error" /\ \A d \in Docs \ {e} : doc'[d] = doc[d]
        BY <2>2, <4>1 DEF Saved
      <4>3. Used(e) = {} /\ call[w] = NoCall /\ Out(e) # {}
        BY <2>6, <3>2 DEF HoldingSteps
      <4>4. jobs' = (jobs \ {j}) \cup {}
        BY <4>1
      <4> QED BY <3>1, <4>1, <4>2, <4>3, <4>4 DEF Reserved
    <3>3. CASE act[w].pc \in {"em_enqueue", "rc_enqueue"}
      <4>1. /\ Used(e) = {} /\ call[w] = NoCall /\ Out(e) = {j.period} /\ doc[e].status \in Reserved
        BY <2>6, <3>3 DEF HoldingSteps
      <4>2. UNCHANGED call /\ UNCHANGED doc
        BY <2>12, <3>3 DEF Ends
      <4>3. CASE jobs' = jobs \ {j}
        <5>1. jobs' = (jobs \ {j}) \cup {}
          BY <4>3
        <5> QED BY <3>1, <4>1, <4>2, <5>1 DEF Reserved
      <4>4. CASE \E k \in AnyJob : /\ k.doc = e /\ k.period = j.period
                                   /\ jobs' = (jobs \ {j}) \cup {k}
        <5>1. PICK k \in AnyJob : k.doc = e /\ k.period = j.period /\ jobs' = (jobs \ {j}) \cup {k}
          BY <4>4
        <5>2. /\ \A i \in {k} : i \in AnyJob /\ i.doc = e
              /\ \A i \in {k} : i.period = j.period /\ doc'[e].status \in Reserved /\ Out(e) = {j.period}
          BY <4>1, <4>2, <5>1
        <5>3. "authorized" \notin Reserved
          BY DEF Reserved
        <5> QED BY <3>1, <4>1, <4>2, <5>1, <5>2, <5>3
      <4> QED BY <2>2, <2>3, <2>12, <3>3, <4>3, <4>4 DEF Ends
    <3>4. CASE act[w].pc = "closing"
      <4>1. /\ call[w].pc = "closed" /\ UNCHANGED doc /\ Calls(w, NoCall) /\ jobs' = jobs \ {j}
        BY <2>3, <2>12, <3>4 DEF Ends
      <4>2. /\ Out(e) = {} /\ (Used(e) # {} <=> doc[e].status = "authorized")
            /\ doc[e].status \notin Reserved
        BY <2>2, <2>4, <3>4, <4>1
        DEF HeldAt, EmptySteps, HoldingSteps, BeforeReturn, Current, Stage, Reserved
      <4>3. jobs' = (jobs \ {j}) \cup {}
        BY <4>1
      <4> QED BY <3>1, <4>1, <4>2, <4>3 DEF Calls
    <3>5. act[w].pc # "em_manual"
      BY <2>4 DEF HeldAt, EmptySteps, HoldingSteps
    <3> QED BY <2>12, <3>2, <3>3, <3>4, <3>5 DEF Ends
  <2> QED BY <1>8, <2>9, <2>10, <2>11, <2>12 DEF Worked
<1> QED BY <1>5, <1>6, <1>7, <1>8

\* what a commit does to the unit of its document and of no other
LEMMA UnitMoves ==
  ASSUME Typed, NEW e \in Docs, NEW m \in Months
  PROVE  /\ UNCHANGED held => \A d \in Docs : Out(d)' = Out(d)
         /\ held' = held \cup {<<e, m>>} =>
              Out(e)' = Out(e) \cup {m} /\ \A d \in Docs \ {e} : Out(d)' = Out(d)
         /\ held' = held \ {<<e, m>>} =>
              Out(e)' = Out(e) \ {m} /\ \A d \in Docs \ {e} : Out(d)' = Out(d)
         /\ UNCHANGED ledger => \A d \in Docs : Used(d)' = Used(d)
         /\ ledger' = ledger \cup {ReleaseKey(m, e)} => \A d \in Docs : Used(d)' = Used(d)
         /\ ledger' = ledger \cup {ConsumeKey(m, e)} =>
              Used(e)' = Used(e) \cup {m} /\ \A d \in Docs \ {e} : Used(d)' = Used(d)
BY DEF Out, Used, ConsumeKey, ReleaseKey

LEMMA CallerHeld ==
  ASSUME Typed, Alone, AllHeld, NEW p \in Callers, Serves(p)
  PROVE  AllHeld'
<1>1. call[p] \in Call /\ call[p] # NoCall
  BY DEF Serves, Call, NoCall, ReserveSteps, ConsumeSteps, ReleaseSteps, Outcomes
<1>2. HeldCall(act[p], call[p])
  BY DEF AllHeld, HeldCalls
<1>3. act[p].pc \in Calling /\ ~Free(p)
  BY <1>1, <1>2 DEF HeldCall, CallAt, Calling, Free, NoAct
<1>4. PICK e \in Docs : e = act[p].doc
  BY <1>3, AloneAt
<1>5. PICK m \in Months : m = call[p].period
  BY <1>1 DEF Call
<1>6. /\ act[p] \in AnyAct /\ doc[e] \in AnyRow
      /\ HeldAt(act[p], call[p], doc[e].status, Out(e), Used(e))
      /\ CallAt(act[p], call[p], doc[e].status) /\ HeldDoc(e)
      /\ \A q \in Callers \ {p} : ~Free(q) => act[q].doc # e
      /\ p \in Requests => \A j \in jobs : j.doc # e
      /\ p \in Workers => \A j \in jobs : j.doc = e => j = act[p].job
  BY <1>3, <1>4, HeldKnown
<1>7. /\ UNCHANGED act /\ UNCHANGED doc /\ UNCHANGED jobs /\ Others(p)
      /\ call'[p] \in Call /\ call'[p].doc = e /\ call'[p].period = m /\ call[p].doc = e
      /\ \A q \in Callers \ {p} : call'[q] = call[q]
      /\ call[p].pc \in ReserveSteps \cup ConsumeSteps \cup ReleaseSteps /\ Commits(p)
  BY <1>3, <1>4, <1>5, <1>6 DEF Serves, Calls, Others, Typed, CallAt
<1>8. Mine(p) = <<e, m>>
  BY <1>5, <1>7 DEF Mine
<1>9. /\ UNCHANGED held \/ held' = held \cup {<<e, m>>} \/ held' = held \ {<<e, m>>}
      /\ UNCHANGED ledger \/ ledger' = ledger \cup {ReleaseKey(m, e)} \/ ledger' = ledger \cup {ConsumeKey(m, e)}
  BY <1>5, <1>7, <1>8 DEF Commits
<1>10. \A d \in Docs \ {e} : doc'[d] = doc[d] /\ Out(d)' = Out(d) /\ Used(d)' = Used(d)
  BY <1>7, <1>9, UnitMoves
<1>11. \A j \in jobs' : j.doc = e => Taken(j)'
  <2>1. ASSUME NEW j \in jobs, j.doc = e
        PROVE  Taken(j)
    BY <1>3, <1>6, <2>1, EmissionAssumption DEF Taken, EmissionAssumption
  <2> QED BY <1>7, <2>1 DEF Taken, Free
<1>12. CASE act[p].pc = "rq_reserving"
  <2>1. /\ call[p].pc \in ReserveSteps /\ m = act[p].period /\ Out(e) = {} /\ Used(e) = {}
    BY <1>5, <1>6, <1>7, <1>12 DEF HeldAt, CallAt, EmptySteps, HoldingSteps, ReserveSteps, ConsumeSteps,
       ReleaseSteps
  <2>2. \/ call'[p].pc \in {"res_lock", "exceeded"} /\ UNCHANGED held /\ UNCHANGED ledger
        \/ call'[p].pc = "granted" /\ held' = held \cup {<<e, m>>} /\ UNCHANGED ledger
    BY <1>7, <1>8, <2>1 DEF Commits, ReserveSteps
  <2>3. /\ Used(e)' = {}
        /\ call'[p].pc # "granted" => Out(e)' = {}
        /\ call'[p].pc = "granted" => Out(e)' = {m}
    BY <2>1, <2>2, UnitMoves
  <2>4. HeldAt(act'[p], call'[p], doc'[e].status, Out(e)', Used(e)')
    BY <1>7, <1>12, <2>1, <2>3 DEF HeldAt, EmptySteps, HoldingSteps
  <2>5. CallAt(act'[p], call'[p], doc'[e].status)
    BY <1>4, <1>7, <1>12, <2>1, <2>2 DEF CallAt, Calling, ReserveSteps
  <2> QED BY <1>3, <1>4, <1>6, <1>7, <1>10, <1>11, <2>3, <2>4, <2>5, HeldOn DEF Free
<1>13. CASE act[p].pc = "closing"
  <2>1. /\ m = act[p].job.period /\ Used(e) = {}
        /\ \/ doc[e].status = "authorized" /\ call[p].pc \in ConsumeSteps
           \/ doc[e].status # "authorized" /\ call[p].pc \in ReleaseSteps
        /\ Out(e) = IF call[p].pc \in BeforeReturn THEN {m} ELSE {}
    BY <1>5, <1>6, <1>7, <1>13 DEF HeldAt, CallAt, EmptySteps, HoldingSteps, ReserveSteps, ConsumeSteps,
       ReleaseSteps
  <2>2. ConsumeKey(m, e) \notin ledger
    BY <2>1 DEF Used
  <2>3. CASE doc[e].status = "authorized" /\ call[p].pc \in ConsumeSteps
    <3>1. \/ /\ call'[p].pc \in {"co_used", "co_reserved"} /\ call[p].pc \in BeforeReturn
             /\ UNCHANGED held /\ UNCHANGED ledger
          \/ /\ call'[p].pc \in {"co_package", "co_ledger"} /\ call[p].pc \in BeforeReturn
             /\ held' = held \ {<<e, m>>} /\ UNCHANGED ledger
          \/ /\ call'[p].pc \in {"co_decrement", "co_addon", "co_ledger"} /\ call[p].pc \notin BeforeReturn
             /\ UNCHANGED held /\ UNCHANGED ledger
          \/ /\ call'[p].pc = "closed" /\ call[p].pc \notin BeforeReturn
             /\ UNCHANGED held /\ ledger' = ledger \cup {ConsumeKey(m, e)}
      BY <1>5, <1>7, <1>8, <2>2, <2>3 DEF Commits, ConsumeSteps, ReserveSteps, BeforeReturn
    <3>2. /\ call'[p].pc \in BeforeReturn => Out(e)' = {m}
          /\ call'[p].pc \notin BeforeReturn => Out(e)' = {}
          /\ Used(e)' # {} <=> call'[p].pc = "closed"
      BY <2>1, <3>1, UnitMoves DEF BeforeReturn
    <3>3. HeldAt(act'[p], call'[p], doc'[e].status, Out(e)', Used(e)')
      BY <1>7, <1>13, <2>1, <2>3, <3>2 DEF HeldAt, EmptySteps, HoldingSteps
    <3>4. CallAt(act'[p], call'[p], doc'[e].status)
      BY <1>4, <1>7, <1>13, <2>1, <2>3, <3>1 DEF CallAt, Calling, ConsumeSteps
    <3> QED BY <1>3, <1>4, <1>6, <1>7, <1>10, <1>11, <2>3, <3>3, <3>4, HeldOn DEF Free
  <2>4. CASE doc[e].status # "authorized" /\ call[p].pc \in ReleaseSteps
    <3>1. \/ /\ call'[p].pc \in {"closed", "rel_ledger"} /\ call[p].pc \in BeforeReturn
             /\ held' = held \ {<<e, m>>} /\ UNCHANGED ledger
          \/ /\ call'[p].pc = "rel_reserved" /\ call[p].pc \in BeforeReturn
             /\ UNCHANGED held /\ UNCHANGED ledger
          \/ /\ call'[p].pc = "closed" /\ call[p].pc \notin BeforeReturn
             /\ UNCHANGED held /\ ledger' = ledger \cup {ReleaseKey(m, e)}
      BY <1>5, <1>7, <1>8, <2>4 DEF Commits, ReleaseSteps, ReserveSteps, BeforeReturn
    <3>2. /\ call'[p].pc \in BeforeReturn => Out(e)' = {m}
          /\ call'[p].pc \notin BeforeReturn => Out(e)' = {}
          /\ Used(e)' = {}
      BY <2>1, <3>1, UnitMoves DEF BeforeReturn
    <3>3. HeldAt(act'[p], call'[p], doc'[e].status, Out(e)', Used(e)')
      BY <1>7, <1>13, <2>1, <2>4, <3>2 DEF HeldAt, EmptySteps, HoldingSteps
    <3>4. CallAt(act'[p], call'[p], doc'[e].status)
      BY <1>4, <1>7, <1>13, <2>1, <2>4, <3>1 DEF CallAt, Calling, ReleaseSteps
    <3> QED BY <1>3, <1>4, <1>6, <1>7, <1>10, <1>11, <3>2, <3>3, <3>4, HeldOn DEF Free
  <2> QED BY <2>1, <2>3, <2>4
<1> QED BY <1>3, <1>12, <1>13 DEF Calling

LEMMA HeldKept ==
  ASSUME AllHeld, UNCHANGED <<act, call, doc, jobs, ledger, held>>
  PROVE  AllHeld'
BY DEF AllHeld, HeldDocs, HeldActs, HeldCalls, HeldJobs, HeldDoc, HeldAct, HeldCall, HeldJob,
   HeldAt, CallAt, Out, Used, Quiet, Taken, Free

LEMMA HeldStep ==
  ASSUME "in_flight" \notin Env, "payload" \notin Env, "reprocess" \notin Env, MaxCrashes = 0,
         Retriable \cap Reserved = {} \/ "month" \notin Env, Typed, Alone, Still, AllHeld, [Next]_vars
  PROVE  AllHeld'
<1>1. ASSUME NEW p \in Callers
      PROVE  ~Dies(p)
  BY DEF Dies
<1>2. ASSUME NEW d \in Docs, Decides(d)
      PROVE  AllHeld'
  BY <1>2, HeldKept DEF Decides, Books
<1>3. ASSUME Calm
      PROVE  AllHeld'
  BY <1>3, HeldKept DEF Calm
<1> QED BY <1>1, <1>2, <1>3, NextShape, RequestHeld, WorkerHeld, CallerHeld

LEMMA HeldInit ==
  ASSUME Init
  PROVE  AllHeld
<1>1. \A p \in Callers : Free(p) /\ act[p].pc = "idle" /\ call[p] = NoCall
  BY DEF Init, QuotaInit, Free, NoAct
<1>2. \A d \in Docs : Out(d) = {} /\ Used(d) = {} /\ doc[d].status = "absent"
  BY DEF Init, QuotaInit, Out, Used, NoRow
<1>3. jobs = {}
  BY DEF Init
<1> QED BY <1>1, <1>2, <1>3 DEF AllHeld, HeldDocs, HeldActs, HeldCalls, HeldJobs, HeldDoc, HeldCall,
           CallAt, Calling, Reserved

\* When nothing is enqueued or running for a document, its unit is where its
\* status says: none is held by a final document or by a sale that left with
\* an offline receipt, and an authorized one has been counted.  For any number
\* of sales, emissions and months, also when Redis fails and a document left
\* QUEUED without a job is asked for again; the code does not guarantee it when
\* a process dies between two commits, when a stored payload is refused after
\* the unit was reserved, through the reprocess route, or when a document
\* still open is asked for again in another month: the unit would then be
\* looked for in the month of the second request.
THEOREM ReservationsAreClosed ==
  ASSUME "in_flight" \notin Env, "payload" \notin Env, "reprocess" \notin Env, MaxCrashes = 0,
         Retriable \cap Reserved = {} \/ "month" \notin Env
  PROVE  Spec => []ReservationClosed
<1>1. Init => Typed /\ Alone /\ Still /\ AllHeld
  BY TypedInit, AloneInit, StillInit, HeldInit
<1>2. Typed /\ Alone /\ Still /\ AllHeld /\ [Next]_vars => (Typed /\ Alone /\ Still /\ AllHeld)'
  BY TypedStep, AloneStep, StillStep, HeldStep
<1>3. AllHeld => ReservationClosed
  <2>1. ASSUME AllHeld, NEW d \in Docs, Quiet(d)
        PROVE  /\ doc[d].status \in Terminal \cup {"offline_receipt"} => ~Holds(d)
               /\ doc[d].status = "authorized" => \E m \in Months : ConsumeKey(m, d) \in ledger
    <3>1. HeldDoc(d)
      BY <2>1 DEF AllHeld, HeldDocs
    <3>2. doc[d].status \in Terminal \cup {"offline_receipt"} => Out(d) = {}
      BY <2>1, <3>1 DEF HeldDoc, Terminal, Reserved
    <3>3. doc[d].status = "authorized" => Used(d) # {}
      BY <2>1, <3>1 DEF HeldDoc
    <3> QED BY <3>2, <3>3 DEF Out, Used, Holds
  <2> QED BY <2>1 DEF ReservationClosed
<1> QED BY <1>1, <1>2, <1>3, PTL DEF Spec

\* only a job that posts makes the provider's list longer
LEMMA PosterShape ==
  ASSUME Typed, [Next]_vars, NEW d \in Docs, Len(notes'[d]) > Len(notes[d])
  PROVE  \E w \in Workers : ~Free(w) /\ act[w].doc = d /\ act[w].pc = "em_post"
<1>1. PICK n \in Nat : n = Len(notes[d])
  <2>1. notes[d] \in Seq(AnyNote)
    BY DEF Typed
  <2> QED BY <2>1
<1>2. PICK k \in Nat : k = Len(notes'[d])
  <2>1. Typed'
    BY TypedStep
  <2>2. notes'[d] \in Seq(AnyNote)
    BY <2>1 DEF Typed
  <2> QED BY <2>2
<1>3. DOMAIN notes[d] = 1 .. n /\ DOMAIN notes'[d] = 1 .. k /\ k > n
  <2>1. Typed'
    BY TypedStep
  <2>2. notes[d] \in Seq(AnyNote) /\ notes'[d] \in Seq(AnyNote)
    BY <2>1 DEF Typed
  <2> QED BY <1>1, <1>2, <2>2
<1>4. DOMAIN notes'[d] # DOMAIN notes[d]
  <2>1. k \in 1 .. k /\ k \notin 1 .. n
    BY <1>1, <1>2, <1>3
  <2> QED BY <1>3, <2>1
<1>5. PICK w \in Workers : Worked(w) /\ Posts(w)
  BY <1>4, NotesWane DEF Waning
<1>6. act[w].pc = "em_post" /\ ~Free(w) /\ w \in Callers
  BY <1>5, EmissionAssumption DEF Posts, Worked, EmissionAssumption
<1>7. PICK e \in Docs, key \in Nat : e = act[w].doc /\ key = act[w].row.ref
  BY <1>6, FreeAct DEF AnyAct, AnyRow
<1>8. UNCHANGED notes \/ \E v \in Verdicts : notes' = NotesAfter(e, key, v)
  BY <1>5, <1>7 DEF Posts, Verdicts
<1>9. d = e
  <2>1. PICK v \in Verdicts : notes' = NotesAfter(e, key, v)
    BY <1>4, <1>8
  <2>2. \A x \in Docs \ {e} : notes'[x] = notes[x]
    BY <2>1, NoteAdded
  <2> QED BY <1>4, <2>2
<1> QED BY <1>6, <1>7, <1>9

-----------------------------------------------------------------------------
(* One unit for a note *)

\* the document holds a unit of one month at most and was charged in one at
\* most; a canceled one was charged
Once(d) ==
  /\ \A m, n \in Out(d) : m = n
  /\ \A m, n \in Used(d) : m = n
  /\ doc[d].status = "canceled" => Used(d) # {}
AllOnce == \A d \in Docs : Once(d)

\* a document is canceled from where it was authorized
LEMMA CanceledShape ==
  ASSUME Typed, Alone, AllHeld, [Next]_vars, NEW d \in Docs, doc'[d].status = "canceled"
  PROVE  doc[d].status = "canceled" \/ Used(d) # {}
<1>1. CASE doc'[d] = doc[d]
  BY <1>1
<1>2. CASE doc'[d] # doc[d]
  <2>1. PICK p \in Callers :
          /\ ~Free(p) /\ act[p].doc = d
          /\ \/ p \in Requests /\ (Queues(p) \/ Concludes(p) \/ Reprocesses(p))
             \/ p \in Workers /\ (Closes(p) \/ Writes(p) \/ Ends(p))
    BY <1>2, WriterShape
  <2>2. HeldAt(act[p], call[p], doc[d].status, Out(d), Used(d))
    BY <2>1, HeldKnown
  <2>3. ASSUME NEW s, NEW n, Saved(p, s, n)
        PROVE  s = "canceled"
    BY <2>1, <2>3 DEF Saved
  <2>4. CASE Queues(p) \/ Reprocesses(p)
    BY <1>2, <2>3, <2>4 DEF Queues, Reprocesses
  <2>5. CASE Concludes(p)
    <3>1. act[p].pc = "cn_save"
      BY <2>3, <2>5 DEF Concludes
    <3> QED BY <2>2, <3>1 DEF HeldAt
  <2>6. CASE Closes(p)
    BY <2>3, <2>6 DEF Closes
  <2>7. CASE Writes(p)
    BY <2>3, <2>7 DEF Writes, Terminal
  <2>8. CASE Ends(p)
    BY <1>2, <2>3, <2>8 DEF Ends
  <2> QED BY <2>1, <2>4, <2>5, <2>6, <2>7, <2>8
<1> QED BY <1>1, <1>2

\* a unit goes out only where there is none, and is charged only once
LEMMA ServesOnce ==
  ASSUME Typed, Alone, AllHeld, AllOnce, NEW p \in Callers, Serves(p)
  PROVE  AllOnce'
<1>1. call[p] \in Call /\ call[p] # NoCall
  BY DEF Serves, Call, NoCall, ReserveSteps, ConsumeSteps, ReleaseSteps, Outcomes
<1>2. HeldCall(act[p], call[p])
  BY DEF AllHeld, HeldCalls
<1>3. act[p].pc \in Calling /\ ~Free(p)
  BY <1>1, <1>2 DEF HeldCall, CallAt, Calling, Free, NoAct
<1>4. PICK e \in Docs : e = act[p].doc
  BY <1>3, AloneAt
<1>5. PICK m \in Months : m = call[p].period
  BY <1>1 DEF Call
<1>6. /\ HeldAt(act[p], call[p], doc[e].status, Out(e), Used(e))
      /\ CallAt(act[p], call[p], doc[e].status)
  BY <1>3, <1>4, HeldKnown
<1>7. UNCHANGED doc /\ Commits(p) /\ Mine(p) = <<e, m>> /\ call[p].doc = e
  BY <1>3, <1>4, <1>5, <1>6 DEF Serves, CallAt, Mine
<1>8. /\ \/ UNCHANGED held \/ held' = held \ {<<e, m>>}
         \/ call[p].pc = "res_lock" /\ held' = held \cup {<<e, m>>}
      /\ \/ UNCHANGED ledger \/ ledger' = ledger \cup {ReleaseKey(m, e)}
         \/ call[p].pc = "co_ledger" /\ ledger' = ledger \cup {ConsumeKey(m, e)}
  BY <1>5, <1>7 DEF Commits
<1>9. call[p].pc = "res_lock" => Out(e) = {}
  <2>1. call[p].pc = "res_lock" => act[p].pc = "rq_reserving"
    BY <1>3, <1>6 DEF CallAt, Calling, ConsumeSteps, ReleaseSteps
  <2> QED BY <1>6, <2>1 DEF HeldAt
<1>10. call[p].pc = "co_ledger" => Used(e) = {}
  <2>1. call[p].pc = "co_ledger" => act[p].pc = "closing"
    BY <1>3, <1>6 DEF CallAt, Calling, ReserveSteps
  <2> QED BY <1>6, <2>1 DEF HeldAt
<1>11. /\ \A d \in Docs \ {e} : Out(d)' = Out(d) /\ Used(d)' = Used(d)
       /\ \A x, y \in Out(e)' : x = y
       /\ \A x, y \in Used(e)' : x = y
       /\ Used(e) # {} => Used(e)' # {}
  <2>1. \A x, y \in Out(e) : x = y
    BY DEF AllOnce, Once
  <2>2. \A x, y \in Used(e) : x = y
    BY DEF AllOnce, Once
  <2>3. /\ \A d \in Docs \ {e} : Out(d)' = Out(d)
        /\ \A d \in Docs \ {e} : Used(d)' = Used(d)
    BY <1>8, UnitMoves
  <2>4. \/ Out(e)' = Out(e) \/ Out(e)' = Out(e) \ {m}
        \/ Out(e) = {} /\ Out(e)' = Out(e) \cup {m}
    BY <1>8, <1>9, UnitMoves
  <2>5. Used(e)' = Used(e) \/ (Used(e) = {} /\ Used(e)' = Used(e) \cup {m})
    BY <1>8, <1>10, UnitMoves
  <2> QED BY <2>1, <2>2, <2>3, <2>4, <2>5
<1>12. ASSUME NEW d \in Docs
       PROVE  Once(d)'
  <2>1. Once(d) /\ doc'[d] = doc[d]
    BY <1>7 DEF AllOnce
  <2>2. CASE d = e
    <3>1. Out(d)' = Out(e)' /\ Used(d)' = Used(e)' /\ Used(d) = Used(e)
      BY <2>2
    <3> QED BY <1>11, <2>1, <3>1 DEF Once
  <2>3. CASE d # e
    <3>1. Out(d)' = Out(d) /\ Used(d)' = Used(d)
      BY <1>11, <2>3
    <3> QED BY <2>1, <3>1 DEF Once
  <2> QED BY <2>2, <2>3
<1> QED BY <1>12 DEF AllOnce

LEMMA OnceStep ==
  ASSUME Typed, Alone, AllHeld, AllOnce, [Next]_vars
  PROVE  AllOnce'
<1>1. ASSUME UNCHANGED ledger, UNCHANGED held
      PROVE  AllOnce'
  <2>1. ASSUME NEW d \in Docs
        PROVE  Once(d)'
    <3>1. Out(d)' = Out(d) /\ Used(d)' = Used(d) /\ Once(d)
      BY <1>1, BooksKept DEF AllOnce
    <3>2. doc'[d].status = "canceled" => Used(d) # {}
      BY <3>1, CanceledShape DEF Once
    <3> QED BY <3>1, <3>2 DEF Once
  <2> QED BY <2>1 DEF AllOnce
<1>2. ASSUME NEW r \in Requests, Begins(r) \/ Requested(r)
      PROVE  AllOnce'
  BY <1>1, <1>2
     DEF Begins, Requested, Queues, Concludes, GivesUp, Answered, Enqueues, Reprocesses, Cancels, Books
<1>3. ASSUME NEW w \in Workers, Drops(w) \/ Takes(w) \/ Finds(w) \/ Worked(w)
      PROVE  AllOnce'
  BY <1>1, <1>3 DEF Drops, Takes, Finds, Worked, Closes, Writes, Posts, Consults, Ends, Books
<1>4. ASSUME NEW p \in Callers, Dies(p)
      PROVE  AllOnce'
  BY <1>1, <1>4 DEF Dies, Books
<1>5. ASSUME NEW d \in Docs, Decides(d)
      PROVE  AllOnce'
  BY <1>1, <1>5 DEF Decides, Books
<1>6. ASSUME Calm
      PROVE  AllOnce'
  BY <1>1, <1>6 DEF Calm
<1> QED BY <1>2, <1>3, <1>4, <1>5, <1>6, NextShape, ServesOnce

\* whoever is charged, or about to be, has an authorized note
LEMMA ChargedFor ==
  ASSUME AllHeld, NEW d \in Docs, Charged(d)
  PROVE  doc[d].status \in {"authorized", "canceled"}
<1>1. CASE \E m \in Months : ConsumeKey(m, d) \in ledger
  <2>1. Used(d) # {}
    BY <1>1 DEF Used
  <2> QED BY <2>1 DEF AllHeld, HeldDocs, HeldDoc
<1>2. CASE \E p \in Callers : ~Idle(p) /\ call[p].doc = d /\ call[p].pc \in Settling
  <2>1. PICK p \in Callers : ~Idle(p) /\ call[p].doc = d /\ call[p].pc \in Settling
    BY <1>2
  <2>2. CallAt(act[p], call[p], doc[act[p].doc].status)
    BY DEF AllHeld, HeldCalls, HeldCall
  <2>3. act[p].pc = "closing" /\ act[p].doc = d
    BY <2>1, <2>2 DEF CallAt, Calling, Idle, Settling, ReserveSteps
  <2> QED BY <2>1, <2>2, <2>3 DEF CallAt, Settling, ReleaseSteps
<1> QED BY <1>1, <1>2 DEF Charged

\* who keeps a document from being quiet
LEMMA AtWork ==
  ASSUME Typed, Alone, NEW d \in Docs, ~Quiet(d)
  PROVE  \/ \E p \in Callers : ~Free(p) /\ act[p].doc = d
         \/ \E j \in jobs : j.doc = d /\ ~Taken(j)
<1>1. ASSUME NEW j \in jobs, j.doc = d, Taken(j)
      PROVE  \E p \in Callers : ~Free(p) /\ act[p].doc = d
  <2>1. PICK w \in Workers : ~Free(w) /\ act[w].job = j
    BY <1>1 DEF Taken
  <2>2. w \in Callers
    BY EmissionAssumption DEF EmissionAssumption
  <2> QED BY <1>1, <2>1, <2>2, AloneAt
<1> QED BY <1>1 DEF Quiet

\* where the unit of an authorized document is
LEMMA AuthorizedHas ==
  ASSUME Typed, Alone, AllHeld, NEW d \in Docs, doc[d].status = "authorized"
  PROVE  Out(d) # {} \/ Charged(d)
<1>1. CASE Quiet(d)
  <2>1. Used(d) # {}
    BY <1>1 DEF AllHeld, HeldDocs, HeldDoc
  <2> QED BY <2>1 DEF Used, Charged
<1>2. CASE \E j \in jobs : j.doc = d /\ ~Taken(j)
  BY <1>2 DEF AllHeld, HeldJobs, HeldJob, Reserved
<1>3. CASE \E p \in Callers : ~Free(p) /\ act[p].doc = d
  <2>1. PICK p \in Callers : ~Free(p) /\ act[p].doc = d
    BY <1>3
  <2>2. /\ HeldAt(act[p], call[p], doc[d].status, Out(d), Used(d))
        /\ CallAt(act[p], call[p], doc[d].status)
        /\ doc[d].status \in Stage(act[p].pc) /\ act[p] \in AnyAct
    BY <2>1, HeldKnown DEF Current
  <2>3. act[p].pc \in {"cn_call", "cn_save", "closing"}
    BY <2>2 DEF HeldAt, EmptySteps, HoldingSteps, Stage, Terminal, Status
  <2>4. CASE act[p].pc \in {"cn_call", "cn_save"}
    <3>1. Used(d) # {}
      BY <2>2, <2>4 DEF HeldAt
    <3> QED BY <3>1 DEF Used, Charged
  <2>5. CASE act[p].pc = "closing"
    <3>1. call[p].pc \in ConsumeSteps \cup {"closed"} /\ call[p].doc = d /\ call[p] \in Call
      BY <2>1, <2>2, <2>5 DEF CallAt, Calling
    <3>2. CASE call[p].pc = "closed"
      <4>1. Used(d) # {}
        BY <2>2, <2>5, <3>2 DEF HeldAt
      <4> QED BY <4>1 DEF Used, Charged
    <3>3. CASE call[p].pc \in BeforeReturn
      BY <2>2, <2>5, <3>3 DEF HeldAt
    <3>4. CASE call[p].pc \in Settling
      <4>1. ~Idle(p)
        BY <3>1 DEF Idle, Call, NoCall, ReserveSteps, ConsumeSteps, ReleaseSteps, Outcomes
      <4> QED BY <3>1, <3>4, <4>1 DEF Charged
    <3> QED BY <3>1, <3>2, <3>3, <3>4 DEF ConsumeSteps, BeforeReturn, Settling
  <2> QED BY <2>3, <2>4, <2>5
<1> QED BY <1>1, <1>2, <1>3, AtWork

\* a unit that was charged is not out as well
LEMMA UsedNotOut ==
  ASSUME Typed, Alone, AllHeld, NEW d \in Docs, Used(d) # {}
  PROVE  Out(d) = {}
<1>1. doc[d].status \notin Reserved
  BY DEF AllHeld, HeldDocs, HeldDoc, Reserved
<1>2. CASE Quiet(d)
  BY <1>1, <1>2 DEF AllHeld, HeldDocs, HeldDoc
<1>3. CASE \E p \in Callers : ~Free(p) /\ act[p].doc = d
  <2>1. PICK p \in Callers : ~Free(p) /\ act[p].doc = d
    BY <1>3
  <2>2. HeldAt(act[p], call[p], doc[d].status, Out(d), Used(d))
    BY <2>1, HeldKnown
  <2> QED BY <2>2 DEF HeldAt, EmptySteps, BeforeReturn
<1>4. CASE \E j \in jobs : j.doc = d /\ ~Taken(j)
  BY <1>1, <1>4 DEF AllHeld, HeldJobs, HeldJob
<1> QED BY <1>2, <1>3, <1>4, AtWork

\* When a note is authorized its unit is held, being charged or charged, and
\* stays charged when the note is canceled; nothing is charged for a document
\* that is neither; and however often it was refused and asked for again, its
\* units are of one month.  For any number of sales, months and packages,
\* under the hypotheses of ReservationsAreClosed.
THEOREM NotesCostOneUnit ==
  ASSUME "in_flight" \notin Env, "payload" \notin Env, "reprocess" \notin Env, MaxCrashes = 0,
         Retriable \cap Reserved = {} \/ "month" \notin Env
  PROVE  Spec => []OneUnit
<1>1. Init => Typed /\ Alone /\ Still /\ AllHeld /\ AllOnce
  <2>1. ASSUME Init
        PROVE  AllOnce
    BY <2>1 DEF Init, QuotaInit, AllOnce, Once, Out, Used, NoRow
  <2> QED BY <2>1, TypedInit, AloneInit, StillInit, HeldInit
<1>2. Typed /\ Alone /\ Still /\ AllHeld /\ AllOnce /\ [Next]_vars =>
        (Typed /\ Alone /\ Still /\ AllHeld /\ AllOnce)'
  BY TypedStep, AloneStep, StillStep, HeldStep, OnceStep
<1>3. ASSUME Typed, Alone, AllHeld, AllOnce
      PROVE  OneUnit
  <2>1. ASSUME NEW d \in Docs
        PROVE  Cardinality(Units(d)) <= 1
    <3>1. Units(d) = Out(d) \cup Used(d)
      BY DEF Units, Out, Used
    <3>2. /\ \A m, n \in Out(d) : m = n
          /\ \A m, n \in Used(d) : m = n
      BY <1>3 DEF AllOnce, Once
    <3>3. Out(d) = {} \/ Used(d) = {}
      BY <1>3, UsedNotOut
    <3>4. CASE Units(d) = {}
      BY <3>4, FS_EmptySet
    <3>5. CASE Units(d) # {}
      <4>1. PICK m : Units(d) = {m}
        BY <3>1, <3>2, <3>3, <3>5
      <4> QED BY <4>1, FS_Singleton
    <3> QED BY <3>4, <3>5
  <2>2. ASSUME NEW d \in Docs, doc[d].status \in {"authorized", "canceled"}
        PROVE  Holds(d) \/ Charged(d)
    <3>1. CASE doc[d].status = "authorized"
      BY <1>3, <3>1, AuthorizedHas DEF Out, Holds
    <3>2. CASE doc[d].status = "canceled"
      BY <1>3, <3>2 DEF AllOnce, Once, Used, Charged
    <3> QED BY <2>2, <3>1, <3>2
  <2>3. ASSUME NEW d \in Docs, Charged(d)
        PROVE  doc[d].status \in {"authorized", "canceled"}
    BY <1>3, <2>3, ChargedFor
  <2> QED BY <2>1, <2>2, <2>3 DEF OneUnit
<1> QED BY <1>1, <1>2, <1>3, PTL DEF Spec

-----------------------------------------------------------------------------
(* Every note has a unit behind it, whatever dies *)

\* a request is about to be told whether there is a unit for the document, or
\* was told that there is none
Waiting(d) ==
  \E r \in Callers :
    /\ ~Free(r) /\ act[r].doc = d
    /\ \/ act[r].pc = "rq_offline"
       \/ act[r].pc = "rq_reserving" /\ call[r].pc # "granted"

\* an open document holds a unit, waits for one, or was left by a request that
\* died: nobody works on it, and nobody asks for it again
OpenDoc(d) ==
  doc[d].status \in Reserved => \/ Holds(d) \/ Waiting(d)
                                \/ MaxCrashes # 0 /\ Quiet(d)

\* a job is for a document that has been open
OpenJob(j) == doc[j.doc].status \notin {"absent", "offline_receipt"}

\* a call is of the handler's document and of the kind its step makes
OpenCall(a, c) ==
  /\ a.pc \notin Calling => c = NoCall
  /\ a.pc \in Calling => c \in Call /\ c.doc = a.doc
  /\ a.pc = "rq_reserving" => c.pc \in ReserveSteps \cup {"granted", "exceeded"}
  /\ a.pc = "closing" => c.pc \in ConsumeSteps \cup ReleaseSteps \cup {"closed"}

Reprocessing == {"rp_save", "rp_read", "rp_requeue"}
OpenAct(a, c) == OpenCall(a, c) /\ a.pc \notin Reprocessing

OpenDocs == \A d \in Docs : OpenDoc(d)
OpenJobs == \A j \in jobs : OpenJob(j)
OpenActs == \A p \in Callers : OpenAct(act[p], call[p])
AllOpen == OpenDocs /\ OpenJobs /\ OpenActs

\* who requests or posts for a document that is open has the unit of it
LEMMA OpenHere ==
  ASSUME Typed, Alone, AllOpen, NEW p \in Callers, ~Free(p), NEW e \in Docs, e = act[p].doc,
         doc[e].status \in Reserved, act[p].pc # "rq_offline",
         act[p].pc = "rq_reserving" => call[p].pc = "granted"
  PROVE  Holds(e)
<1>1. \A q \in Callers \ {p} : ~Free(q) => act[q].doc # e
  BY AloneAt
<1>2. ~Quiet(e)
  BY DEF Quiet
<1>3. ~Waiting(e)
  BY <1>1 DEF Waiting
<1> QED BY <1>2, <1>3 DEF AllOpen, OpenDocs, OpenDoc

\* only what p does at document e has to be looked at
LEMMA OpenFrom ==
  ASSUME Typed, Alone, AllOpen, NEW p \in Callers, Others(p), NEW e \in Docs,
         ~Free(p) => act[p].doc = e,
         ~Free(p)' => act'[p].doc = e,
         \A q \in Callers \ {p} : call'[q] = call[q],
         \A q \in Callers \ {p} : ~Free(q) => act[q].doc # e,
         \A d \in Docs \ {e} : doc'[d] = doc[d],
         \A d \in Docs \ {e} : Holds(d) => Holds(d)',
         \A j \in jobs' : j.doc # e => j \in jobs,
         \A j \in jobs' : j.doc = e => OpenJob(j)',
         OpenDoc(e)', OpenAct(act[p], call[p])'
  PROVE  AllOpen'
<1>1. ASSUME NEW q \in Callers \ {p}
      PROVE  act'[q] = act[q] /\ call'[q] = call[q] /\ (Free(q)' <=> Free(q))
  BY DEF Others, Free
<1>2. ASSUME NEW d \in Docs, d # e
      PROVE  OpenDoc(d)'
  <2>1. doc'[d] = doc[d] /\ (Holds(d) => Holds(d)') /\ OpenDoc(d)
    BY <1>2 DEF AllOpen, OpenDocs
  <2>2. Waiting(d) => Waiting(d)'
    <3>1. ASSUME Waiting(d)
          PROVE  Waiting(d)'
      <4>1. PICK r \in Callers : /\ ~Free(r) /\ act[r].doc = d
                                 /\ \/ act[r].pc = "rq_offline"
                                    \/ act[r].pc = "rq_reserving" /\ call[r].pc # "granted"
        BY <3>1 DEF Waiting
      <4>2. r # p
        BY <1>2, <4>1
      <4>3. act'[r] = act[r] /\ call'[r] = call[r] /\ ~Free(r)'
        BY <1>1, <4>1, <4>2
      <4> QED BY <4>1, <4>3 DEF Waiting
    <3> QED BY <3>1
  <2>3. Quiet(d) => Quiet(d)'
    BY <1>1, <1>2 DEF Quiet
  <2> QED BY <2>1, <2>2, <2>3 DEF OpenDoc
<1>3. OpenDocs'
  BY <1>2 DEF OpenDocs
<1>4. ASSUME NEW j \in jobs', j.doc # e
      PROVE  OpenJob(j)'
  <2>1. j \in jobs /\ j.doc \in Docs /\ OpenJob(j)
    BY <1>4 DEF Typed, AnyJob, AllOpen, OpenJobs
  <2> QED BY <1>4, <2>1 DEF OpenJob
<1>5. OpenJobs'
  BY <1>4 DEF OpenJobs
<1>6. ASSUME NEW q \in Callers, q # p
      PROVE  OpenAct(act[q], call[q])'
  BY <1>1, <1>6 DEF AllOpen, OpenActs
<1>7. OpenActs'
  BY <1>6 DEF OpenActs
<1> QED BY <1>3, <1>5, <1>7 DEF AllOpen

\* what is known of a handler and its document
LEMMA OpenKnown ==
  ASSUME Typed, Alone, AllOpen, NEW p \in Callers, ~Free(p), NEW e \in Docs, e = act[p].doc
  PROVE  /\ act[p] \in AnyAct /\ doc[e] \in AnyRow /\ OpenAct(act[p], call[p])
         /\ doc[e].status \in Stage(act[p].pc)
         /\ act[p].pc \notin Spent => act[p].row = doc[e]
         /\ \A q \in Callers \ {p} : ~Free(q) => act[q].doc # e
         /\ p \in Requests => act[p].pc \in RequestSteps /\ \A j \in jobs : j.doc # e
         /\ p \in Workers => /\ act[p].pc \in WorkerSteps
                             /\ act[p].job \in jobs /\ act[p].job.doc = e
                             /\ \A j \in jobs : j.doc = e => j = act[p].job
                             /\ doc[e].status \notin {"absent", "offline_receipt"}
                             /\ act[p].pc # "closing" => Holds(e)
<1>1. /\ act[p] \in AnyAct /\ InPlace(p, act[p]) /\ doc[e] \in AnyRow
      /\ \A q \in Callers \ {p} : ~Free(q) => act[q].doc # e
      /\ Current(act[p])
      /\ p \in Requests => \A j \in jobs : j.doc # e
      /\ p \in Workers => /\ act[p].job \in jobs /\ act[p].job.doc = e
                          /\ \A j \in jobs : j.doc = e => j = act[p].job
  BY AloneAt
<1>2. OpenAct(act[p], call[p])
  BY DEF AllOpen, OpenActs
<1>3. doc[e].status \in Stage(act[p].pc) /\ (act[p].pc \notin Spent => act[p].row = doc[e])
  BY <1>1 DEF Current
<1>4. ASSUME p \in Workers
      PROVE  doc[e].status \notin {"absent", "offline_receipt"}
  BY <1>1, <1>4 DEF AllOpen, OpenJobs, OpenJob
<1>5. ASSUME p \in Workers, act[p].pc # "closing"
      PROVE  Holds(e)
  <2>1. act[p].pc \in WorkerSteps
    BY <1>1, <1>5 DEF InPlace
  <2>2. doc[e].status \in Status \ Terminal
    BY <1>3, <1>5, <2>1 DEF Stage, WorkerSteps, Status, Terminal
  <2>3. doc[e].status \in Reserved
    BY <1>4, <1>5, <2>2 DEF Status, Reserved
  <2> QED BY <1>5, <2>1, <2>3, OpenHere DEF WorkerSteps
<1> QED BY <1>1, <1>2, <1>3, <1>4, <1>5 DEF InPlace

\* the request of a document ends or goes on, the books stay as they are
LEMMA RequestGoesOn ==
  ASSUME Typed, Alone, AllOpen, NEW r \in Requests, ~Free(r), Others(r), NEW e \in Docs,
         e = act[r].doc, ~Free(r)' => act'[r].doc = e,
         \A q \in Callers \ {r} : call'[q] = call[q],
         \A d \in Docs \ {e} : doc'[d] = doc[d],
         UNCHANGED held, jobs' \subseteq jobs,
         OpenDoc(e)', OpenAct(act[r], call[r])'
  PROVE  AllOpen'
<1>1. r \in Callers
  BY EmissionAssumption DEF EmissionAssumption
<1>2. /\ \A q \in Callers \ {r} : ~Free(q) => act[q].doc # e
      /\ \A j \in jobs' : j.doc # e
  BY <1>1, OpenKnown
<1>3. \A d \in Docs \ {e} : Holds(d) => Holds(d)'
  BY DEF Holds
<1> QED BY <1>1, <1>2, <1>3, OpenFrom

LEMMA RequestOpen ==
  ASSUME "in_flight" \notin Env, "reprocess" \notin Env,
         MaxCrashes = 0 \/ Retriable \cap Reserved = {},
         Typed, Alone, AllOpen, NEW r \in Requests, Begins(r) \/ Requested(r)
  PROVE  AllOpen'
<1>1. r \in Callers /\ r \notin Workers
  BY EmissionAssumption DEF EmissionAssumption
<1>2. UNCHANGED held
  BY DEF Begins, Requested, Queues, Concludes, GivesUp, Answered, Enqueues, Reprocesses, Cancels, Books
<1>3. \A d \in Docs : Holds(d) <=> Holds(d)'
  BY <1>2 DEF Holds
<1>4. CASE Begins(r)
  <2>1. PICK d \in Docs, pc \in {"rq_create", "rq_requeue", "rq_manual", "rq_reject", "cn_call"} :
          /\ Free(r) /\ Quiet(d) /\ act'[r] = Begin(pc, d, NoJob) /\ Others(r)
          /\ \/ pc = "rq_create" /\ doc[d].status = "absent"
             \/ doc[d].status \in Retriable
             \/ pc = "cn_call" /\ doc[d].status = "authorized"
    BY <1>4 DEF Begins, MayAsk
  <2>2. act'[r].doc = d /\ act'[r].pc = pc
    BY <2>1, BeginTyped DEF RequestSteps
  <2>3. UNCHANGED doc /\ UNCHANGED jobs /\ UNCHANGED call
    BY <1>4 DEF Begins
  <2>4. (\A j \in jobs : j.doc # d) /\ \A q \in Callers : ~Free(q) => act[q].doc # d
    BY <2>1 DEF Quiet
  <2>5. OpenDoc(d) /\ OpenAct(act[r], call[r])
    BY <1>1 DEF AllOpen, OpenDocs, OpenActs
  <2>6. ~Waiting(d)
    BY <2>4 DEF Waiting
  <2>7. doc[d].status \in Reserved => Holds(d)
    BY <2>1, <2>5, <2>6 DEF OpenDoc, Reserved
  <2>8. OpenDoc(d)'
    BY <1>3, <2>3, <2>7 DEF OpenDoc
  <2>9. call'[r] = NoCall
    BY <2>1, <2>3, <2>5 DEF OpenAct, OpenCall, Free, NoAct, Calling
  <2>10. OpenAct(act[r], call[r])'
    BY <2>2, <2>9 DEF OpenAct, OpenCall, Calling, Reprocessing
  <2> QED BY <1>1, <1>3, <2>1, <2>2, <2>3, <2>4, <2>8, <2>10, OpenFrom
<1>5. CASE Requested(r)
  <2>1. ~Free(r)
    BY <1>5 DEF Requested
  <2>2. PICK e \in Docs : e = act[r].doc
    BY <1>1, <2>1, AloneAt
  <2>3. /\ act[r] \in AnyAct /\ doc[e] \in AnyRow /\ OpenAct(act[r], call[r])
        /\ doc[e].status \in Stage(act[r].pc)
        /\ act[r].pc \notin Spent => act[r].row = doc[e]
        /\ \A q \in Callers \ {r} : ~Free(q) => act[q].doc # e
        /\ \A j \in jobs : j.doc # e
    BY <1>1, <2>1, <2>2, OpenKnown
  <2>4. Holds(e) => Holds(e)'
    BY <1>3
  \* the request goes on
  <2>5. ASSUME UNCHANGED jobs, NEW pc \in RequestSteps, To(r, pc),
               \A q \in Callers \ {r} : call'[q] = call[q],
               \A d \in Docs \ {e} : doc'[d] = doc[d],
               OpenDoc(e)', OpenAct(act[r], call[r])'
        PROVE  AllOpen'
    <3>1. Others(r) /\ act'[r].doc = e
      BY <2>2, <2>5 DEF To
    <3> QED BY <1>2, <2>1, <2>2, <2>5, <3>1, RequestGoesOn
  \* the request ends
  <2>6. ASSUME Gone(r), call'[r] = NoCall, \A q \in Callers \ {r} : call'[q] = call[q],
               \A d \in Docs \ {e} : doc'[d] = doc[d], UNCHANGED jobs,
               doc'[e].status \notin Reserved \/ Holds(e)
        PROVE  AllOpen'
    <3>1. OpenDoc(e)'
      BY <2>4, <2>6 DEF OpenDoc
    <3>2. Others(r) /\ Free(r)' /\ act'[r].pc = "idle"
      BY <2>6 DEF Gone, Free, NoAct
    <3>3. OpenAct(act[r], call[r])'
      BY <2>6, <3>2 DEF OpenAct, OpenCall, Calling, Reprocessing
    <3> QED BY <1>2, <2>1, <2>2, <2>6, <3>1, <3>2, <3>3, RequestGoesOn
  <2>7. CASE Queues(r)
    <3>1. /\ act[r].pc \in {"rq_create", "rq_requeue"} /\ act[r].row = doc[e]
          /\ act[r].pc = "rq_create" => doc[e].status = "absent"
      BY <2>2, <2>3, <2>7 DEF Queues, OpenAct, Reprocessing, Spent
    <3>2. /\ \A d \in Docs \ {e} : doc'[d] = doc[d]
          /\ UNCHANGED jobs /\ \A q \in Callers \ {r} : call'[q] = call[q]
      BY <2>2, <2>7 DEF Queues, Saved, Calls
    <3>3. CASE To(r, "rq_reserving") /\ Calls(r, ReserveCall(e))
      <4>1. /\ ReserveCall(e) \in Call /\ ReserveCall(e).doc = e /\ ReserveCall(e).pc = "res_read"
        BY ReserveTypes
      <4>2. call'[r] = ReserveCall(e) /\ act'[r].pc = "rq_reserving" /\ act'[r].doc = e
        BY <2>2, <3>3 DEF Calls, To
      <4>3. ~Free(r)'
        BY <4>2 DEF Free, NoAct
      <4>4. Waiting(e)'
        BY <1>1, <4>1, <4>2, <4>3 DEF Waiting
      <4>5. OpenDoc(e)'
        BY <4>4 DEF OpenDoc
      <4>6. OpenAct(act[r], call[r])'
        BY <4>1, <4>2 DEF OpenAct, OpenCall, Calling, Reprocessing, ReserveSteps
      <4> QED BY <2>5, <3>2, <3>3, <4>5, <4>6 DEF RequestSteps
    <3>4. CASE act[r].row.status \in Reserved /\ To(r, "rq_enqueue") /\ UNCHANGED call
      <4>1. Holds(e)
        BY <1>1, <2>1, <2>2, <3>1, <3>4, OpenHere
      <4>2. OpenDoc(e)'
        BY <2>4, <4>1 DEF OpenDoc
      <4>3. act'[r].pc = "rq_enqueue" /\ call'[r] = NoCall
        BY <2>3, <3>1, <3>4 DEF To, OpenAct, OpenCall, Calling
      <4>4. OpenAct(act[r], call[r])'
        BY <4>3 DEF OpenAct, OpenCall, Calling, Reprocessing
      <4> QED BY <2>5, <3>2, <3>4, <4>2, <4>4 DEF RequestSteps
    <3> QED BY <2>2, <2>7, <3>3, <3>4 DEF Queues
  <2>8. CASE Concludes(r)
    <3>1. PICK s \in {"rejected", "manual_action", "offline_receipt", "canceled"} :
            Saved(r, s, act[r].row.ref) /\ act[r].pc \notin Calling
      BY <2>3, <2>8 DEF Concludes, OpenAct, Reprocessing, Calling
    <3>2. call'[r] = NoCall /\ Gone(r) /\ UNCHANGED jobs /\ UNCHANGED call
      BY <2>3, <2>8, <3>1 DEF Concludes, OpenAct, OpenCall
    <3>3. doc'[e].status \notin Reserved /\ \A d \in Docs \ {e} : doc'[d] = doc[d]
      BY <2>2, <3>1 DEF Saved, Reserved
    <3> QED BY <2>6, <3>2, <3>3
  <2>9. CASE GivesUp(r)
    <3>1. act[r].pc \in {"rq_enqueue", "cn_call"}
      BY <2>2, <2>3, <2>9 DEF GivesUp, OpenAct, Reprocessing, Stage
    <3>2. call'[r] = NoCall /\ Gone(r) /\ UNCHANGED jobs /\ UNCHANGED call /\ UNCHANGED doc
      BY <2>3, <2>9, <3>1 DEF GivesUp, OpenAct, OpenCall, Calling
    <3>3. doc[e].status \in Reserved => Holds(e)
      BY <1>1, <2>1, <2>2, <3>1, OpenHere
    <3> QED BY <2>6, <3>2, <3>3
  <2>10. CASE Answered(r)
    <3>1. /\ act[r].pc = "rq_reserving" /\ UNCHANGED jobs /\ UNCHANGED doc
          /\ call'[r] = NoCall /\ (\A q \in Callers \ {r} : call'[q] = call[q])
      BY <2>10 DEF Answered, Calls
    <3>2. PICK pc \in {"rq_enqueue", "rq_offline"} :
            To(r, pc) /\ (pc = "rq_enqueue" => call[r].pc = "granted")
      BY <2>10 DEF Answered
    <3>3. act'[r].pc = pc /\ act'[r].doc = e
      BY <2>2, <3>2 DEF To
    <3>4. OpenAct(act[r], call[r])'
      BY <3>1, <3>3 DEF OpenAct, OpenCall, Calling, Reprocessing
    <3>5. CASE pc = "rq_enqueue"
      <4>1. doc[e].status \in Reserved => Holds(e)
        BY <1>1, <2>1, <2>2, <3>1, <3>2, <3>5, OpenHere
      <4>2. OpenDoc(e)'
        BY <2>4, <3>1, <4>1 DEF OpenDoc
      <4> QED BY <2>5, <3>1, <3>2, <3>4, <4>2 DEF RequestSteps
    <3>6. CASE pc = "rq_offline"
      <4>1. ~Free(r)'
        BY <3>3, <3>6 DEF Free, NoAct
      <4>2. Waiting(e)'
        BY <1>1, <3>3, <3>6, <4>1 DEF Waiting
      <4>3. OpenDoc(e)'
        BY <4>2 DEF OpenDoc
      <4> QED BY <2>5, <3>1, <3>2, <3>4, <4>3 DEF RequestSteps
    <3> QED BY <3>5, <3>6
  <2>11. CASE Enqueues(r)
    <3>1. PICK k \in AnyJob : k.doc = e /\ jobs' = jobs \cup {k}
      BY <2>2, <2>11 DEF Enqueues
    <3>2. /\ act[r].pc = "rq_enqueue" /\ Gone(r) /\ UNCHANGED call /\ UNCHANGED doc
      BY <2>11 DEF Enqueues
    <3>3. doc[e].status = "queued" /\ Holds(e) /\ call[r] = NoCall
      <4>1. doc[e].status = "queued" /\ call[r] = NoCall
        BY <2>3, <3>2 DEF Stage, OpenAct, OpenCall, Calling
      <4> QED BY <1>1, <2>1, <2>2, <3>2, <4>1, OpenHere DEF Reserved
    <3>4. OpenDoc(e)'
      BY <2>4, <3>3 DEF OpenDoc
    <3>5. \A j \in jobs' : j.doc = e => OpenJob(j)'
      BY <3>2, <3>3 DEF OpenJob
    <3>6. Others(r) /\ Free(r)' /\ act'[r].pc = "idle" /\ call'[r] = NoCall
      BY <3>2, <3>3 DEF Gone, Free, NoAct
    <3>7. OpenAct(act[r], call[r])'
      BY <3>6 DEF OpenAct, OpenCall, Calling, Reprocessing
    <3> QED BY <1>1, <1>3, <2>2, <2>3, <3>1, <3>2, <3>4, <3>5, <3>6, <3>7, OpenFrom
  <2>12. CASE Reprocesses(r)
    BY <2>3, <2>12 DEF Reprocesses, OpenAct, Reprocessing
  <2>13. CASE Cancels(r)
    <3>1. /\ To(r, "cn_save") /\ act[r].pc = "cn_call"
          /\ UNCHANGED call /\ UNCHANGED doc /\ UNCHANGED jobs
      BY <2>13 DEF Cancels
    <3>2. act'[r].pc = "cn_save" /\ call'[r] = NoCall /\ doc[e].status = "authorized"
      BY <2>3, <3>1 DEF To, OpenAct, OpenCall, Calling, Stage
    <3>3. OpenDoc(e)'
      BY <3>1, <3>2 DEF OpenDoc, Reserved
    <3>4. OpenAct(act[r], call[r])'
      BY <3>2 DEF OpenAct, OpenCall, Calling, Reprocessing
    <3> QED BY <2>5, <3>1, <3>3, <3>4 DEF RequestSteps
  <2> QED BY <1>5, <2>7, <2>8, <2>9, <2>10, <2>11, <2>12, <2>13 DEF Requested
<1> QED BY <1>4, <1>5

LEMMA WorkerOpen ==
  ASSUME Typed, Alone, AllOpen, NEW w \in Workers,
         Drops(w) \/ Takes(w) \/ Finds(w) \/ Worked(w)
  PROVE  AllOpen'
<1>1. w \in Callers /\ w \notin Requests
  BY EmissionAssumption DEF EmissionAssumption
<1>2. UNCHANGED held
  BY DEF Drops, Takes, Finds, Worked, Closes, Writes, Posts, Consults, Ends, Books
<1>3. \A d \in Docs : Holds(d) <=> Holds(d)'
  BY <1>2 DEF Holds
<1>4. ASSUME Free(w)
      PROVE  call[w] = NoCall
  BY <1>1, <1>4 DEF AllOpen, OpenActs, OpenAct, OpenCall, Free, NoAct, Calling
\* a worker's call is one that closes a reservation
<1>5. ASSUME NEW s, NEW j \in AnyJob, Closing(w, s, j)
      PROVE  /\ Others(w) /\ act'[w].doc = j.doc /\ OpenAct(act[w], call[w])'
             /\ \A q \in Callers \ {w} : call'[q] = call[q]
             /\ s \notin Reserved
  <2>1. /\ Others(w) /\ act'[w].doc = j.doc /\ act'[w].pc = "closing"
        /\ \A q \in Callers \ {w} : call'[q] = call[q]
        /\ s \notin Reserved
        /\ \/ call'[w] = ConsumeCall(j.doc, j.period, j.addon)
           \/ call'[w] = ReleaseCall(j.doc, j.period)
    BY <1>5 DEF Closing, Calls, Reserved
  <2>2. /\ call'[w] \in Call /\ call'[w].doc = j.doc
        /\ call'[w].pc \in ConsumeSteps \cup ReleaseSteps
    BY <2>1, CallTypes DEF ConsumeSteps, ReleaseSteps
  <2> QED BY <2>1, <2>2 DEF OpenAct, OpenCall, Calling, Reprocessing
<1>6. ASSUME NEW j \in jobs, ~Taken(j)
      PROVE  /\ j \in AnyJob /\ j.doc \in Docs /\ OpenDoc(j.doc) /\ OpenJob(j)
             /\ \A q \in Callers : ~Free(q) => act[q].doc # j.doc
             /\ \A k \in jobs : k.doc = j.doc => k = j
  BY <1>6, Untaken DEF AllOpen, OpenDocs, OpenJobs
<1>7. CASE Drops(w)
  <2>1. PICK j \in jobs : ~Taken(j) /\ jobs' = jobs \ {j} /\ doc[j.doc].status \in Terminal
    BY <1>7 DEF Drops
  <2>2. PICK e \in Docs : e = j.doc
    BY <1>6, <2>1
  <2>3. Free(w) /\ UNCHANGED act /\ UNCHANGED call /\ UNCHANGED doc
    BY <1>7 DEF Drops
  <2>4. OpenDoc(e)' /\ OpenAct(act[w], call[w])'
    BY <1>1, <2>1, <2>2, <2>3 DEF OpenDoc, Terminal, Reserved, AllOpen, OpenActs
  <2>5. \A k \in jobs' : k.doc = e => OpenJob(k)'
    BY <1>6, <2>1, <2>2
  <2>6. Others(w) /\ Free(w)'
    BY <2>3 DEF Others, Free, Typed
  <2> QED BY <1>1, <1>3, <1>6, <2>1, <2>2, <2>3, <2>4, <2>5, <2>6, OpenFrom
<1>8. CASE Takes(w)
  <2>1. PICK j \in jobs, pc \in {"em_save", "em_manual", "em_reject", "rc_manual", "rc_consult"} :
          Free(w) /\ ~Taken(j) /\ act'[w] = Begin(pc, j.doc, j) /\ doc[j.doc].status \notin Terminal
    BY <1>8 DEF Takes
  <2>2. PICK e \in Docs : e = j.doc
    BY <1>6, <2>1
  <2>3. act'[w].doc = e /\ act'[w].pc = pc
    BY <1>6, <2>1, <2>2, BeginTyped DEF WorkerSteps
  <2>4. Others(w) /\ UNCHANGED doc /\ UNCHANGED jobs /\ UNCHANGED call
    BY <1>8 DEF Takes
  <2>5. OpenDoc(e) /\ ~Waiting(e) /\ ~Quiet(e)
    BY <1>6, <2>1, <2>2 DEF Waiting, Quiet
  <2>6. OpenDoc(e)'
    BY <1>3, <2>4, <2>5 DEF OpenDoc
  <2>7. OpenAct(act[w], call[w])'
    BY <1>4, <2>1, <2>3, <2>4 DEF OpenAct, OpenCall, Calling, Reprocessing
  <2>8. \A k \in jobs' : k.doc = e => OpenJob(k)'
    BY <1>6, <2>1, <2>2, <2>4 DEF OpenJob
  <2> QED BY <1>1, <1>3, <1>6, <2>1, <2>2, <2>3, <2>4, <2>6, <2>7, <2>8, OpenFrom
<1>9. CASE Finds(w)
  <2>1. PICK j \in jobs : Free(w) /\ ~Taken(j) /\ Closing(w, doc[j.doc].status, j)
    BY <1>9 DEF Finds
  <2>2. PICK e \in Docs : e = j.doc
    BY <1>6, <2>1
  <2>3. UNCHANGED doc /\ UNCHANGED jobs
    BY <1>9 DEF Finds
  <2>4. /\ Others(w) /\ act'[w].doc = e /\ OpenAct(act[w], call[w])'
        /\ \A q \in Callers \ {w} : call'[q] = call[q]
        /\ doc[e].status \notin Reserved
    BY <1>5, <1>6, <2>1, <2>2
  <2>5. OpenDoc(e)' /\ \A k \in jobs' : k.doc = e => OpenJob(k)'
    BY <1>6, <2>1, <2>2, <2>3, <2>4 DEF OpenDoc, OpenJob
  <2> QED BY <1>1, <1>3, <1>6, <2>1, <2>2, <2>3, <2>4, <2>5, OpenFrom
<1>10. CASE Worked(w)
  <2>1. ~Free(w)
    BY <1>10 DEF Worked
  <2>2. PICK e \in Docs : e = act[w].doc
    BY <1>1, <2>1, AloneAt
  <2>3. PICK j \in AnyJob : j = act[w].job
    BY <1>1, <2>1, FreeAct DEF InPlace
  <2>4. /\ act[w] \in AnyAct /\ doc[e] \in AnyRow /\ OpenAct(act[w], call[w])
        /\ doc[e].status \in Stage(act[w].pc)
        /\ act[w].pc \notin Spent => act[w].row = doc[e]
        /\ \A q \in Callers \ {w} : ~Free(q) => act[q].doc # e
        /\ act[w].pc \in WorkerSteps
        /\ j \in jobs /\ j.doc = e
        /\ \A k \in jobs : k.doc = e => k = j
        /\ doc[e].status \notin {"absent", "offline_receipt"}
        /\ act[w].pc # "closing" => Holds(e)
    BY <1>1, <2>1, <2>2, <2>3, OpenKnown
  <2>5. Holds(e) => Holds(e)'
    BY <1>3
  \* whatever becomes of the job
  <2>6. ASSUME Others(w), ~Free(w)' => act'[w].doc = e,
               \A q \in Callers \ {w} : call'[q] = call[q],
               \A d \in Docs \ {e} : doc'[d] = doc[d],
               \A k \in jobs' : k.doc # e => k \in jobs,
               doc'[e].status \notin {"absent", "offline_receipt"},
               doc'[e].status \notin Reserved \/ act[w].pc # "closing",
               OpenAct(act[w], call[w])'
        PROVE  AllOpen'
    <3>1. OpenDoc(e)'
      BY <2>4, <2>5, <2>6 DEF OpenDoc
    <3>2. \A k \in jobs' : k.doc = e => OpenJob(k)'
      BY <2>6 DEF OpenJob
    <3> QED BY <1>1, <1>3, <2>1, <2>2, <2>4, <2>6, <3>1, <3>2, OpenFrom
  \* it goes on, with no call
  <2>7. ASSUME NEW pc \in WorkerSteps \ {"closing"}, To(w, pc), act[w].pc # "closing",
               UNCHANGED jobs, UNCHANGED call,
               \A d \in Docs \ {e} : doc'[d] = doc[d],
               doc'[e].status \notin {"absent", "offline_receipt"}
        PROVE  AllOpen'
    <3>1. Others(w) /\ act'[w].doc = e /\ act'[w].pc = pc
      BY <2>2, <2>7 DEF To
    <3>2. call'[w] = NoCall
      BY <2>4, <2>7 DEF OpenAct, OpenCall, Calling, WorkerSteps
    <3>3. OpenAct(act[w], call[w])'
      BY <2>7, <3>1, <3>2 DEF OpenAct, OpenCall, Calling, Reprocessing, WorkerSteps
    <3> QED BY <2>6, <2>7, <3>1, <3>3
  <2>8. CASE Closes(w)
    <3>1. PICK s \in {"authorized", "rejected", "manual_action"} :
            Saved(w, s, act[w].row.ref) /\ Closing(w, s, j)
      BY <2>3, <2>8 DEF Closes
    <3>2. /\ Others(w) /\ act'[w].doc = e /\ OpenAct(act[w], call[w])'
          /\ \A q \in Callers \ {w} : call'[q] = call[q]
      BY <1>5, <2>4, <3>1
    <3>3. doc'[e].status = s /\ \A d \in Docs \ {e} : doc'[d] = doc[d]
      BY <2>2, <3>1 DEF Saved
    <3>4. UNCHANGED jobs
      BY <2>8 DEF Closes
    <3> QED BY <2>6, <3>2, <3>3, <3>4 DEF Reserved
  <2>9. CASE Writes(w)
    <3>1. /\ UNCHANGED jobs /\ UNCHANGED call /\ act[w].pc \in {"em_save", "em_result", "rc_save"}
      BY <2>9 DEF Writes
    <3>2. PICK pc \in {"em_post", "em_enqueue", "rc_enqueue"} : To(w, pc)
      BY <2>9 DEF Writes
    <3>3. PICK s \in Status \ {"absent", "offline_receipt"} : \E n : Saved(w, s, n)
      <4>1. CASE act[w].pc # "rc_save"
        <5>1. \E n : Saved(w, "processing", n) \/ Saved(w, "provider_error", n)
          BY <2>9, <4>1 DEF Writes
        <5> QED BY <5>1 DEF Status
      <4>2. CASE act[w].pc = "rc_save"
        <5>1. PICK s \in Status \ Terminal : Saved(w, s, act[w].row.ref) /\ Learnt(act[w], s)
          BY <2>9, <4>2 DEF Writes
        <5>2. act[w].row = doc[e]
          BY <2>4, <4>2 DEF Spent
        <5>3. act[w].result \in Found
          BY <1>1, <2>1, <4>2, FreeAct DEF InPlace
        <5>4. s \notin {"absent", "offline_receipt"}
          BY <2>4, <5>1, <5>2, <5>3 DEF Learnt, Found
        <5> QED BY <5>1, <5>4
      <4> QED BY <4>1, <4>2
    <3>4. doc'[e].status = s /\ \A d \in Docs \ {e} : doc'[d] = doc[d]
      BY <2>2, <3>3 DEF Saved
    <3> QED BY <2>7, <3>1, <3>2, <3>3, <3>4 DEF WorkerSteps
  <2>10. CASE Posts(w)
    <3>1. /\ act[w].pc = "em_post" /\ To(w, "em_result") /\ UNCHANGED call /\ UNCHANGED doc /\ UNCHANGED jobs
      BY <2>10 DEF Posts
    <3> QED BY <2>4, <2>7, <3>1 DEF WorkerSteps
  <2>11. CASE Consults(w)
    <3>1. /\ act[w].pc = "rc_consult" /\ To(w, "rc_save") /\ UNCHANGED call /\ UNCHANGED doc /\ UNCHANGED jobs
      BY <2>11 DEF Consults
    <3> QED BY <2>4, <2>7, <3>1 DEF WorkerSteps
  <2>12. CASE Ends(w)
    <3>1. Others(w) /\ Free(w)' /\ act'[w].pc = "idle"
      BY <2>12 DEF Ends, Gone, Free, NoAct
    <3>2. call'[w] = NoCall /\ \A q \in Callers \ {w} : call'[q] = call[q]
      <4>1. CASE act[w].pc = "closing"
        BY <2>12, <4>1 DEF Ends, Calls
      <4>2. CASE act[w].pc # "closing"
        <5>1. UNCHANGED call
          BY <2>12, <4>2 DEF Ends
        <5> QED BY <2>4, <4>2, <5>1 DEF OpenAct, OpenCall, Calling, WorkerSteps
      <4> QED BY <4>1, <4>2
    <3>3. OpenAct(act[w], call[w])'
      BY <3>1, <3>2 DEF OpenAct, OpenCall, Calling, Reprocessing
    <3>4. \A k \in jobs' : k.doc # e => k \in jobs
      BY <2>2, <2>12 DEF Ends
    <3>5. /\ \A d \in Docs \ {e} : doc'[d] = doc[d]
          /\ doc'[e].status \notin {"absent", "offline_receipt"}
          /\ act[w].pc = "closing" => doc'[e] = doc[e]
      <4>1. CASE UNCHANGED doc
        BY <2>4, <4>1
      <4>2. CASE act[w].pc \in {"em_manual", "em_result"} /\ ~UNCHANGED doc
        <5>1. PICK s \in {"manual_action", "provider_error"} : Saved(w, s, act[w].row.ref)
          BY <2>12, <4>2 DEF Ends
        <5> QED BY <2>2, <4>2, <5>1 DEF Saved
      <4> QED BY <2>12, <4>1, <4>2 DEF Ends
    <3>6. act[w].pc = "closing" => doc[e].status \notin Reserved
      BY <2>4 DEF Stage, Reserved
    <3> QED BY <2>6, <3>1, <3>2, <3>3, <3>4, <3>5, <3>6
  <2> QED BY <1>10, <2>8, <2>9, <2>10, <2>11, <2>12 DEF Worked
<1> QED BY <1>7, <1>8, <1>9, <1>10

\* the unit of a document goes out, or comes back when the document is closed
LEMMA CallerOpen ==
  ASSUME Typed, Alone, AllOpen, NEW p \in Callers, Serves(p)
  PROVE  AllOpen'
<1>1. call[p] \in Call /\ call[p] # NoCall
  BY DEF Serves, Call, NoCall, ReserveSteps, ConsumeSteps, ReleaseSteps, Outcomes
<1>2. OpenAct(act[p], call[p])
  BY DEF AllOpen, OpenActs
<1>3. act[p].pc \in Calling /\ ~Free(p) /\ call[p].doc = act[p].doc
  BY <1>1, <1>2 DEF OpenAct, OpenCall, Calling, Free, NoAct
<1>4. PICK e \in Docs : e = act[p].doc
  BY <1>3, AloneAt
<1>5. PICK m \in Months : m = call[p].period
  BY <1>1 DEF Call
<1>6. /\ doc[e].status \in Stage(act[p].pc)
      /\ \A q \in Callers \ {p} : ~Free(q) => act[q].doc # e
      /\ OpenDoc(e)
  BY <1>3, <1>4, OpenKnown DEF AllOpen, OpenDocs
<1>7. /\ UNCHANGED act /\ UNCHANGED doc /\ UNCHANGED jobs /\ Others(p)
      /\ call'[p] \in Call /\ call'[p].doc = e
      /\ \A q \in Callers \ {p} : call'[q] = call[q]
      /\ call[p].pc \in ReserveSteps \cup ConsumeSteps \cup ReleaseSteps /\ Commits(p)
  BY <1>3, <1>4 DEF Serves, Calls, Others, Typed
<1>8. Mine(p) = <<e, m>>
  BY <1>3, <1>4, <1>5 DEF Mine
<1>9. UNCHANGED held \/ held' = held \cup {<<e, m>>} \/ held' = held \ {<<e, m>>}
  BY <1>5, <1>7, <1>8 DEF Commits
<1>10. \A d \in Docs \ {e} : Holds(d) => Holds(d)'
  BY <1>9 DEF Holds
<1>11. \A j \in jobs' : j.doc = e => OpenJob(j)'
  BY <1>7 DEF AllOpen, OpenJobs, OpenJob
<1>12. CASE act[p].pc = "rq_reserving"
  <2>1. call[p].pc \in ReserveSteps
    BY <1>2, <1>7, <1>12 DEF OpenAct, OpenCall, ReserveSteps, ConsumeSteps, ReleaseSteps
  <2>2. \/ call'[p].pc \in {"res_lock", "exceeded"}
        \/ call'[p].pc = "granted" /\ held' = held \cup {<<e, m>>}
    BY <1>7, <1>8, <2>1 DEF Commits, ReserveSteps
  <2>3. OpenDoc(e)'
    <3>1. CASE call'[p].pc = "granted"
      <4>1. Holds(e)'
        BY <2>2, <3>1 DEF Holds
      <4> QED BY <4>1 DEF OpenDoc
    <3>2. CASE call'[p].pc # "granted"
      <4>1. ~Free(p)' /\ act'[p].doc = e /\ act'[p].pc = "rq_reserving"
        BY <1>3, <1>4, <1>7, <1>12 DEF Free
      <4>2. Waiting(e)'
        BY <3>2, <4>1 DEF Waiting
      <4> QED BY <4>2 DEF OpenDoc
    <3> QED BY <3>1, <3>2
  <2>4. OpenAct(act[p], call[p])'
    BY <1>4, <1>7, <1>12, <2>2 DEF OpenAct, OpenCall, Calling, Reprocessing, ReserveSteps
  <2> QED BY <1>3, <1>4, <1>6, <1>7, <1>10, <1>11, <2>3, <2>4, OpenFrom
<1>13. CASE act[p].pc = "closing"
  <2>1. call[p].pc \in ConsumeSteps \cup ReleaseSteps /\ doc[e].status \notin Reserved
    BY <1>2, <1>6, <1>7, <1>13 DEF OpenAct, OpenCall, Stage, ReserveSteps, ConsumeSteps, ReleaseSteps,
       Reserved
  <2>2. call'[p].pc \in ConsumeSteps \cup ReleaseSteps \cup {"closed"}
    BY <1>7, <2>1 DEF Commits, ReserveSteps, ConsumeSteps, ReleaseSteps
  <2>3. OpenDoc(e)'
    BY <1>7, <2>1 DEF OpenDoc
  <2>4. OpenAct(act[p], call[p])'
    BY <1>4, <1>7, <1>13, <2>2 DEF OpenAct, OpenCall, Calling, Reprocessing
  <2> QED BY <1>3, <1>4, <1>6, <1>7, <1>10, <1>11, <2>3, <2>4, OpenFrom
<1> QED BY <1>3, <1>12, <1>13 DEF Calling

\* a request that dies leaves its document to nobody; a job is delivered again
LEMMA DeathOpen ==
  ASSUME Typed, Alone, AllOpen, NEW p \in Callers, Dies(p)
  PROVE  AllOpen'
<1>1. /\ ~Free(p) /\ MaxCrashes # 0 /\ Gone(p) /\ call'[p] = NoCall
      /\ \A q \in Callers \ {p} : call'[q] = call[q]
      /\ UNCHANGED doc /\ UNCHANGED jobs /\ UNCHANGED held
  BY DEF Dies, Calls, Books
<1>2. PICK e \in Docs : e = act[p].doc
  BY <1>1, AloneAt
<1>3. /\ \A q \in Callers \ {p} : ~Free(q) => act[q].doc # e
      /\ p \in Requests => \A j \in jobs : j.doc # e
      /\ p \in Workers => act[p].pc \in WorkerSteps
  BY <1>1, <1>2, OpenKnown
<1>4. Others(p) /\ Free(p)' /\ act'[p].pc = "idle"
  BY <1>1 DEF Gone, Free, NoAct
<1>5. \A d \in Docs : Holds(d) <=> Holds(d)'
  BY <1>1 DEF Holds
<1>6. OpenAct(act[p], call[p])'
  BY <1>1, <1>4 DEF OpenAct, OpenCall, Calling, Reprocessing
<1>7. \A j \in jobs' : j.doc = e => OpenJob(j)'
  BY <1>1 DEF AllOpen, OpenJobs, OpenJob
<1>8. OpenDoc(e)'
  <2>1. CASE p \in Requests
    <3>1. Quiet(e)'
      BY <1>1, <1>3, <1>4, <2>1 DEF Quiet, Others, Free
    <3> QED BY <1>1, <3>1 DEF OpenDoc
  <2>2. CASE p \in Workers
    <3>1. act[p].pc # "rq_offline" /\ act[p].pc # "rq_reserving"
      BY <1>3, <2>2 DEF WorkerSteps
    <3>2. doc[e].status \in Reserved => Holds(e)
      BY <1>1, <1>2, <3>1, OpenHere
    <3> QED BY <1>1, <1>5, <3>2 DEF OpenDoc
  <2> QED BY <2>1, <2>2, EmissionAssumption DEF EmissionAssumption
<1> QED BY <1>1, <1>2, <1>3, <1>4, <1>5, <1>6, <1>7, <1>8, OpenFrom

LEMMA OpenKept ==
  ASSUME AllOpen, UNCHANGED <<act, call, doc, jobs, held>>
  PROVE  AllOpen'
BY DEF AllOpen, OpenDocs, OpenJobs, OpenActs, OpenDoc, OpenJob, OpenAct, OpenCall, Holds, Waiting,
   Quiet, Free

LEMMA OpenStep ==
  ASSUME "in_flight" \notin Env, "reprocess" \notin Env,
         MaxCrashes = 0 \/ Retriable \cap Reserved = {},
         Typed, Alone, AllOpen, [Next]_vars
  PROVE  AllOpen'
<1>1. ASSUME NEW d \in Docs, Decides(d)
      PROVE  AllOpen'
  BY <1>1, OpenKept DEF Decides, Books
<1>2. ASSUME Calm
      PROVE  AllOpen'
  BY <1>2, OpenKept DEF Calm
<1> QED BY <1>1, <1>2, NextShape, RequestOpen, WorkerOpen, CallerOpen, DeathOpen

LEMMA OpenInit ==
  ASSUME Init
  PROVE  AllOpen
<1>1. \A p \in Callers : act[p].pc = "idle" /\ call[p] = NoCall
  BY DEF Init, QuotaInit, NoAct
<1>2. \A d \in Docs : doc[d].status = "absent"
  BY DEF Init, NoRow
<1>3. jobs = {}
  BY DEF Init
<1> QED BY <1>1, <1>2, <1>3 DEF AllOpen, OpenDocs, OpenJobs, OpenActs, OpenDoc, OpenAct, OpenCall,
           Calling, Reprocessing, Reserved

\* A note is only asked of the provider while the sale holds a unit of quota:
\* the worker never posts for a document whose reservation was refused,
\* released or used, whichever processes die, whatever payloads are refused,
\* and whenever the month turns.  Either no process dies, or nobody asks again
\* for a document that is open: a request that dies after saving QUEUED and
\* before it has reserved leaves a row the next request takes for reserved.
THEOREM NotesAreReserved ==
  ASSUME "in_flight" \notin Env, "reprocess" \notin Env,
         MaxCrashes = 0 \/ Retriable \cap Reserved = {}
  PROVE  Spec => EmissionReserved
<1>1. Init => Typed /\ Alone /\ AllOpen
  BY TypedInit, AloneInit, OpenInit
<1>2. Typed /\ Alone /\ AllOpen /\ [Next]_vars => (Typed /\ Alone /\ AllOpen)'
  BY TypedStep, AloneStep, OpenStep
<1>3. ASSUME Typed, Alone, AllOpen, [Next]_vars, NEW d \in Docs, Len(notes'[d]) > Len(notes[d])
      PROVE  Holds(d)
  <2>1. PICK w \in Workers : ~Free(w) /\ act[w].doc = d /\ act[w].pc = "em_post"
    BY <1>3, PosterShape
  <2>2. w \in Callers
    BY EmissionAssumption DEF EmissionAssumption
  <2> QED BY <1>3, <2>1, <2>2, OpenKnown
<1>4. Typed /\ Alone /\ AllOpen /\ [Next]_vars =>
        [\A d \in Docs : Len(notes'[d]) > Len(notes[d]) => Holds(d)]_vars
  BY <1>3
<1> QED BY <1>1, <1>2, <1>4, PTL DEF Spec, EmissionReserved

-----------------------------------------------------------------------------
(* The life cycle of a note, and what the counter knows of it *)

Orderly ==
  /\ Env \cap {"in_flight", "payload", "reprocess", "month", "credits"} = {}
  /\ MaxCrashes = 0

\* the unit of a document, as the refinement has it
UnitOf(d) == IF Holds(d) THEN "held" ELSE IF Charged(d) THEN "spent" ELSE "none"

\* the documents whose unit used_count covers: from the first commit of consume on
Counting == {"co_reserved"} \cup Settling
Counted(d) ==
  \/ Used(d) # {}
  \/ \E p \in Callers : ~Idle(p) /\ call[p].doc = d /\ call[p].pc \in Counting

Sane(c) ==
  /\ c \in Counter
  /\ c.exists => c.included = Plan
  /\ ~c.exists => c = NoCounter
  /\ c.addon <= 0

\* the row of the period covers every unit that is out
HeldUnits == {d \in Docs : Holds(d)}
UsedUnits == {d \in Docs : Counted(d)}
Tally ==
  /\ counter \in [Months -> Counter] /\ Sane(counter[1])
  /\ Cardinality(HeldUnits) <= counter[1].reserved
  /\ Cardinality(UsedUnits) <= counter[1].used

\* no step but a commit of a call writes the counter
LEMMA CounterMoves ==
  ASSUME Orderly, [Next]_vars
  PROVE  (\E p \in Callers : Serve(p)) \/ UNCHANGED counter
<1>1. ASSUME NEW r \in Requests, NEW d \in Docs,
             RequestStart(r, d) \/ ReprocessStart(r, d) \/ CancelStart(r, d)
      PROVE  UNCHANGED counter
  BY <1>1 DEF RequestStart, ReprocessStart, CancelStart, quotaVars
<1>2. ASSUME NEW r \in Requests, RequestStep(r)
      PROVE  UNCHANGED counter
  BY <1>2 DEF RequestStep, RequestCreate, RequestRefused, RequestRequeue, RequestReserved,
     RequestOffline, RequestEnqueue, ReprocessSave, ReprocessRead, ReprocessRequeue, CancelCall,
     CancelSave, quotaVars
<1>3. ASSUME NEW w \in Workers, WorkerStep(w)
      PROVE  UNCHANGED counter
  BY <1>3 DEF WorkerStep, EmitManual, EmitReject, EmitSave, EmitPost, EmitResult, EmitEnqueue,
     ReconcileManual, ReconcileConsult, ReconcileSave, ReconcileEnqueue, Closed, EmitStart,
     ReconcileStart, quotaVars
<1>4. ASSUME NEW p \in Callers, Crash(p)
      PROVE  UNCHANGED counter
  BY <1>4 DEF Crash
<1>5. ASSUME NEW d \in Docs, SefazDecides(d)
      PROVE  UNCHANGED counter
  BY <1>5 DEF SefazDecides, quotaVars
<1>6. ~Surroundings
  BY DEF Surroundings, Orderly
<1>7. CASE UNCHANGED vars
  BY <1>7 DEF vars, quotaVars
<1> QED BY <1>1, <1>2, <1>3, <1>4, <1>5, <1>6, <1>7 DEF Next

\* what a commit does to the row of the period
RowMoves(from, to, c, n) ==
  /\ to = "granted" => /\ c.used + c.reserved < Plan
                       /\ n.used = c.used /\ n.reserved = c.reserved + 1
  /\ from = "co_used" /\ c.exists => n.used = c.used + 1 /\ n.reserved = c.reserved
  /\ from \in {"co_reserved", "rel_reserved"} /\ c.exists =>
       n.used = c.used /\ n.reserved = c.reserved - 1
  /\ to # "granted" /\ from \notin {"co_used", "co_reserved", "rel_reserved"} =>
       n.used = c.used /\ n.reserved = c.reserved

LEMMA RowStep ==
  ASSUME Typed, counter \in [Months -> Counter], Sane(counter[1]), NEW p \in Callers,
         call[p].period = 1, Serve(p)
  PROVE  /\ counter' \in [Months -> Counter] /\ Sane(counter[1])'
         /\ RowMoves(call[p].pc, call'[p].pc, counter[1], counter'[1])
<1>1. 1 \in Months /\ Plan \in Nat
  BY QuotaAssumption DEF QuotaAssumption
<1>2. QuotaStep(p) /\ Serves(p)
  BY QuotaShape DEF Serve
<1>3. /\ counter[1] \in Counter /\ counter[1].used \in Nat /\ counter[1].reserved \in Int
      /\ counter[1].addon \in Int /\ counter[1].included \in Nat /\ counter[1].exists \in BOOLEAN
  BY <1>1 DEF Sane, Counter
<1>4. NewCounter \in Counter /\ Sane(NewCounter) /\ NewCounter.used = 0 /\ NewCounter.reserved = 0
  <2>1. NewCounter \in Counter
    <3>1. NoCounter \in Counter
      BY DEF NoCounter, Counter
    <3> QED BY <1>1, <3>1 DEF NewCounter, Counter
  <2>2. /\ NewCounter.exists /\ NewCounter.included = Plan /\ NewCounter.used = 0
        /\ NewCounter.reserved = 0 /\ NewCounter.addon = 0
    BY DEF NewCounter, NoCounter
  <2> QED BY <2>1, <2>2 DEF Sane
<1>5. ASSUME NEW n \in Counter, SetCounter(1, n), Sane(n),
             RowMoves(call[p].pc, call'[p].pc, counter[1], n)
      PROVE  /\ counter' \in [Months -> Counter] /\ Sane(counter[1])'
             /\ RowMoves(call[p].pc, call'[p].pc, counter[1], counter'[1])
  <2>1. counter' \in [Months -> Counter] /\ counter'[1] = n
    BY <1>1, <1>5 DEF SetCounter
  <2> QED BY <1>5, <2>1 DEF Sane
<1>6. ASSUME UNCHANGED counter, call'[p].pc # "granted",
             call[p].pc \notin {"co_used", "co_reserved", "rel_reserved"}
      PROVE  /\ counter' \in [Months -> Counter] /\ Sane(counter[1])'
             /\ RowMoves(call[p].pc, call'[p].pc, counter[1], counter'[1])
  BY <1>6 DEF RowMoves, Sane
<1>7. ASSUME NEW pc, Goto(p, pc)
      PROVE  call'[p].pc = pc
  <2>1. call[p] \in Call
    BY <1>2 DEF Serves
  <2> QED BY <1>7, <2>1 DEF Goto, Typed, Call
<1>8. CASE ReserveRead(p)
  <2>1. PICK n \in Counter : /\ n = (IF counter[1].exists THEN counter[1] ELSE NewCounter)
    BY <1>3, <1>4
  <2>2. SetCounter(1, n) /\ call[p].pc = "res_read" /\ call'[p].pc \in {"exceeded", "res_lock"}
    BY <1>2, <1>8, <2>1 DEF ReserveRead, Typed, Serves, Call
  <2>3. Sane(n) /\ n.used = counter[1].used /\ n.reserved = counter[1].reserved
    <3>1. CASE counter[1].exists
      BY <2>1, <3>1
    <3>2. CASE ~counter[1].exists
      <4>1. counter[1] = NoCounter /\ NoCounter.used = 0 /\ NoCounter.reserved = 0
        BY <3>2 DEF Sane, NoCounter
      <4> QED BY <1>4, <2>1, <3>2, <4>1
    <3> QED BY <3>1, <3>2
  <2>4. RowMoves(call[p].pc, call'[p].pc, counter[1], n)
    BY <2>2, <2>3 DEF RowMoves
  <2> QED BY <1>5, <2>2, <2>3, <2>4
<1>9. CASE ReserveLock(p)
  <2>1. CASE AvailableQuota(counter[1]) >= 1
    <3>1. PICK n \in Counter : n = [counter[1] EXCEPT !.reserved = @ + 1]
      <4>1. [counter[1] EXCEPT !.reserved = @ + 1] \in Counter
        BY <1>3 DEF Counter
      <4> QED BY <4>1
    <3>2. SetCounter(1, n) /\ call[p].pc = "res_lock" /\ call'[p].pc = "granted"
      BY <1>3, <1>7, <1>9, <2>1, <3>1 DEF ReserveLock, AvailableQuota, AvailableIncluded
    <3>3. counter[1].included - counter[1].used - counter[1].reserved > 0
      BY <1>3, <2>1 DEF AvailableQuota, AvailableIncluded, Sane
    <3>4. counter[1].exists
      BY <3>3 DEF Sane, NoCounter
    <3>5. n.used = counter[1].used /\ n.reserved = counter[1].reserved + 1
      BY <1>3, <3>1 DEF Counter
    <3>6. n.exists /\ n.included = Plan /\ n.addon <= 0
      BY <1>3, <3>1, <3>4 DEF Counter, Sane
    <3>7. Sane(n)
      BY <3>6 DEF Sane
    <3>8. counter[1].used + counter[1].reserved < Plan
      BY <1>1, <1>3, <3>3, <3>4 DEF Sane
    <3>9. RowMoves(call[p].pc, call'[p].pc, counter[1], n)
      BY <3>2, <3>5, <3>8 DEF RowMoves
    <3> QED BY <1>5, <3>2, <3>7, <3>9
  <2>2. CASE ~(AvailableQuota(counter[1]) >= 1)
    <3>1. UNCHANGED counter /\ call[p].pc = "res_lock" /\ call'[p].pc = "exceeded"
      BY <1>7, <1>9, <2>2 DEF ReserveLock
    <3> QED BY <1>6, <3>1
  <2> QED BY <2>1, <2>2
<1>10. CASE ConsumeUsed(p)
  <2>1. SetCounter(1, AddUsed(counter[1], 1)) /\ call[p].pc = "co_used" /\ call'[p].pc = "co_reserved"
    BY <1>7, <1>10 DEF ConsumeUsed
  <2>2. /\ AddUsed(counter[1], 1) \in Counter /\ Sane(AddUsed(counter[1], 1))
        /\ counter[1].exists => /\ AddUsed(counter[1], 1).used = counter[1].used + 1
                                /\ AddUsed(counter[1], 1).reserved = counter[1].reserved
    BY <1>3 DEF AddUsed, Counter, Sane
  <2>3. RowMoves(call[p].pc, call'[p].pc, counter[1], AddUsed(counter[1], 1))
    BY <2>1, <2>2 DEF RowMoves
  <2> QED BY <1>5, <2>1, <2>2, <2>3
<1>11. CASE ConsumeReserved(p) \/ ReleaseReserved(p)
  <2>1. /\ SetCounter(1, AddReserved(counter[1], -1))
        /\ call[p].pc \in {"co_reserved", "rel_reserved"} /\ call'[p].pc # "granted"
    BY <1>7, <1>11 DEF ConsumeReserved, ReleaseReserved
  <2>2. /\ AddReserved(counter[1], -1) \in Counter /\ Sane(AddReserved(counter[1], -1))
        /\ counter[1].exists => /\ AddReserved(counter[1], -1).used = counter[1].used
                                /\ AddReserved(counter[1], -1).reserved = counter[1].reserved - 1
    BY <1>3 DEF AddReserved, Counter, Sane
  <2>3. RowMoves(call[p].pc, call'[p].pc, counter[1], AddReserved(counter[1], -1))
    BY <2>1, <2>2 DEF RowMoves
  <2> QED BY <1>5, <2>1, <2>2, <2>3
<1>12. CASE ConsumeAddon(p)
  <2>1. SetCounter(1, AddAddon(counter[1], -1)) /\ call[p].pc = "co_addon" /\ call'[p].pc = "co_ledger"
    BY <1>7, <1>12 DEF ConsumeAddon
  <2>2. /\ AddAddon(counter[1], -1) \in Counter /\ Sane(AddAddon(counter[1], -1))
        /\ AddAddon(counter[1], -1).used = counter[1].used
        /\ AddAddon(counter[1], -1).reserved = counter[1].reserved
    BY <1>3 DEF AddAddon, Counter, Sane
  <2>3. RowMoves(call[p].pc, call'[p].pc, counter[1], AddAddon(counter[1], -1))
    BY <2>1, <2>2 DEF RowMoves
  <2> QED BY <1>5, <2>1, <2>2, <2>3
<1>13. CASE \/ ConsumeCheck(p) \/ ConsumePackage(p) \/ ConsumeDecrement(p) \/ ConsumeLedger(p)
            \/ ReleaseCheck(p) \/ ReleaseLedger(p)
  <2>1. /\ UNCHANGED counter
        /\ call[p].pc \in {"co_check", "co_package", "co_decrement", "co_ledger", "rel_check", "rel_ledger"}
    BY <1>13 DEF ConsumeCheck, ConsumePackage, ConsumeDecrement, ConsumeLedger, ReleaseCheck, ReleaseLedger
  <2>2. call'[p].pc # "granted"
    BY <1>2, <2>1 DEF Serves, Commits, ReserveSteps
  <2> QED BY <1>6, <2>1, <2>2
<1> QED BY <1>2, <1>8, <1>9, <1>10, <1>11, <1>12, <1>13 DEF QuotaStep

\* a call that commits: its document, and where the unit of the document is
OneCall(p, e) ==
  /\ e = act[p].doc /\ e \in Docs /\ UNCHANGED doc
  /\ call[p] \in Call /\ call'[p] \in Call
  /\ call[p].doc = e /\ call'[p].doc = e /\ call[p].period = 1
  /\ \A q \in Callers \ {p} : call'[q] = call[q] /\ (Idle(q) \/ call[q].doc # e)
  /\ Mine(p) = <<e, 1>>
  /\ Used(e) = {} /\ Out(e) = IF call[p].pc \in BeforeReturn THEN {1} ELSE {}
  /\ \/ call[p].pc \in ReserveSteps /\ doc[e].status = "queued"
     \/ call[p].pc \in ConsumeSteps /\ doc[e].status = "authorized"
     \/ call[p].pc \in ReleaseSteps /\ doc[e].status \in {"rejected", "manual_action"}

LEMMA CommitAt ==
  ASSUME Months = {1}, Typed, Alone, AllHeld, NEW p \in Callers, Serves(p)
  PROVE  \E e \in Docs : OneCall(p, e)
<1>1. /\ call[p] \in Call /\ call[p] # NoCall /\ call'[p] \in Call /\ UNCHANGED doc
      /\ call'[p].doc = call[p].doc /\ call'[p].period = call[p].period
      /\ \A q \in Callers \ {p} : call'[q] = call[q]
      /\ call[p].pc \in ReserveSteps \cup ConsumeSteps \cup ReleaseSteps
  BY DEF Serves, Calls, Call, NoCall, ReserveSteps, ConsumeSteps, ReleaseSteps, Outcomes
<1>2. HeldCall(act[p], call[p])
  BY DEF AllHeld, HeldCalls
<1>3. act[p].pc \in Calling /\ ~Free(p)
  BY <1>1, <1>2 DEF HeldCall, CallAt, Calling, Free, NoAct
<1>4. PICK e \in Docs : e = act[p].doc
  BY <1>3, AloneAt
<1>5. /\ HeldAt(act[p], call[p], doc[e].status, Out(e), Used(e))
      /\ CallAt(act[p], call[p], doc[e].status) /\ Current(act[p])
      /\ \A q \in Callers \ {p} : ~Free(q) => act[q].doc # e
  BY <1>3, <1>4, HeldKnown
<1>6. ASSUME NEW q \in Callers \ {p}
      PROVE  Idle(q) \/ call[q].doc # e
  <2>1. HeldCall(act[q], call[q])
    BY DEF AllHeld, HeldCalls
  <2>2. CASE Free(q)
    BY <2>1, <2>2 DEF HeldCall, CallAt, Free, NoAct, Calling, Idle
  <2>3. CASE ~Free(q)
    BY <1>5, <2>1, <2>3 DEF HeldCall, CallAt, Idle
  <2> QED BY <2>2, <2>3
<1>7. call[p].period = 1 /\ call[p].doc = e
  BY <1>1, <1>3, <1>4, <1>5 DEF Call, CallAt
<1>8. Mine(p) = <<e, 1>>
  BY <1>7 DEF Mine
<1>9. CASE act[p].pc = "rq_reserving"
  <2>1. call[p].pc \in ReserveSteps /\ doc[e].status = "queued"
    BY <1>1, <1>4, <1>5, <1>9 DEF CallAt, Current, Stage, ReserveSteps, ConsumeSteps, ReleaseSteps
  <2>2. Used(e) = {} /\ Out(e) = {} /\ call[p].pc \notin BeforeReturn
    BY <1>5, <1>9, <2>1 DEF HeldAt, EmptySteps, HoldingSteps, ReserveSteps, BeforeReturn
  <2> QED BY <1>1, <1>4, <1>6, <1>7, <1>8, <2>1, <2>2 DEF OneCall
<1>10. CASE act[p].pc = "closing"
  <2>1. /\ act[p].job.period = 1 /\ doc[e].status \in {"authorized", "rejected", "manual_action"}
        /\ \/ doc[e].status = "authorized" /\ call[p].pc \in ConsumeSteps
           \/ doc[e].status # "authorized" /\ call[p].pc \in ReleaseSteps
    BY <1>1, <1>4, <1>5, <1>7, <1>10 DEF CallAt, Current, Stage, ReserveSteps, ConsumeSteps, ReleaseSteps
  <2>2. Used(e) = {} /\ Out(e) = IF call[p].pc \in BeforeReturn THEN {1} ELSE {}
    BY <1>5, <1>10, <2>1 DEF HeldAt, EmptySteps, HoldingSteps, ConsumeSteps, ReleaseSteps
  <2> QED BY <1>1, <1>4, <1>6, <1>7, <1>8, <2>1, <2>2 DEF OneCall
<1> QED BY <1>3, <1>9, <1>10 DEF Calling

\* what the calls say of a document, given the one call about it
LEMMA CommitCounts ==
  ASSUME NEW p \in Callers, NEW e \in Docs, OneCall(p, e),
         \A d \in Docs \ {e} : Out(d)' = Out(d) /\ Used(d)' = Used(d)
  PROVE  /\ \A d \in Docs \ {e} : /\ Holds(d)' <=> Holds(d)
                                  /\ Counted(d)' <=> Counted(d)
                                  /\ Charged(d)' <=> Charged(d)
         /\ Holds(e) <=> Out(e) # {}
         /\ Holds(e)' <=> Out(e)' # {}
         /\ Counted(e) <=> call[p].pc \in Counting
         /\ Counted(e)' <=> Used(e)' # {} \/ call'[p].pc \in Counting
         /\ Charged(e) <=> call[p].pc \in Settling
         /\ Charged(e)' <=> Used(e)' # {} \/ call'[p].pc \in Settling
<1>1. ~Idle(p) /\ ~Idle(p)'
  BY DEF OneCall, Idle, Call, NoCall, ReserveSteps, ConsumeSteps, ReleaseSteps, Outcomes
<1>2. \A q \in Callers \ {p} : call'[q] = call[q] /\ (Idle(q)' <=> Idle(q)) /\ (Idle(q) \/ call[q].doc # e)
  BY DEF OneCall, Idle
<1>3. call[p].doc = e /\ call'[p].doc = e /\ Used(e) = {}
  BY DEF OneCall
<1>4. ASSUME NEW d \in Docs \ {e}
      PROVE  /\ Holds(d)' <=> Holds(d)
             /\ Counted(d)' <=> Counted(d)
             /\ Charged(d)' <=> Charged(d)
  <2>1. Out(d)' = Out(d) /\ Used(d)' = Used(d)
    OBVIOUS
  <2>2. Holds(d)' <=> Holds(d)
    BY <2>1 DEF Out, Holds
  <2>3. \A q \in Callers : /\ ~Idle(q) /\ call[q].doc = d => q # p
                           /\ ~Idle(q)' /\ call'[q].doc = d => q # p
    BY <1>3
  <2>4. Counted(d)' <=> Counted(d)
    BY <1>2, <2>1, <2>3 DEF Counted
  <2>5. Charged(d)' <=> Charged(d)
    BY <1>2, <2>1, <2>3 DEF Charged, Used
  <2> QED BY <2>2, <2>4, <2>5
<1>5. (Holds(e) <=> Out(e) # {}) /\ (Holds(e)' <=> Out(e)' # {})
  BY DEF Out, Holds
<1>6. /\ Counted(e) <=> call[p].pc \in Counting
      /\ Counted(e)' <=> Used(e)' # {} \/ call'[p].pc \in Counting
  BY <1>1, <1>2, <1>3 DEF Counted
<1>7. /\ Charged(e) <=> call[p].pc \in Settling
      /\ Charged(e)' <=> Used(e)' # {} \/ call'[p].pc \in Settling
  BY <1>1, <1>2, <1>3 DEF Charged, Used
<1> QED BY <1>4, <1>5, <1>6, <1>7

\* what a commit is for the unit of its document
Stays(p, e) ==
  /\ call'[p].pc # "granted" /\ call[p].pc \notin {"co_used", "co_reserved", "rel_reserved"}
  /\ Holds(e)' <=> Holds(e)
  /\ Counted(e)' <=> Counted(e)
  /\ UnitOf(e)' = UnitOf(e)
Reserves(p, e) ==
  /\ call'[p].pc = "granted" /\ doc[e].status = "queued"
  /\ ~Holds(e) /\ Holds(e)' /\ ~Counted(e) /\ ~Counted(e)'
  /\ UnitOf(e) = "none" /\ UnitOf(e)' = "held"
Counts(p, e) ==
  /\ call[p].pc = "co_used" /\ call'[p].pc # "granted"
  /\ Holds(e) /\ Holds(e)' /\ ~Counted(e) /\ Counted(e)'
  /\ UnitOf(e)' = UnitOf(e)
Charges(p, e) ==
  /\ call[p].pc = "co_reserved" /\ call'[p].pc # "granted" /\ doc[e].status = "authorized"
  /\ Holds(e) /\ ~Holds(e)' /\ Counted(e) /\ Counted(e)'
  /\ UnitOf(e) = "held" /\ UnitOf(e)' = "spent"
Returns(p, e) ==
  /\ call[p].pc \in {"rel_check", "rel_reserved"} /\ call'[p].pc # "granted"
  /\ doc[e].status \in {"rejected", "manual_action"}
  /\ Holds(e) /\ ~Holds(e)' /\ ~Counted(e) /\ ~Counted(e)'
  /\ UnitOf(e) = "held" /\ UnitOf(e)' = "none"

LEMMA CommitMoves ==
  ASSUME Months = {1}, Typed, NEW p \in Callers, NEW e \in Docs, OneCall(p, e), Serves(p)
  PROVE  /\ Stays(p, e) \/ Reserves(p, e) \/ Counts(p, e) \/ Charges(p, e) \/ Returns(p, e)
         /\ \A d \in Docs \ {e} : /\ Holds(d)' <=> Holds(d)
                                  /\ Counted(d)' <=> Counted(d)
                                  /\ UnitOf(d)' = UnitOf(d)
<1>1. /\ Commits(p) /\ Mine(p) = <<e, 1>> /\ call[p].doc = e /\ call[p].period = 1 /\ Used(e) = {}
      /\ 1 \in Months /\ ConsumeKey(1, e) \notin ledger
  BY DEF Serves, OneCall, Used
<1>2. /\ UNCHANGED held \/ held' = held \cup {<<e, 1>>} \/ held' = held \ {<<e, 1>>}
      /\ UNCHANGED ledger \/ ledger' = ledger \cup {ReleaseKey(1, e)} \/ ledger' = ledger \cup {ConsumeKey(1, e)}
  BY <1>1 DEF Commits
<1>3. \A d \in Docs \ {e} : Out(d)' = Out(d) /\ Used(d)' = Used(d)
  BY <1>1, <1>2, UnitMoves
<1>4. /\ \A d \in Docs \ {e} : /\ Holds(d)' <=> Holds(d)
                               /\ Counted(d)' <=> Counted(d)
                               /\ Charged(d)' <=> Charged(d)
      /\ Holds(e) <=> Out(e) # {}
      /\ Holds(e)' <=> Out(e)' # {}
      /\ Counted(e) <=> call[p].pc \in Counting
      /\ Counted(e)' <=> Used(e)' # {} \/ call'[p].pc \in Counting
      /\ Charged(e) <=> call[p].pc \in Settling
      /\ Charged(e)' <=> Used(e)' # {} \/ call'[p].pc \in Settling
  BY <1>3, CommitCounts
<1>5. \A d \in Docs \ {e} : UnitOf(d)' = UnitOf(d)
  BY <1>4 DEF UnitOf
<1>6. Out(e) = IF call[p].pc \in BeforeReturn THEN {1} ELSE {}
  BY DEF OneCall
<1>7. /\ UNCHANGED held => Out(e)' = Out(e)
      /\ held' = held \cup {<<e, 1>>} => Out(e)' = Out(e) \cup {1}
      /\ held' = held \ {<<e, 1>>} => Out(e)' = Out(e) \ {1}
      /\ UNCHANGED ledger \/ ledger' = ledger \cup {ReleaseKey(1, e)} => Used(e)' = {}
      /\ ledger' = ledger \cup {ConsumeKey(1, e)} => Used(e)' = {1}
  BY <1>1, UnitMoves
<1>8. /\ call[p].pc \in ReserveSteps => doc[e].status = "queued"
      /\ call[p].pc \in ConsumeSteps => doc[e].status = "authorized"
      /\ call[p].pc \in ReleaseSteps => doc[e].status \in {"rejected", "manual_action"}
  BY DEF OneCall, ReserveSteps, ConsumeSteps, ReleaseSteps
<1>. USE DEF Counting, Settling, BeforeReturn
<1>9. CASE /\ call[p].pc \in ReserveSteps /\ call'[p].pc \in {"res_lock", "exceeded"}
           /\ UNCHANGED held /\ UNCHANGED ledger
  BY <1>4, <1>6, <1>7, <1>9 DEF Stays, UnitOf, ReserveSteps
<1>10. CASE /\ call[p].pc = "res_lock" /\ call'[p].pc = "granted"
            /\ held' = held \cup {<<e, 1>>} /\ UNCHANGED ledger
  BY <1>4, <1>6, <1>7, <1>8, <1>10 DEF Reserves, UnitOf, ReserveSteps
<1>11. CASE /\ call[p].pc = "co_check" /\ call'[p].pc = "co_used" 
            /\ UNCHANGED held /\ UNCHANGED ledger
  BY <1>4, <1>6, <1>7, <1>11 DEF Stays, UnitOf
<1>12. CASE /\ call[p].pc = "co_used" /\ call'[p].pc = "co_reserved"
            /\ UNCHANGED held /\ UNCHANGED ledger
  BY <1>4, <1>6, <1>7, <1>12 DEF Counts, UnitOf
<1>13. CASE /\ call[p].pc = "co_reserved" /\ call'[p].pc \in {"co_package", "co_ledger"}
            /\ held' = held \ {<<e, 1>>} /\ UNCHANGED ledger
  BY <1>4, <1>6, <1>7, <1>8, <1>13 DEF Charges, UnitOf, ConsumeSteps
<1>14. CASE /\ call[p].pc \in {"co_package", "co_decrement", "co_addon"}
            /\ call'[p].pc \in {"co_decrement", "co_addon", "co_ledger"}
            /\ UNCHANGED held /\ UNCHANGED ledger
  BY <1>4, <1>6, <1>7, <1>14 DEF Stays, UnitOf
<1>15. CASE /\ call[p].pc = "co_ledger" /\ call'[p].pc = "closed"
            /\ UNCHANGED held /\ ledger' = ledger \cup {ConsumeKey(1, e)}
  BY <1>4, <1>6, <1>7, <1>15 DEF Stays, UnitOf
<1>16. CASE /\ call[p].pc = "rel_check" /\ call'[p].pc = "closed"
            /\ held' = held \ {<<e, 1>>} /\ UNCHANGED ledger
  BY <1>4, <1>6, <1>7, <1>8, <1>16 DEF Returns, UnitOf, ReleaseSteps
<1>17. CASE /\ call[p].pc = "rel_check" /\ call'[p].pc = "rel_reserved"
            /\ UNCHANGED held /\ UNCHANGED ledger
  BY <1>4, <1>6, <1>7, <1>17 DEF Stays, UnitOf
<1>18. CASE /\ call[p].pc = "rel_reserved" /\ call'[p].pc = "rel_ledger"
            /\ held' = held \ {<<e, 1>>} /\ UNCHANGED ledger
  BY <1>4, <1>6, <1>7, <1>8, <1>18 DEF Returns, UnitOf, ReleaseSteps
<1>19. CASE /\ call[p].pc = "rel_ledger" /\ call'[p].pc = "closed"
            /\ UNCHANGED held /\ ledger' = ledger \cup {ReleaseKey(1, e)}
  BY <1>4, <1>6, <1>7, <1>19 DEF Stays, UnitOf
<1> QED BY <1>1, <1>4, <1>5, <1>9, <1>10, <1>11, <1>12, <1>13, <1>14, <1>15, <1>16, <1>17, <1>18, <1>19
        DEF Commits

LEMMA UnitsFinite ==
  /\ IsFiniteSet(HeldUnits) /\ Cardinality(HeldUnits) \in Nat
  /\ IsFiniteSet(UsedUnits) /\ Cardinality(UsedUnits) \in Nat
<1>1. HeldUnits \in SUBSET Docs /\ UsedUnits \in SUBSET Docs /\ IsFiniteSet(Docs)
  BY QuotaAssumption DEF HeldUnits, UsedUnits, QuotaAssumption
<1>2. IsFiniteSet(HeldUnits) /\ IsFiniteSet(UsedUnits)
  BY <1>1, FS_Subset
<1> QED BY <1>2, FS_CardinalityType

LEMMA CommitTally ==
  ASSUME Months = {1}, Typed, Alone, AllHeld, Tally, NEW p \in Callers, Serve(p)
  PROVE  Tally'
<1>1. Serves(p)
  BY QuotaShape
<1>2. PICK e \in Docs : OneCall(p, e)
  BY <1>1, CommitAt
<1>3. /\ Stays(p, e) \/ Reserves(p, e) \/ Counts(p, e) \/ Charges(p, e) \/ Returns(p, e)
      /\ \A d \in Docs \ {e} : (Holds(d)' <=> Holds(d)) /\ (Counted(d)' <=> Counted(d))
  BY <1>1, <1>2, CommitMoves
<1>4. /\ counter' \in [Months -> Counter] /\ Sane(counter[1])' /\ Sane(counter[1])
      /\ RowMoves(call[p].pc, call'[p].pc, counter[1], counter'[1])
  BY <1>2, RowStep DEF OneCall, Tally
<1>5. PICK u \in Nat, v \in Nat, r \in Int, s \in Int :
        u = counter[1].used /\ v = counter'[1].used /\ r = counter[1].reserved /\ s = counter'[1].reserved
  BY <1>4 DEF Sane, Counter
<1>6. PICK h \in Nat, c \in Nat : h = Cardinality(HeldUnits) /\ c = Cardinality(UsedUnits)
  BY UnitsFinite
<1>7. h <= r /\ c <= u
  BY <1>5, <1>6 DEF Tally
<1>8. Holds(e) => counter[1].exists
  <2>1. ASSUME Holds(e)
        PROVE  h # 0
    BY <1>6, <2>1, UnitsFinite, FS_EmptySet DEF HeldUnits
  <2>2. NoCounter.reserved = 0
    BY DEF NoCounter
  <2> QED BY <1>4, <1>5, <1>6, <1>7, <2>1, <2>2 DEF Sane
\* what becomes of the two sets
<1>9. /\ Cardinality(HeldUnits') = IF Holds(e)' /\ ~Holds(e) THEN h + 1
                                  ELSE IF Holds(e) /\ ~Holds(e)' THEN h - 1 ELSE h
  <2>1. CASE Holds(e)' <=> Holds(e)
    <3>1. HeldUnits' = HeldUnits
      BY <1>3, <2>1 DEF HeldUnits
    <3> QED BY <1>6, <2>1, <3>1
  <2>2. CASE Holds(e)' /\ ~Holds(e)
    <3>1. HeldUnits' = HeldUnits \cup {e} /\ e \notin HeldUnits
      BY <1>3, <2>2 DEF HeldUnits
    <3> QED BY <1>6, <2>2, <3>1, UnitsFinite, FS_AddElement
  <2>3. CASE ~Holds(e)' /\ Holds(e)
    <3>1. HeldUnits' = HeldUnits \ {e} /\ e \in HeldUnits
      BY <1>3, <2>3 DEF HeldUnits
    <3> QED BY <1>6, <2>3, <3>1, UnitsFinite, FS_RemoveElement
  <2> QED BY <2>1, <2>2, <2>3
<1>10. /\ (Counted(e)' <=> Counted(e)) => Cardinality(UsedUnits') = c
       /\ Counted(e)' /\ ~Counted(e) => Cardinality(UsedUnits') = c + 1
  <2>1. CASE Counted(e)' <=> Counted(e)
    <3>1. UsedUnits' = UsedUnits
      BY <1>3, <2>1 DEF UsedUnits
    <3> QED BY <1>6, <2>1, <3>1
  <2>2. CASE Counted(e)' /\ ~Counted(e)
    <3>1. UsedUnits' = UsedUnits \cup {e} /\ e \notin UsedUnits
      BY <1>3, <2>2 DEF UsedUnits
    <3> QED BY <1>6, <2>2, <3>1, UnitsFinite, FS_AddElement
  <2> QED BY <2>1, <2>2
<1>11. Cardinality(HeldUnits') <= s /\ Cardinality(UsedUnits') <= v
  <2>1. CASE Stays(p, e)
    <3>1. v = u /\ s = r
      BY <1>4, <1>5, <2>1 DEF RowMoves, Stays
    <3> QED BY <1>7, <1>9, <1>10, <2>1, <3>1 DEF Stays
  <2>2. CASE Reserves(p, e)
    <3>1. v = u /\ s = r + 1
      BY <1>4, <1>5, <2>2 DEF RowMoves, Reserves
    <3> QED BY <1>7, <1>9, <1>10, <2>2, <3>1 DEF Reserves
  <2>3. CASE Counts(p, e)
    <3>1. v = u + 1 /\ s = r
      BY <1>4, <1>5, <1>8, <2>3 DEF RowMoves, Counts
    <3> QED BY <1>7, <1>9, <1>10, <2>3, <3>1 DEF Counts
  <2>4. CASE Charges(p, e)
    <3>1. v = u /\ s = r - 1
      BY <1>4, <1>5, <1>8, <2>4 DEF RowMoves, Charges
    <3> QED BY <1>7, <1>9, <1>10, <2>4, <3>1 DEF Charges
  <2>5. CASE Returns(p, e)
    <3>1. v = u /\ s >= r - 1
      <4>1. CASE call[p].pc = "rel_check"
        BY <1>4, <1>5, <2>5, <4>1 DEF RowMoves, Returns
      <4>2. CASE call[p].pc = "rel_reserved"
        BY <1>4, <1>5, <1>8, <2>5, <4>2 DEF RowMoves, Returns
      <4> QED BY <2>5, <4>1, <4>2 DEF Returns
    <3> QED BY <1>7, <1>9, <1>10, <2>5, <3>1 DEF Returns
  <2> QED BY <1>3, <2>1, <2>2, <2>3, <2>4, <2>5
<1> QED BY <1>4, <1>5, <1>11 DEF Tally

\* no other step starts or ends a call in the middle
Apart == \A q \in Callers : \/ call'[q] = call[q]
                            \/ call[q].pc \notin Counting /\ call'[q].pc \notin Counting

LEMMA CallsApart ==
  ASSUME Typed, AllHeld, NEW p \in Callers, Requested(p) \/ Begins(p) \/ Drops(p) \/ Takes(p) \/ Finds(p) \/ Worked(p)
  PROVE  Apart
<1>1. CASE UNCHANGED call
  BY <1>1 DEF Apart
<1>2. ASSUME NEW c, Calls(p, c), call[p].pc \notin Counting, c.pc \notin Counting
      PROVE  Apart
  BY <1>2 DEF Calls, Apart
<1>3. HeldCall(act[p], call[p])
  BY DEF AllHeld, HeldCalls
<1>4. NoCall.pc \notin Counting
  BY DEF NoCall, Counting, Settling
<1>5. ASSUME act[p].pc \notin Calling
      PROVE  call[p].pc \notin Counting
  BY <1>3, <1>4, <1>5 DEF HeldCall, CallAt
<1>6. CASE Queues(p)
  <2>1. act[p].pc \notin Calling
    BY <1>6 DEF Queues, Calling
  <2>2. ReserveCall(act[p].doc).pc \notin Counting
    BY DEF ReserveCall, Start, Counting, Settling
  <2> QED BY <1>1, <1>2, <1>5, <1>6, <2>1, <2>2 DEF Queues
<1>7. CASE Answered(p)
  <2>1. call[p].pc \notin Counting
    BY <1>7 DEF Answered, Counting, Settling
  <2> QED BY <1>2, <1>4, <1>7, <2>1 DEF Answered
<1>8. ASSUME NEW s, NEW j, Closing(p, s, j), act[p].pc \notin Calling
      PROVE  Apart
  <2>1. /\ ConsumeCall(j.doc, j.period, j.addon).pc \notin Counting
        /\ ReleaseCall(j.doc, j.period).pc \notin Counting
    BY DEF ConsumeCall, ReleaseCall, Start, Counting, Settling
  <2> QED BY <1>2, <1>5, <1>8, <2>1 DEF Closing
<1>9. CASE Finds(p)
  BY <1>8, <1>9 DEF Finds, Free, NoAct, Calling
<1>10. CASE Closes(p)
  BY <1>8, <1>10 DEF Closes, Calling
<1>11. CASE Ends(p) /\ ~UNCHANGED call
  <2>1. call[p].pc = "closed" /\ Calls(p, NoCall)
    BY <1>11 DEF Ends
  <2>2. call[p].pc \notin Counting
    BY <2>1 DEF Counting, Settling
  <2> QED BY <1>2, <1>4, <2>1, <2>2
<1> QED BY <1>1, <1>6, <1>7, <1>9, <1>10, <1>11 DEF Requested, Concludes, GivesUp, Enqueues, Reprocesses,
        Cancels, Begins, Drops, Takes, Worked, Writes, Posts, Consults

\* then no unit moves
LEMMA UnitsRest ==
  ASSUME Apart, UNCHANGED held, UNCHANGED ledger, NEW d
  PROVE  /\ Holds(d)' <=> Holds(d)
         /\ Counted(d)' <=> Counted(d)
         /\ UnitOf(d)' = UnitOf(d)
<1>1. NoCall.pc \notin Counting /\ Settling \subseteq Counting
  BY DEF NoCall, Counting, Settling
<1>2. \A q \in Callers : call[q].pc \in Counting <=> call'[q].pc \in Counting
  BY DEF Apart
<1>3. \A q \in Callers : call[q].pc \in Counting => call'[q] = call[q] /\ ~Idle(q) /\ ~Idle(q)'
  BY <1>1, <1>2 DEF Apart, Idle
<1>4. Holds(d)' <=> Holds(d)
  BY DEF Holds
<1>5. Counted(d)' <=> Counted(d)
  <2>1. Used(d)' = Used(d)
    BY DEF Used
  <2> QED BY <1>2, <1>3, <2>1 DEF Counted
<1>6. Charged(d)' <=> Charged(d)
  BY <1>1, <1>2, <1>3 DEF Charged
<1> QED BY <1>4, <1>5, <1>6 DEF UnitOf

\* what a step is for the phase of a document
PhaseStep(e) ==
  LET from == Phase(doc[e].status)
      to == Phase(doc'[e].status)
  IN  \/ to = from
      \/ from \in {"none", "refused"} /\ to = "open" /\ UnitOf(e) = "none"
      \/ from \in {"none", "open"} /\ to = "refused"
      \/ from = "open" /\ to = "authorized" /\ UnitOf(e) = "held"
      \/ from = "authorized" /\ to = "canceled"
OnePhase == \E e \in Docs : PhaseStep(e) /\ \A d \in Docs \ {e} : doc'[d] = doc[d]

LEMMA RequestPhase ==
  ASSUME Orderly, Typed, Alone, AllHeld, NEW r \in Requests, Begins(r) \/ Requested(r)
  PROVE  UNCHANGED doc \/ OnePhase
<1>1. r \in Callers
  BY EmissionAssumption DEF EmissionAssumption
<1>2. CASE Begins(r) \/ GivesUp(r) \/ Answered(r) \/ Enqueues(r) \/ Cancels(r)
  BY <1>2 DEF Begins, GivesUp, Answered, Enqueues, Cancels
<1>3. ASSUME Requested(r)
      PROVE  \E e \in Docs :
               /\ e = act[r].doc /\ act[r] \in AnyAct /\ doc[e] \in AnyRow
               /\ HeldAt(act[r], call[r], doc[e].status, Out(e), Used(e))
               /\ HeldDoc(e) /\ Current(act[r]) /\ CallAt(act[r], call[r], doc[e].status)
  <2>1. ~Free(r)
    BY <1>3 DEF Requested
  <2>2. PICK e \in Docs : e = act[r].doc
    BY <1>1, <2>1, AloneAt
  <2> QED BY <1>1, <2>1, <2>2, HeldKnown
<1>4. CASE Requested(r) /\ Queues(r)
  <2>1. PICK e \in Docs :
          /\ e = act[r].doc /\ act[r] \in AnyAct /\ doc[e] \in AnyRow
          /\ HeldAt(act[r], call[r], doc[e].status, Out(e), Used(e))
          /\ HeldDoc(e) /\ Current(act[r]) /\ CallAt(act[r], call[r], doc[e].status)
    BY <1>3, <1>4
  <2>2. act[r].pc \in {"rq_create", "rq_requeue"}
    BY <1>4, <2>1 DEF Queues, HeldAt, EmptySteps, HoldingSteps
  <2>3. /\ doc[e].status \in Status \ {"authorized", "canceled"} /\ Used(e) = {}
        /\ doc[e].status \notin Reserved => Out(e) = {}
    BY <1>4, <2>1, <2>2 DEF Queues, HeldAt, EmptySteps, HoldingSteps, Reserved, Current, Stage, Status
  <2>4. doc'[e].status = "queued" /\ \A d \in Docs \ {e} : doc'[d] = doc[d]
    BY <1>4, <2>1 DEF Queues, Saved
  <2>5. ASSUME NEW q \in Callers, ~Idle(q), call[q].doc = e, call[q].pc \in Settling
        PROVE  FALSE
    <3>1. HeldCall(act[q], call[q])
      BY DEF AllHeld, HeldCalls
    <3>2. act[q].pc \in Calling /\ act[q].doc = e
      BY <2>5, <3>1 DEF HeldCall, CallAt, Idle
    <3>3. ~Free(q)
      BY <3>2 DEF Free, NoAct, Calling
    <3>4. q = r
      BY <1>1, <1>4, <2>1, <3>2, <3>3 DEF Alone, OwnDoc, Requested
    <3> QED BY <2>2, <3>2, <3>4 DEF Calling
  <2>6. doc[e].status \notin Reserved => UnitOf(e) = "none"
    BY <2>3, <2>5 DEF UnitOf, Holds, Charged, Out, Used
  <2>7. PhaseStep(e)
    BY <2>3, <2>4, <2>6 DEF PhaseStep, Phase, Status, Terminal, Reserved
  <2> QED BY <2>4, <2>7 DEF OnePhase
<1>5. CASE Requested(r) /\ Concludes(r)
  <2>1. PICK e \in Docs :
          /\ e = act[r].doc /\ act[r] \in AnyAct /\ doc[e] \in AnyRow
          /\ HeldAt(act[r], call[r], doc[e].status, Out(e), Used(e))
          /\ HeldDoc(e) /\ Current(act[r]) /\ CallAt(act[r], call[r], doc[e].status)
    BY <1>3, <1>5
  <2>2. PICK s \in {"rejected", "manual_action", "offline_receipt", "canceled"} :
          /\ Saved(r, s, act[r].row.ref)
          /\ s = "canceled" => act[r].pc = "cn_save"
          /\ s # "canceled" => act[r].pc \in {"rq_reject", "rq_manual", "rq_offline", "rq_create"}
          /\ act[r].pc = "rq_create" => doc[e].status = "absent"
    <3>1. act[r].pc # "rp_save"
      BY <2>1 DEF HeldAt, EmptySteps, HoldingSteps
    <3> QED BY <1>5, <2>1, <3>1 DEF Concludes
  <2>3. doc'[e].status = s /\ \A d \in Docs \ {e} : doc'[d] = doc[d]
    BY <2>1, <2>2 DEF Saved
  <2>4. CASE s = "canceled"
    <3>1. doc[e].status = "authorized"
      BY <2>1, <2>2, <2>4 DEF Current, Stage
    <3>2. PhaseStep(e)
      BY <2>3, <2>4, <3>1 DEF PhaseStep, Phase
    <3> QED BY <2>3, <3>2 DEF OnePhase
  <2>5. CASE s # "canceled"
    <3>1. doc[e].status \in Status \ {"authorized", "canceled"}
      BY <2>1, <2>2, <2>5 DEF Current, Stage, Status
    <3>2. PhaseStep(e)
      BY <2>2, <2>3, <2>5, <3>1 DEF PhaseStep, Phase, Status, Terminal
    <3> QED BY <2>3, <3>2 DEF OnePhase
  <2> QED BY <2>4, <2>5
<1>6. CASE Requested(r) /\ Reprocesses(r)
  <2>1. PICK e \in Docs : /\ e = act[r].doc
                          /\ HeldAt(act[r], call[r], doc[e].status, Out(e), Used(e))
    BY <1>3, <1>6
  <2> QED BY <1>6, <2>1 DEF Reprocesses, HeldAt, EmptySteps, HoldingSteps
<1> QED BY <1>2, <1>4, <1>5, <1>6 DEF Requested

LEMMA WorkerPhase ==
  ASSUME Typed, Alone, AllHeld, NEW w \in Workers,
         Drops(w) \/ Takes(w) \/ Finds(w) \/ Worked(w)
  PROVE  UNCHANGED doc \/ OnePhase
<1>1. w \in Callers
  BY EmissionAssumption DEF EmissionAssumption
<1>2. CASE Drops(w) \/ Takes(w) \/ Finds(w) \/ Posts(w) \/ Consults(w)
  BY <1>2 DEF Drops, Takes, Finds, Posts, Consults
<1>3. CASE Worked(w) /\ ~UNCHANGED doc
  <2>1. ~Free(w)
    BY <1>3 DEF Worked
  <2>2. PICK e \in Docs : e = act[w].doc
    BY <1>1, <2>1, AloneAt
  <2>3. /\ act[w] \in AnyAct /\ InPlace(w, act[w]) /\ doc[e] \in AnyRow
        /\ HeldAt(act[w], call[w], doc[e].status, Out(e), Used(e)) /\ Current(act[w])
    BY <1>1, <2>1, <2>2, HeldKnown
  <2>4. act[w].pc \in HoldingSteps /\ (Closes(w) \/ Writes(w) \/ Ends(w))
    BY <1>3, <2>3 DEF Worked, Closes, Writes, Ends, Posts, Consults, HoldingSteps, HeldAt, EmptySteps
  <2>5. doc[e].status \in Reserved /\ Out(e) # {}
    BY <2>3, <2>4 DEF HeldAt, EmptySteps, HoldingSteps
  <2>6. UnitOf(e) = "held" /\ Phase(doc[e].status) = "open"
    BY <2>5 DEF UnitOf, Holds, Out, Phase, Reserved
  <2>7. ASSUME NEW s, NEW n, Saved(w, s, n), s \in Reserved \cup {"authorized", "rejected", "manual_action"}
        PROVE  OnePhase
    <3>1. doc'[e].status = s /\ \A d \in Docs \ {e} : doc'[d] = doc[d]
      BY <2>2, <2>7 DEF Saved
    <3>2. Phase(s) \in {"open", "authorized", "refused"}
      BY <2>7 DEF Phase, Reserved
    <3>3. PhaseStep(e)
      BY <2>6, <3>1, <3>2 DEF PhaseStep
    <3> QED BY <3>1, <3>3 DEF OnePhase
  <2>8. CASE Closes(w)
    BY <2>7, <2>8 DEF Closes
  <2>9. CASE Writes(w) /\ act[w].pc # "rc_save"
    BY <2>7, <2>9 DEF Writes, Reserved
  <2>10. CASE Writes(w) /\ act[w].pc = "rc_save"
    <3>1. PICK s \in Status \ Terminal : Saved(w, s, act[w].row.ref) /\ Learnt(act[w], s)
      BY <2>10 DEF Writes
    <3>2. s = act[w].row.status \/ s = "processing"
      BY <2>3, <2>10, <3>1 DEF Learnt, InPlace, Found, Terminal
    <3>3. act[w].row.status = doc[e].status
      BY <2>2, <2>3, <2>10 DEF Current, Spent
    <3> QED BY <2>5, <2>7, <3>1, <3>2, <3>3 DEF Reserved
  <2>11. CASE Ends(w)
    BY <1>3, <2>4, <2>7, <2>11 DEF Ends, HoldingSteps, Reserved
  <2> QED BY <2>4, <2>8, <2>9, <2>10, <2>11
<1> QED BY <1>2, <1>3 DEF Worked

\* a step of the phase of one document is a step of NfceNotes
LEMMA PhaseMaps ==
  ASSUME OnePhase, \A d \in Docs : UnitOf(d)' = UnitOf(d)
  PROVE  [Notes!Next]_(Notes!vars)
<1>1. PICK e \in Docs : PhaseStep(e) /\ \A d \in Docs \ {e} : doc'[d] = doc[d]
  BY DEF OnePhase
<1>. DEFINE ph == [d \in Docs |-> Phase(doc[d].status)]
            un == [d \in Docs |-> UnitOf(d)]
<1>2. ph' = [ph EXCEPT ![e] = Phase(doc'[e].status)] /\ un' = un
  BY <1>1
<1>3. ph[e] = Phase(doc[e].status) /\ un[e] = UnitOf(e) /\ ph = [ph EXCEPT ![e] = ph[e]]
  OBVIOUS
<1>. HIDE DEF ph, un
<1>4. \/ ph' = ph /\ un' = un
      \/ ph[e] \in {"none", "refused"} /\ ph' = [ph EXCEPT ![e] = "open"] /\ un[e] = "none" /\ un' = un
      \/ ph[e] \in {"none"} /\ ph' = [ph EXCEPT ![e] = "refused"] /\ un' = un
      \/ ph[e] \in {"open"} /\ ph' = [ph EXCEPT ![e] = "refused"] /\ un' = un
      \/ ph[e] \in {"open"} /\ ph' = [ph EXCEPT ![e] = "authorized"] /\ un[e] = "held" /\ un' = un
      \/ ph[e] \in {"authorized"} /\ ph' = [ph EXCEPT ![e] = "canceled"] /\ un' = un
  BY <1>1, <1>2, <1>3 DEF PhaseStep
<1>. USE DEF ph, un, UnitOf
<1>5. CASE ph' = ph /\ un' = un
  BY <1>5 DEF Notes!vars
<1>6. CASE ph[e] \in {"none", "refused"} /\ ph' = [ph EXCEPT ![e] = "open"] /\ un[e] = "none" /\ un' = un
  <2>1. Notes!Request(e)
    BY <1>6 DEF Notes!Request, Notes!Move
  <2> QED BY <2>1 DEF Notes!Next
<1>7. CASE ph[e] \in {"none"} /\ ph' = [ph EXCEPT ![e] = "refused"] /\ un' = un
  <2>1. Notes!Discard(e)
    BY <1>7 DEF Notes!Discard, Notes!Move
  <2> QED BY <2>1 DEF Notes!Next
<1>8. CASE ph[e] \in {"open"} /\ ph' = [ph EXCEPT ![e] = "refused"] /\ un' = un
  <2>1. Notes!Refuse(e)
    BY <1>8 DEF Notes!Refuse, Notes!Move
  <2> QED BY <2>1 DEF Notes!Next
<1>9. CASE ph[e] \in {"open"} /\ ph' = [ph EXCEPT ![e] = "authorized"] /\ un[e] = "held" /\ un' = un
  <2>1. Notes!Authorize(e)
    BY <1>9 DEF Notes!Authorize, Notes!Move
  <2> QED BY <2>1 DEF Notes!Next
<1>10. CASE ph[e] \in {"authorized"} /\ ph' = [ph EXCEPT ![e] = "canceled"] /\ un' = un
  <2>1. Notes!Cancel(e)
    BY <1>10 DEF Notes!Cancel, Notes!Move
  <2> QED BY <2>1 DEF Notes!Next
<1> QED BY <1>4, <1>5, <1>6, <1>7, <1>8, <1>9, <1>10

\* the units out are in the row
LEMMA UnitsInRow ==
  ASSUME Tally
  PROVE  /\ Cardinality({d \in Docs : UnitOf(d) # "none"}) \in Nat
         /\ Cardinality({d \in Docs : UnitOf(d) # "none"}) <= counter[1].used + counter[1].reserved
<1>1. PICK h \in Nat, c \in Nat : h = Cardinality(HeldUnits) /\ c = Cardinality(UsedUnits)
  BY UnitsFinite
<1>2. PICK u \in Nat, r \in Int : u = counter[1].used /\ r = counter[1].reserved
  BY DEF Tally, Sane, Counter
<1>3. {d \in Docs : UnitOf(d) # "none"} \in SUBSET (HeldUnits \cup UsedUnits)
  <2>1. ASSUME NEW d \in Docs, Charged(d)
        PROVE  Counted(d)
    BY <2>1 DEF Charged, Counted, Used, Counting
  <2> QED BY <2>1 DEF UnitOf, HeldUnits, UsedUnits
<1>4. PICK n \in Nat : n = Cardinality(HeldUnits \cap UsedUnits)
  <2>1. HeldUnits \cap UsedUnits \in SUBSET HeldUnits
    OBVIOUS
  <2>2. IsFiniteSet(HeldUnits \cap UsedUnits)
    BY <2>1, UnitsFinite, FS_Subset
  <2> QED BY <2>2, FS_CardinalityType
<1>5. IsFiniteSet(HeldUnits \cup UsedUnits) /\ Cardinality(HeldUnits \cup UsedUnits) = h + c - n
  BY <1>1, <1>4, UnitsFinite, FS_Union
<1>6. /\ IsFiniteSet({d \in Docs : UnitOf(d) # "none"})
      /\ Cardinality({d \in Docs : UnitOf(d) # "none"}) <= h + c - n
  BY <1>3, <1>5, FS_Subset
<1>7. PICK k \in Nat : k = Cardinality({d \in Docs : UnitOf(d) # "none"})
  BY <1>6, FS_CardinalityType
<1>8. h <= r /\ c <= u
  BY <1>1, <1>2 DEF Tally
<1>9. k <= u + r
  BY <1>6, <1>7, <1>8
<1> QED BY <1>2, <1>7, <1>9

LEMMA CommitMaps ==
  ASSUME Months = {1}, Typed, Alone, AllHeld, Tally, NEW p \in Callers, Serve(p)
  PROVE  [Notes!Next]_(Notes!vars)
<1>1. Serves(p)
  BY QuotaShape
<1>2. PICK e \in Docs : OneCall(p, e)
  BY <1>1, CommitAt
<1>3. /\ Stays(p, e) \/ Reserves(p, e) \/ Counts(p, e) \/ Charges(p, e) \/ Returns(p, e)
      /\ \A d \in Docs \ {e} : UnitOf(d)' = UnitOf(d)
  BY <1>1, <1>2, CommitMoves
<1>4. UNCHANGED doc
  BY <1>2 DEF OneCall
<1>5. Reserves(p, e) => Cardinality({d \in Docs : UnitOf(d) # "none"}) < Plan
  <2>1. ASSUME Reserves(p, e)
        PROVE  counter[1].used + counter[1].reserved < Plan
    BY <1>2, <2>1, RowStep DEF OneCall, Tally, RowMoves, Reserves
  <2>2. counter[1].used \in Nat /\ counter[1].reserved \in Int /\ Plan \in Nat
    BY QuotaAssumption DEF Tally, Sane, Counter, QuotaAssumption
  <2> QED BY <2>1, <2>2, UnitsInRow
<1>. DEFINE ph == [d \in Docs |-> Phase(doc[d].status)]
            un == [d \in Docs |-> UnitOf(d)]
<1>6. un' = [un EXCEPT ![e] = UnitOf(e)'] /\ ph' = ph
  BY <1>3, <1>4
<1>7. ph[e] = Phase(doc[e].status) /\ un[e] = UnitOf(e) /\ un = [un EXCEPT ![e] = un[e]]
  OBVIOUS
<1>8. {d \in Docs : un[d] # "none"} = {d \in Docs : UnitOf(d) # "none"}
  OBVIOUS
<1>. HIDE DEF ph, un
<1>9. \/ un' = un /\ ph' = ph
      \/ /\ ph[e] = "open" /\ Cardinality({d \in Docs : un[d] # "none"}) < Plan
         /\ un[e] = "none" /\ un' = [un EXCEPT ![e] = "held"] /\ ph' = ph
      \/ ph[e] = "authorized" /\ un[e] = "held" /\ un' = [un EXCEPT ![e] = "spent"] /\ ph' = ph
      \/ ph[e] = "refused" /\ un[e] = "held" /\ un' = [un EXCEPT ![e] = "none"] /\ ph' = ph
  <2>1. CASE Stays(p, e) \/ Counts(p, e)
    BY <1>6, <1>7, <2>1 DEF Stays, Counts
  <2>2. CASE Reserves(p, e)
    BY <1>5, <1>6, <1>7, <1>8, <2>2 DEF Reserves, Phase
  <2>3. CASE Charges(p, e)
    BY <1>6, <1>7, <2>3 DEF Charges, Phase
  <2>4. CASE Returns(p, e)
    BY <1>6, <1>7, <2>4 DEF Returns, Phase
  <2> QED BY <1>3, <2>1, <2>2, <2>3, <2>4
<1>. USE DEF ph, un, UnitOf
<1>10. CASE un' = un /\ ph' = ph
  BY <1>10 DEF Notes!vars
<1>11. CASE /\ ph[e] = "open" /\ Cardinality({d \in Docs : un[d] # "none"}) < Plan
            /\ un[e] = "none" /\ un' = [un EXCEPT ![e] = "held"] /\ ph' = ph
  <2>1. Notes!Out = {d \in Docs : un[d] # "none"}
    BY DEF Notes!Out
  <2>2. Notes!Pass(e, "none", "held")
    BY <1>11 DEF Notes!Pass
  <2>3. Notes!Cardinality(Notes!Out) = Cardinality(Notes!Out)
    BY Zenon DEF Notes!Cardinality, Cardinality
  <2>4. Notes!Reserve(e)
    BY <1>11, <2>1, <2>2, <2>3 DEF Notes!Reserve
  <2> QED BY <2>4 DEF Notes!Next
<1>12. CASE ph[e] = "authorized" /\ un[e] = "held" /\ un' = [un EXCEPT ![e] = "spent"] /\ ph' = ph
  <2>1. Notes!Charge(e)
    BY <1>12 DEF Notes!Charge, Notes!Pass
  <2> QED BY <2>1 DEF Notes!Next
<1>13. CASE ph[e] = "refused" /\ un[e] = "held" /\ un' = [un EXCEPT ![e] = "none"] /\ ph' = ph
  <2>1. Notes!Return(e)
    BY <1>13 DEF Notes!Return, Notes!Pass
  <2> QED BY <2>1 DEF Notes!Next
<1> QED BY <1>9, <1>10, <1>11, <1>12, <1>13

\* a step that leaves the documents and the units alone is a stutter
LEMMA RestMaps ==
  ASSUME UNCHANGED doc \/ OnePhase, Apart, UNCHANGED held, UNCHANGED ledger
  PROVE  [Notes!Next]_(Notes!vars)
<1>1. \A d \in Docs : UnitOf(d)' = UnitOf(d)
  BY UnitsRest
<1>2. CASE OnePhase
  BY <1>1, <1>2, PhaseMaps
<1>3. CASE UNCHANGED doc
  <2>1. [d \in Docs |-> UnitOf(d)]' = [d \in Docs |-> UnitOf(d)]
    BY <1>1
  <2>2. [d \in Docs |-> Phase(doc[d].status)]' = [d \in Docs |-> Phase(doc[d].status)]
    BY <1>3
  <2> QED BY <2>1, <2>2 DEF Notes!vars, UnitOf
<1> QED BY <1>2, <1>3

LEMMA RestTally ==
  ASSUME Tally, UNCHANGED counter, Apart, UNCHANGED held, UNCHANGED ledger
  PROVE  Tally'
<1>1. \A d \in Docs : (Holds(d)' <=> Holds(d)) /\ (Counted(d)' <=> Counted(d))
  BY UnitsRest
<1>2. HeldUnits' = HeldUnits /\ UsedUnits' = UsedUnits
  BY <1>1 DEF HeldUnits, UsedUnits
<1> QED BY <1>2 DEF Tally, Sane

\* every step of the emission is a step of the life cycle, or none
LEMMA StepMaps ==
  ASSUME Months = {1}, Orderly, Typed, Alone, AllHeld, Tally, [Next]_vars
  PROVE  [Notes!Next]_(Notes!vars) /\ Tally'
<1>1. CASE \E p \in Callers : Serve(p)
  BY <1>1, CommitMaps, CommitTally
<1>2. CASE ~\E p \in Callers : Serve(p)
  <2>1. UNCHANGED counter
    BY <1>2, CounterMoves
  <2>2. ASSUME UNCHANGED doc \/ OnePhase, Apart, UNCHANGED held, UNCHANGED ledger
        PROVE  [Notes!Next]_(Notes!vars) /\ Tally'
    BY <2>1, <2>2, RestMaps, RestTally
  <2>3. ASSUME NEW r \in Requests, Begins(r) \/ Requested(r)
        PROVE  [Notes!Next]_(Notes!vars) /\ Tally'
    <3>1. r \in Callers
      BY EmissionAssumption DEF EmissionAssumption
    <3>2. UNCHANGED ledger /\ UNCHANGED held
      BY <2>3 DEF Begins, Requested, Queues, Concludes, GivesUp, Answered, Enqueues, Reprocesses, Cancels, Books
    <3>3. Apart
      BY <2>3, <3>1, CallsApart
    <3>4. UNCHANGED doc \/ OnePhase
      BY <2>3, RequestPhase
    <3> QED BY <2>2, <3>2, <3>3, <3>4
  <2>4. ASSUME NEW w \in Workers, Drops(w) \/ Takes(w) \/ Finds(w) \/ Worked(w)
        PROVE  [Notes!Next]_(Notes!vars) /\ Tally'
    <3>1. w \in Callers
      BY EmissionAssumption DEF EmissionAssumption
    <3>2. UNCHANGED ledger /\ UNCHANGED held
      BY <2>4 DEF Drops, Takes, Finds, Worked, Closes, Writes, Posts, Consults, Ends, Books
    <3>3. Apart
      BY <2>4, <3>1, CallsApart
    <3>4. UNCHANGED doc \/ OnePhase
      BY <2>4, WorkerPhase
    <3> QED BY <2>2, <3>2, <3>3, <3>4
  <2>5. ASSUME Calm \/ \E d \in Docs : Decides(d)
        PROVE  [Notes!Next]_(Notes!vars) /\ Tally'
    <3>1. UNCHANGED doc /\ UNCHANGED call /\ UNCHANGED held /\ UNCHANGED ledger
      BY <2>5 DEF Calm, Decides, Books
    <3>2. Apart
      BY <3>1 DEF Apart
    <3> QED BY <2>2, <3>1, <3>2
  <2>6. \A p \in Callers : ~Dies(p)
    BY DEF Dies, Orderly
  <2>7. \/ \E r \in Requests : Begins(r) \/ Requested(r)
        \/ \E w \in Workers : Drops(w) \/ Takes(w) \/ Finds(w) \/ Worked(w)
        \/ \E d \in Docs : Decides(d)
        \/ Calm
    BY <1>2, <2>6, StepShape
  <2>8. CASE \E r \in Requests : Begins(r) \/ Requested(r)
    BY <2>3, <2>8
  <2>9. CASE \E w \in Workers : Drops(w) \/ Takes(w) \/ Finds(w) \/ Worked(w)
    BY <2>4, <2>9
  <2> QED BY <2>5, <2>7, <2>8, <2>9
<1> QED BY <1>1, <1>2

LEMMA MapsInit ==
  ASSUME Months = {1}, Init
  PROVE  Tally /\ Notes!Init
<1>1. /\ \A d \in Docs : ~Holds(d) /\ ~Counted(d) /\ ~Charged(d)
      /\ counter \in [Months -> Counter] /\ Sane(counter[1])
      /\ counter[1].used = 0 /\ counter[1].reserved = 0
  <2>1. /\ ledger = {} /\ held = {} /\ \A p \in Callers : call[p] = NoCall
        /\ counter = [m \in Months |-> NoCounter]
    BY DEF Init, QuotaInit
  <2>2. \A p \in Callers : Idle(p)
    BY <2>1 DEF Idle, NoCall
  <2>3. \A d \in Docs : ~Holds(d) /\ ~Counted(d) /\ ~Charged(d)
    BY <2>1, <2>2 DEF Holds, Counted, Charged, Used
  <2>4. /\ NoCounter \in Counter /\ Sane(NoCounter)
        /\ NoCounter.used = 0 /\ NoCounter.reserved = 0
    BY DEF NoCounter, Counter, Sane
  <2> QED BY <2>1, <2>3, <2>4
<1>2. HeldUnits = {} /\ UsedUnits = {}
  BY <1>1 DEF HeldUnits, UsedUnits
<1>3. Tally
  BY <1>1, <1>2, FS_EmptySet DEF Tally
<1>4. [d \in Docs |-> Phase(doc[d].status)] = [d \in Docs |-> "none"]
  BY DEF Init, NoRow, Phase
<1>5. [d \in Docs |-> UnitOf(d)] = [d \in Docs |-> "none"]
  BY <1>1 DEF UnitOf
<1> QED BY <1>3, <1>4, <1>5 DEF Notes!Init, UnitOf

\* The emission implements the life cycle of a note: reservation, authorization
\* and accounting, spread over requests, jobs and commits, are steps of NfceNotes
\* or none at all.  It holds for any number of sales, requests and workers and any
\* plan, in one month and without credits (the abstract plan knows neither), where
\* no process dies (a unit reserved by a dead request is never seen again), no
\* request of the same sale runs beside another or beside its job, and nothing is
\* edited or reprocessed on the way; a sale left open without a job may be asked
\* for again.
THEOREM EmissionImplementsNotes ==
  ASSUME Months = {1}, MaxCrashes = 0,
         Env \cap {"in_flight", "payload", "reprocess", "month", "credits"} = {}
  PROVE  Spec => ImplementsNotes
<1>1. /\ Orderly /\ "in_flight" \notin Env /\ "payload" \notin Env /\ "reprocess" \notin Env
      /\ "month" \notin Env
  BY DEF Orderly
<1>2. Init => Typed /\ Alone /\ Still /\ AllHeld /\ Tally /\ Notes!Init
  BY TypedInit, AloneInit, StillInit, HeldInit, MapsInit
<1>3. Typed /\ Alone /\ Still /\ AllHeld /\ Tally /\ [Next]_vars =>
        (Typed /\ Alone /\ Still /\ AllHeld /\ Tally)'
  BY <1>1, TypedStep, AloneStep, StillStep, HeldStep, StepMaps
<1>4. Typed /\ Alone /\ AllHeld /\ Tally /\ [Next]_vars => [Notes!Next]_(Notes!vars)
  BY <1>1, StepMaps
<1> QED BY <1>2, <1>3, <1>4, PTL DEF Spec, ImplementsNotes, Notes!Spec

-----------------------------------------------------------------------------
(* No more notes than the plan has *)

UnitsOut == {d \in Docs : UnitOf(d) # "none"}
Issued == {d \in Docs : doc[d].status \in {"authorized", "canceled"}}

\* every unit that goes out finds room in the plan
LEMMA PlanKept ==
  ASSUME [Notes!Next]_(Notes!vars), Cardinality(UnitsOut) <= Plan
  PROVE  Cardinality(UnitsOut)' <= Plan
<1>. DEFINE ph == [d \in Docs |-> Phase(doc[d].status)]
            un == [d \in Docs |-> UnitOf(d)]
            out == {d \in Docs : un[d] # "none"}
<1>1. UnitsOut = out /\ UnitsOut' = out'
  BY DEF UnitsOut
<1>2. \/ un' = un
      \/ \E d \in Docs : Cardinality(out) < Plan /\ un' = [un EXCEPT ![d] = "held"]
      \/ \E d \in Docs : un[d] # "none" /\ un' = [un EXCEPT ![d] = "spent"]
      \/ \E d \in Docs : un' = [un EXCEPT ![d] = "none"]
  <2>1. Notes!Out = out
    BY DEF Notes!Out, UnitOf
  <2>2. Notes!Cardinality(out) = Cardinality(out)
    BY Zenon DEF Notes!Cardinality, Cardinality
  <2>3. CASE UNCHANGED Notes!vars
    BY <2>3 DEF Notes!vars, UnitOf
  <2>4. ASSUME NEW d \in Docs,
               \/ Notes!Request(d) \/ Notes!Discard(d) \/ Notes!Authorize(d)
               \/ Notes!Refuse(d) \/ Notes!Cancel(d)
        PROVE  un' = un
    BY <2>4 DEF Notes!Request, Notes!Discard, Notes!Authorize, Notes!Refuse, Notes!Cancel, UnitOf
  <2>5. ASSUME NEW d \in Docs, Notes!Reserve(d)
        PROVE  Cardinality(out) < Plan /\ un' = [un EXCEPT ![d] = "held"]
    BY <2>1, <2>2, <2>5 DEF Notes!Reserve, Notes!Pass, UnitOf
  <2>6. ASSUME NEW d \in Docs, Notes!Charge(d)
        PROVE  un[d] # "none" /\ un' = [un EXCEPT ![d] = "spent"]
    BY <2>6 DEF Notes!Charge, Notes!Pass, UnitOf
  <2>7. ASSUME NEW d \in Docs, Notes!Return(d)
        PROVE  un' = [un EXCEPT ![d] = "none"]
    BY <2>7 DEF Notes!Return, Notes!Pass, UnitOf
  <2>8. UNCHANGED Notes!vars \/ \E d \in Docs :
          \/ Notes!Request(d) \/ Notes!Discard(d) \/ Notes!Reserve(d) \/ Notes!Authorize(d)
          \/ Notes!Refuse(d) \/ Notes!Cancel(d) \/ Notes!Charge(d) \/ Notes!Return(d)
    BY DEF Notes!Next
  <2> QED BY <2>3, <2>4, <2>5, <2>6, <2>7, <2>8
<1>3. DOMAIN un = Docs /\ Plan \in Nat /\ IsFiniteSet(Docs)
  BY QuotaAssumption DEF QuotaAssumption
<1>. HIDE DEF un
<1>4. IsFiniteSet(out) /\ Cardinality(out) \in Nat
  BY <1>3, FS_Subset, FS_CardinalityType
<1>5. CASE un' = un
  BY <1>1, <1>5
<1>6. ASSUME NEW d \in Docs, Cardinality(out) < Plan, un' = [un EXCEPT ![d] = "held"]
      PROVE  Cardinality(out') <= Plan
  <2>1. out' = out \cup {d}
    BY <1>3, <1>6
  <2>2. Cardinality(out \cup {d}) = IF d \in out THEN Cardinality(out) ELSE Cardinality(out) + 1
    BY <1>4, FS_AddElement
  <2> QED BY <1>3, <1>4, <1>6, <2>1, <2>2
<1>7. ASSUME NEW d \in Docs, un[d] # "none", un' = [un EXCEPT ![d] = "spent"]
      PROVE  out' = out
  BY <1>3, <1>7
<1>8. ASSUME NEW d \in Docs, un' = [un EXCEPT ![d] = "none"]
      PROVE  Cardinality(out') <= Plan
  <2>1. out' \subseteq out
    BY <1>3, <1>8
  <2>2. Cardinality(out') <= Cardinality(out) /\ Cardinality(out') \in Nat
    BY <1>4, <2>1, FS_Subset, FS_CardinalityType
  <2> QED BY <1>1, <1>3, <1>4, <2>2
<1> QED BY <1>1, <1>2, <1>5, <1>6, <1>7, <1>8

\* However many sales are made, asked for again, answered late or canceled, no
\* more notes are authorized in the month than the plan has units: what the
\* counter of check_and_reserve promises is kept to the end of the emission.
\* The hypotheses are those of EmissionImplementsNotes.
THEOREM NotesStayInPlan ==
  ASSUME Months = {1}, MaxCrashes = 0,
         Env \cap {"in_flight", "payload", "reprocess", "month", "credits"} = {}
  PROVE  Spec => [](Cardinality(Issued) <= Plan)
<1>1. /\ Orderly /\ "in_flight" \notin Env /\ "payload" \notin Env /\ "reprocess" \notin Env
      /\ "month" \notin Env
  BY DEF Orderly
<1>. DEFINE Inv == /\ Typed /\ Alone /\ Still /\ AllHeld /\ AllOnce /\ Tally
                   /\ Cardinality(UnitsOut) <= Plan
<1>2. Init => Inv
  <2>. SUFFICES ASSUME Init
                PROVE  AllOnce /\ Cardinality(UnitsOut) <= Plan
    BY TypedInit, AloneInit, StillInit, HeldInit, MapsInit
  <2>1. AllOnce
    BY DEF Init, QuotaInit, AllOnce, Once, Out, Used, NoRow
  <2>2. Notes!Init
    BY MapsInit
  <2>3. [d \in Docs |-> UnitOf(d)] = [d \in Docs |-> "none"]
    BY <2>2 DEF Notes!Init, UnitOf
  <2>4. \A d \in Docs : UnitOf(d) = "none"
    <3>1. \A d \in Docs : [c \in Docs |-> UnitOf(c)][d] = UnitOf(d)
      OBVIOUS
    <3> QED BY <2>3, <3>1
  <2>5. UnitsOut = {}
    BY <2>4 DEF UnitsOut
  <2> QED BY <2>1, <2>5, FS_EmptySet, QuotaAssumption DEF QuotaAssumption
<1>3. Inv /\ [Next]_vars => Inv'
  <2>. SUFFICES ASSUME Inv, [Next]_vars
                PROVE  Inv'
    OBVIOUS
  <2>1. (Typed /\ Alone /\ Still /\ AllHeld /\ AllOnce)'
    BY <1>1, TypedStep, AloneStep, StillStep, HeldStep, OnceStep
  <2>2. [Notes!Next]_(Notes!vars) /\ Tally'
    BY <1>1, StepMaps
  <2>3. (Cardinality(UnitsOut) <= Plan)'
    BY <2>2, PlanKept
  <2> QED BY <2>1, <2>2, <2>3
<1>4. Inv => Cardinality(Issued) <= Plan
  <2>. SUFFICES ASSUME Inv
                PROVE  Cardinality(Issued) <= Plan
    OBVIOUS
  <2>1. ASSUME NEW d \in Issued
        PROVE  UnitOf(d) # "none"
    <3>1. d \in Docs /\ (doc[d].status = "authorized" \/ doc[d].status = "canceled")
      BY DEF Issued
    <3>2. CASE doc[d].status = "authorized"
      BY <3>1, <3>2, AuthorizedHas DEF UnitOf, Out, Holds
    <3>3. CASE doc[d].status = "canceled"
      BY <3>1, <3>3 DEF AllOnce, Once, UnitOf, Used, Charged
    <3> QED BY <3>1, <3>2, <3>3
  <2>2. Issued \subseteq UnitsOut
    BY <2>1 DEF Issued, UnitsOut
  <2>3. IsFiniteSet(UnitsOut)
    BY QuotaAssumption, FS_Subset DEF QuotaAssumption, UnitsOut
  <2>4. /\ Cardinality(Issued) <= Cardinality(UnitsOut)
        /\ Cardinality(Issued) \in Nat /\ Cardinality(UnitsOut) \in Nat
    BY <2>2, <2>3, FS_Subset, FS_CardinalityType
  <2> QED BY <2>4, QuotaAssumption DEF QuotaAssumption
<1>. HIDE DEF Inv
<1> QED BY <1>2, <1>3, <1>4, PTL DEF Spec
=============================================================================
