------------------------- MODULE FiscalCreditsProofs -------------------------
(***************************************************************************)
(* What holds of FiscalCredits for any packages, grants and requests.  A   *)
(* package is credited by whoever holds its row, so the invariant says who *)
(* that is and what the row still is for it; and what a request has heard  *)
(* of a payment is still so when it acts on it, which is where a payment   *)
(* made when overdue would break it.                                       *)
(***************************************************************************)
EXTENDS FiscalCredits, TLAPS

-----------------------------------------------------------------------------
(* The invariant *)

AtWork ==
  [step : {"create", "checkout", "job"}, k : Packages]
    \cup [step : {"check", "fail", "update", "credit", "mark"}, k : Packages, report : Reports]
    \cup [step : {"insert", "grant"}, k : Grants]
AtJob == [step : {"ask", "check", "fail", "update", "credit"}, k : Packages]

Shape ==
  /\ row \in [Keys -> Row] /\ created \in Seq(Packages) /\ credits \in [Keys -> Nat]
  /\ core \in [Packages -> Reports \cup {"none", "open"}] /\ past \in [Packages -> SUBSET Reports]
  /\ event \in [Packages -> [Reports -> {"none", "received", "processed", "failed"}]]
  /\ lock \in [Keys -> Procs \cup {Nobody}]
  /\ DOMAIN proc = Procs
  /\ \A w \in Workers : proc[w] \in {Idle} \cup AtWork
  /\ proc[Job] \in {Idle} \cup AtJob
  /\ queue \subseteq Packages
  /\ requests \in 0 .. MaxRequests /\ failures \in 0 .. MaxFailures

\* who crediting a package, or a grant, has its row
Crediting(w) == At(w, "credit") \/ At(w, "grant")
Locked ==
  /\ \A k \in Keys : lock[k] # Nobody => Crediting(lock[k]) /\ proc[lock[k]].k = k
  /\ \A w \in Procs : Crediting(w) => lock[proc[w].k] = w

\* and finds it as it was
Held ==
  \A w \in Procs :
    /\ At(w, "credit") => row[proc[w].k].status = "pending"
    /\ At(w, "grant") => row[proc[w].k].status = "none"

\* what has become of a payment is what it is, but for a refund of what was paid
Settled ==
  \A k \in Packages :
    /\ "paid" \in past[k] => core[k] \in {"paid", "refunded"}
    /\ "refunded" \in past[k] => core[k] = "refunded"
    /\ "overdue" \in past[k] /\ ~LatePayment => core[k] = "overdue"

Heard ==
  \A w \in Procs :
    /\ proc[w].step \in {"check", "update", "credit"} => core[proc[w].k] \in {"paid", "refunded"}
    /\ At(w, "fail") /\ ~LatePayment => core[proc[w].k] \in {"overdue", "refunded"}

Ledger ==
  /\ \A k \in Keys :
       /\ credits[k] <= 1
       /\ row[k].status = "paid" => credits[k] = 1
       /\ row[k].status \in {"none", "pending"} => credits[k] = 0
  /\ \A g \in Grants : row[g].status \in {"none", "paid"}
  /\ \A k \in Packages :
       /\ credits[k] > 0 => core[k] \in {"paid", "refunded"}
       /\ row[k].status = "failed" /\ ~LatePayment => core[k] \in {"overdue", "refunded"}

Inv == Shape /\ Locked /\ Held /\ Settled /\ Heard /\ Ledger

-----------------------------------------------------------------------------
(* Lemmas: what a process has in hand, and where a step leaves it *)

\* whoever is at work has a key, and a report if it handles a webhook
LEMMA InHand ==
  ASSUME Shape, NEW w \in Procs, ~At(w, "idle")
  PROVE  /\ proc[w].step \in {"insert", "grant"} => proc[w].k \in Grants /\ w \in Workers
         /\ proc[w].step \notin {"insert", "grant"} => proc[w].k \in Packages
         /\ proc[w].k \in Keys
         /\ At(w, "mark") => proc[w].report \in Reports /\ w \in Workers
         /\ "report" \in DOMAIN proc[w] => proc[w].k \in Packages /\ proc[w].report \in Reports
  <1>1. CASE w = Job
    <2>1. proc[w] \in AtJob
      BY <1>1 DEF Shape, At, Idle
    <2> QED
      BY <1>1, <2>1 DEF AtJob, At, Keys
  <1>2. CASE w \in Workers
    <2>1. proc[w] \in AtWork
      BY <1>2 DEF Shape, At, Idle
    <2>2. CASE proc[w] \in [step : {"create", "checkout", "job"}, k : Packages]
      BY <1>2, <2>2 DEF At, Keys
    <2>3. CASE proc[w] \in [step : {"check", "fail", "update", "credit", "mark"}, k : Packages,
                            report : Reports]
      BY <1>2, <2>3 DEF At, Keys
    <2>4. CASE proc[w] \in [step : {"insert", "grant"}, k : Grants]
      BY <1>2, <2>4 DEF At, Keys
    <2> QED
      BY <2>1, <2>2, <2>3, <2>4 DEF AtWork
  <1> QED
    BY <1>1, <1>2 DEF Procs

\* the steps a process may be given by a change of its step alone
LEMMA MoveTypes ==
  ASSUME Shape, NEW w \in Procs, NEW step, Move(w, step), ~At(w, "idle"),
         \/ proc[w].step \in {"create", "checkout"} /\ step \in {"checkout", "job"}
         \/ /\ proc[w].step \in {"check", "fail", "update", "credit"}
            /\ step \in {"update", "credit", "mark"} /\ (step = "mark" => w # Job)
         \/ At(w, "insert") /\ step = "grant"
         \/ At(w, "ask") /\ step \in {"check", "fail"}
  PROVE  /\ proc'[w] \in IF w = Job THEN AtJob ELSE AtWork
         /\ proc'[w].step = step /\ proc'[w].k = proc[w].k
         /\ DOMAIN proc' = Procs /\ \A v \in Procs \ {w} : proc'[v] = proc[v]
  <1>0. DOMAIN proc' = Procs /\ \A v \in Procs \ {w} : proc'[v] = proc[v]
    BY DEF Move, Shape
  <1>1. CASE w = Job
    <2>1. proc[w] \in AtJob
      BY <1>1 DEF Shape, At, Idle
    <2> QED
      BY <1>0, <1>1, <2>1 DEF Move, AtJob, At, Shape
  <1>2. CASE w \in Workers
    <2>0. w # Job /\ proc[w] \in AtWork
      BY <1>2, CreditsAssumption DEF Shape, At, Idle, CreditsAssumption
    <2>1. proc'[w] = [proc[w] EXCEPT !.step = step]
      BY DEF Move, Shape
    <2>2. CASE proc[w] \in [step : {"create", "checkout", "job"}, k : Packages]
      BY <1>0, <2>0, <2>1, <2>2 DEF At, AtWork
    <2>3. CASE proc[w] \in [step : {"check", "fail", "update", "credit", "mark"}, k : Packages,
                            report : Reports]
      BY <1>0, <2>0, <2>1, <2>3 DEF At, AtWork
    <2>4. CASE proc[w] \in [step : {"insert", "grant"}, k : Grants]
      BY <1>0, <2>0, <2>1, <2>4 DEF At, AtWork
    <2> QED
      BY <2>0, <2>2, <2>3, <2>4 DEF AtWork
  <1> QED
    BY <1>1, <1>2 DEF Procs

\* the job's next package is one of its list
LEMMA TakeUpTypes ==
  ASSUME Shape, NEW list, list \subseteq Packages, TakeUp(list)
  PROVE  /\ queue' \subseteq Packages
         /\ proc'[Job] \in AtJob /\ proc'[Job].step = "ask" /\ proc'[Job].k \in Packages
         /\ DOMAIN proc' = Procs /\ \A v \in Procs \ {Job} : proc'[v] = proc[v]
  <1>1. PICK k \in list : Begin(Job, k, "ask") /\ queue' = list \ {k}
    BY DEF TakeUp
  <1> QED
    BY <1>1 DEF Begin, AtJob, Shape, Procs

\* after a package: a webhook goes on to its mark, the job to another or to rest
LEMMA AfterTypes ==
  ASSUME Shape, NEW w \in Procs, After(w),
         proc[w].step \in {"check", "fail", "update", "credit"} \/ w = Job
  PROVE  /\ queue' \subseteq Packages
         /\ proc'[w] \in {Idle} \cup IF w = Job THEN AtJob ELSE AtWork
         /\ proc'[w].step \in {"idle", "ask", "mark"}
         /\ DOMAIN proc' = Procs /\ \A v \in Procs \ {w} : proc'[v] = proc[v]
  <1>1. CASE w # Job /\ Move(w, "mark") /\ UNCHANGED queue
    <2>1. ~At(w, "idle")
      BY <1>1 DEF At
    <2> QED
      BY <1>1, <2>1, MoveTypes DEF Shape
  <1>2. CASE w = Job /\ queue = {} /\ proc' = [proc EXCEPT ![w] = Idle] /\ UNCHANGED queue
    BY <1>2 DEF Shape, Idle
  <1>3. CASE w = Job /\ TakeUp(queue)
    BY <1>3, TakeUpTypes DEF Shape
  <1> QED
    BY <1>1, <1>2, <1>3 DEF After

\* a step of w that leaves the others where they are keeps the shape of proc
LEMMA ProcShape ==
  ASSUME Shape, NEW w \in Procs, DOMAIN proc' = Procs,
         proc'[w] \in {Idle} \cup (IF w = Job THEN AtJob ELSE AtWork),
         \A v \in Procs \ {w} : proc'[v] = proc[v]
  PROVE  /\ \A v \in Workers : proc'[v] \in {Idle} \cup AtWork
         /\ proc'[Job] \in {Idle} \cup AtJob
  BY CreditsAssumption DEF Shape, Procs, CreditsAssumption

\* a row with another status, or that knows its job or its payment, is a row
LEMMA RowTypes ==
  ASSUME Shape, NEW k \in Keys
  PROVE  /\ \A status \in {"pending", "paid", "failed"} :
              [row EXCEPT ![k].status = status] \in [Keys -> Row]
         /\ [row EXCEPT ![k].job = TRUE] \in [Keys -> Row]
         /\ [row EXCEPT ![k].payment = TRUE] \in [Keys -> Row]
         /\ [row EXCEPT ![k].status = "paid", ![k].payment = TRUE] \in [Keys -> Row]
  <1>1. row \in [Keys -> Row] /\ row[k] \in Row
    BY DEF Shape
  <1>2. \A r \in Row : [row EXCEPT ![k] = r] \in [Keys -> Row]
    BY <1>1
  <1>3. /\ \A status \in {"pending", "paid", "failed"} : [row[k] EXCEPT !.status = status] \in Row
        /\ [row[k] EXCEPT !.job = TRUE] \in Row /\ [row[k] EXCEPT !.payment = TRUE] \in Row
        /\ [row[k] EXCEPT !.status = "paid", !.payment = TRUE] \in Row
    BY <1>1 DEF Row
  <1> QED
    BY <1>1, <1>2, <1>3

\* a process that begins, or comes to rest
LEMMA BeginTypes ==
  ASSUME Shape, NEW w \in Procs, NEW r, proc' = [proc EXCEPT ![w] = r]
  PROVE  DOMAIN proc' = Procs /\ proc'[w] = r /\ \A v \in Procs \ {w} : proc'[v] = proc[v]
  BY DEF Shape

\* the actions that only change a row, its counter or its lock, and go on
LEMMA ShapeStep == Shape /\ [Next]_vars => Shape'
  <1> SUFFICES ASSUME Shape, [Next]_vars PROVE Shape'
    OBVIOUS
  <1> USE DEF store, gateway, bounds
  <1>1. CASE UNCHANGED vars
    BY <1>1 DEF Shape, vars
  <1>2. ASSUME NEW w \in Procs, Create(w) PROVE Shape'
    <2>1. proc[w].k \in Packages /\ proc[w].k \in Keys
      BY <1>2, InHand DEF Create, At
    <2>2. row' \in [Keys -> Row] /\ created' \in Seq(Packages)
      <3>1. row \in [Keys -> Row] /\ created \in Seq(Packages)
        BY DEF Shape
      <3>2. CASE row[proc[w].k].status = "none"
        <4>1. row' = [row EXCEPT ![proc[w].k].status = "pending"]
                /\ created' = Append(created, proc[w].k)
          BY <1>2, <3>2 DEF Create
        <4>2. row' \in [Keys -> Row]
          BY <2>1, <4>1, RowTypes
        <4>3. created' \in Seq(Packages)
          BY <2>1, <3>1, <4>1
        <4> QED
          BY <4>2, <4>3
      <3>3. CASE row[proc[w].k].status # "none"
        BY <1>2, <3>1, <3>3 DEF Create
      <3> QED
        BY <3>2, <3>3
    <2>3. DOMAIN proc' = Procs /\ (\A v \in Workers : proc'[v] \in {Idle} \cup AtWork)
            /\ proc'[Job] \in {Idle} \cup AtJob
      BY <1>2, MoveTypes, ProcShape DEF Create, At
    <2> QED
      BY <1>2, <2>2, <2>3 DEF Create, Shape
  <1>3. ASSUME NEW w \in Procs, CreatePayment(w) PROVE Shape'
    <2>1. proc[w].k \in Packages
      BY <1>3, InHand DEF CreatePayment, At
    <2>2. DOMAIN proc' = Procs /\ (\A v \in Workers : proc'[v] \in {Idle} \cup AtWork)
            /\ proc'[Job] \in {Idle} \cup AtJob
      BY <1>3, MoveTypes, ProcShape DEF CreatePayment, At
    <2> QED
      BY <1>3, <2>1, <2>2 DEF CreatePayment, Shape
  <1>4. ASSUME NEW w \in Procs, Mark(w) PROVE Shape'
    <2>1. proc[w].k \in Packages /\ proc[w].report \in Reports
      BY <1>4, InHand DEF Mark, At
    <2>2. event' \in [Packages -> [Reports -> {"none", "received", "processed", "failed"}]]
      BY <1>4, <2>1 DEF Mark, Shape
    <2>3. DOMAIN proc' = Procs /\ (\A v \in Workers : proc'[v] \in {Idle} \cup AtWork)
            /\ proc'[Job] \in {Idle} \cup AtJob
      BY <1>4, BeginTypes, ProcShape DEF Mark
    <2> QED
      BY <1>4, <2>2, <2>3 DEF Mark, Shape
  <1>5. ASSUME NEW w \in Procs, ActivateCheck(w) PROVE Shape'
    <2>1. queue' \subseteq Packages /\ DOMAIN proc' = Procs
            /\ (\A v \in Workers : proc'[v] \in {Idle} \cup AtWork)
            /\ proc'[Job] \in {Idle} \cup AtJob
      <3>1. CASE After(w)
        BY <1>5, <3>1, AfterTypes, ProcShape DEF ActivateCheck, At
      <3>2. CASE Move(w, "update") /\ UNCHANGED queue
        BY <1>5, <3>2, MoveTypes, ProcShape DEF ActivateCheck, At, Shape
      <3> QED
        BY <1>5, <3>1, <3>2 DEF ActivateCheck
    <2> QED
      BY <1>5, <2>1 DEF ActivateCheck, Shape
  <1>6. ASSUME NEW w \in Procs, ActivateCommit(w) PROVE Shape'
    <2>1. queue' \subseteq Packages /\ DOMAIN proc' = Procs
            /\ (\A v \in Workers : proc'[v] \in {Idle} \cup AtWork)
            /\ proc'[Job] \in {Idle} \cup AtJob
      BY <1>6, AfterTypes, ProcShape DEF ActivateCommit, At
    <2>2. proc[w].k \in Keys
      BY <1>6, InHand DEF ActivateCommit, At
    <2>3. row' \in [Keys -> Row] /\ credits' \in [Keys -> Nat]
      <3>1. row' \in [Keys -> Row]
        BY <1>6, <2>2, RowTypes DEF ActivateCommit
      <3>2. credits' \in [Keys -> Nat]
        BY <1>6, <2>2 DEF ActivateCommit, Shape
      <3> QED
        BY <3>1, <3>2
    <2>4. lock' \in [Keys -> Procs \cup {Nobody}]
      BY <1>6 DEF ActivateCommit, Shape, Unlocked
    <2> QED
      BY <1>6, <2>1, <2>3, <2>4 DEF ActivateCommit, Shape
  <1>7. ASSUME NEW w \in Procs, GrantCommit(w) PROVE Shape'
    <2>1. DOMAIN proc' = Procs /\ (\A v \in Workers : proc'[v] \in {Idle} \cup AtWork)
            /\ proc'[Job] \in {Idle} \cup AtJob
      BY <1>7, BeginTypes, ProcShape DEF GrantCommit
    <2>2. proc[w].k \in Keys
      BY <1>7, InHand DEF GrantCommit, At
    <2>3. row' \in [Keys -> Row] /\ credits' \in [Keys -> Nat]
      <3>1. row' \in [Keys -> Row]
        BY <1>7, <2>2, RowTypes DEF GrantCommit
      <3>2. credits' \in [Keys -> Nat]
        BY <1>7, <2>2 DEF GrantCommit, Shape
      <3> QED
        BY <3>1, <3>2
    <2>4. lock' \in [Keys -> Procs \cup {Nobody}]
      BY <1>7 DEF GrantCommit, Shape, Unlocked
    <2> QED
      BY <1>7, <2>1, <2>3, <2>4 DEF GrantCommit, Shape
  <1>8. ASSUME NEW w \in Procs, SaveJob(w) PROVE Shape'
    <2>1. DOMAIN proc' = Procs /\ (\A v \in Workers : proc'[v] \in {Idle} \cup AtWork)
            /\ proc'[Job] \in {Idle} \cup AtJob
      BY <1>8, BeginTypes, ProcShape DEF SaveJob
    <2>2. row' \in [Keys -> Row]
      BY <1>8, InHand, RowTypes DEF SaveJob, At
    <2> QED
      BY <1>8, <2>1, <2>2 DEF SaveJob, Shape
  <1>9. ASSUME NEW w \in Procs, MarkPackageFailed(w) PROVE Shape'
    <2>1. queue' \subseteq Packages /\ DOMAIN proc' = Procs
            /\ (\A v \in Workers : proc'[v] \in {Idle} \cup AtWork)
            /\ proc'[Job] \in {Idle} \cup AtJob
      BY <1>9, AfterTypes, ProcShape DEF MarkPackageFailed, At
    <2>2. row' \in [Keys -> Row]
      BY <1>9, InHand, RowTypes DEF MarkPackageFailed, At
    <2> QED
      BY <1>9, <2>1, <2>2 DEF MarkPackageFailed, Shape
  <1>10. ASSUME NEW w \in Procs, ActivateUpdate(w) PROVE Shape'
    <2>1. queue' \subseteq Packages /\ DOMAIN proc' = Procs
            /\ (\A v \in Workers : proc'[v] \in {Idle} \cup AtWork)
            /\ proc'[Job] \in {Idle} \cup AtJob
      <3>1. CASE After(w)
        BY <1>10, <3>1, AfterTypes, ProcShape DEF ActivateUpdate, At
      <3>2. CASE Move(w, "credit") /\ UNCHANGED queue
        BY <1>10, <3>2, MoveTypes, ProcShape DEF ActivateUpdate, At, Shape
      <3> QED
        BY <1>10, <3>1, <3>2 DEF ActivateUpdate
    <2>2. lock' \in [Keys -> Procs \cup {Nobody}]
      BY <1>10 DEF ActivateUpdate, Shape
    <2> QED
      BY <1>10, <2>1, <2>2 DEF ActivateUpdate, Shape
  <1>11. ASSUME NEW w \in Procs, GrantInsert(w) PROVE Shape'
    <2>1. DOMAIN proc' = Procs /\ (\A v \in Workers : proc'[v] \in {Idle} \cup AtWork)
            /\ proc'[Job] \in {Idle} \cup AtJob
      <3>1. CASE Move(w, "grant")
        BY <1>11, <3>1, MoveTypes, ProcShape DEF GrantInsert, At
      <3>2. CASE proc' = [proc EXCEPT ![w] = Idle]
        BY <3>2, BeginTypes, ProcShape
      <3> QED
        BY <1>11, <3>1, <3>2 DEF GrantInsert
    <2>2. lock' \in [Keys -> Procs \cup {Nobody}]
      BY <1>11 DEF GrantInsert, Shape
    <2> QED
      BY <1>11, <2>1, <2>2 DEF GrantInsert, Shape
  <1>12. ASSUME NEW w \in Procs, Error(w) PROVE Shape'
    <2>1. queue' \subseteq Packages /\ DOMAIN proc' = Procs
            /\ (\A v \in Workers : proc'[v] \in {Idle} \cup AtWork)
            /\ proc'[Job] \in {Idle} \cup AtJob
      <3>1. CASE w = Job /\ After(w)
        BY <3>1, AfterTypes, ProcShape
      <3>2. CASE proc' = [proc EXCEPT ![w] = Idle] /\ queue' = IF w = Job THEN {} ELSE queue
        BY <3>2, BeginTypes, ProcShape DEF Shape
      <3> QED
        BY <1>12, <3>1, <3>2 DEF Error
    <2>2. event' \in [Packages -> [Reports -> {"none", "received", "processed", "failed"}]]
      <3>1. CASE event' = event
        BY <3>1 DEF Shape
      <3>2. CASE /\ "report" \in DOMAIN proc[w]
                 /\ event' = [event EXCEPT ![proc[w].k][proc[w].report] = "failed"]
        <4>1. proc[w].k \in Packages /\ proc[w].report \in Reports
          BY <1>12, <3>2, InHand DEF Error
        <4> QED
          BY <3>2, <4>1 DEF Shape
      <3> QED
        BY <1>12, <3>1, <3>2 DEF Error
    <2>3. lock' \in [Keys -> Procs \cup {Nobody}]
      BY <1>12 DEF Error, Shape, Unlocked
    <2>4. failures' \in 0 .. MaxFailures
      BY <1>12, CreditsAssumption DEF Error, Fail, Shape, CreditsAssumption
    <2> QED
      BY <1>12, <2>1, <2>2, <2>3, <2>4 DEF Error, Shape
  <1>13. ASSUME List PROVE Shape'
    <2>1. Batch({k \in Packages : row[k].status = "pending" /\ row[k].payment}) \subseteq Packages
      BY DEF Batch
    <2>2. queue' \subseteq Packages /\ DOMAIN proc' = Procs
            /\ (\A v \in Workers : proc'[v] \in {Idle} \cup AtWork)
            /\ proc'[Job] \in {Idle} \cup AtJob
      BY <1>13, <2>1, TakeUpTypes, ProcShape DEF List, Procs
    <2> QED
      BY <1>13, <2>2 DEF List, Shape
  <1>14. ASSUME AskCore PROVE Shape'
    <2>1. queue' \subseteq Packages /\ DOMAIN proc' = Procs
            /\ (\A v \in Workers : proc'[v] \in {Idle} \cup AtWork)
            /\ proc'[Job] \in {Idle} \cup AtJob
      <3>1. CASE After(Job)
        BY <3>1, AfterTypes, ProcShape DEF Procs
      <3>2. CASE \E step \in {"check", "fail"} : Move(Job, step) /\ UNCHANGED queue
        BY <1>14, <3>2, MoveTypes, ProcShape DEF AskCore, At, Procs, Shape
      <3> QED
        BY <1>14, <3>1, <3>2 DEF AskCore
    <2> QED
      BY <1>14, <2>1 DEF AskCore, Shape
  <1>15. ASSUME NEW k \in Packages, PayAtCore(k) \/ OverdueAtCore(k) \/ RefundAtCore(k)
         PROVE  Shape'
    <2>1. PICK outcome \in Reports : Becomes(k, outcome)
      BY <1>15 DEF PayAtCore, OverdueAtCore, RefundAtCore, Reports
    <2>2. core' \in [Packages -> Reports \cup {"none", "open"}] /\ past' \in [Packages -> SUBSET Reports]
      BY <2>1 DEF Becomes, Shape
    <2> QED
      BY <2>1, <2>2 DEF Becomes, Shape
  <1>16. ASSUME NEW w \in Workers, NEW k \in Packages, Buy(w, k) PROVE Shape'
    <2>1. [step |-> IF row[k].status = "none" THEN "create" ELSE "checkout", k |-> k] \in AtWork
      BY DEF AtWork
    <2>2. DOMAIN proc' = Procs /\ (\A v \in Workers : proc'[v] \in {Idle} \cup AtWork)
            /\ proc'[Job] \in {Idle} \cup AtJob
      BY <1>16, <2>1, BeginTypes, ProcShape, CreditsAssumption
         DEF Buy, Begin, Procs, CreditsAssumption
    <2>3. requests' \in 0 .. MaxRequests
      BY <1>16, CreditsAssumption DEF Buy, Ask, Shape, CreditsAssumption
    <2> QED
      BY <1>16, <2>2, <2>3 DEF Buy, Shape
  <1>17. ASSUME NEW w \in Workers, NEW k \in Packages, CheckoutStatus(w, k) PROVE Shape'
    <2>1. row' \in [Keys -> Row]
      BY <1>17, RowTypes DEF CheckoutStatus, Keys
    <2>2. requests' \in 0 .. MaxRequests
      BY <1>17, CreditsAssumption DEF CheckoutStatus, Ask, Shape, CreditsAssumption
    <2> QED
      BY <1>17, <2>1, <2>2 DEF CheckoutStatus, Shape
  <1>18. ASSUME NEW w \in Workers, NEW k \in Packages, NEW report \in Reports,
                Webhook(w, k, report)
         PROVE  Shape'
    <2>1. [step |-> IF report = "paid" THEN "check" ELSE "fail", k |-> k, report |-> report]
            \in AtWork
      BY DEF AtWork
    <2>2. DOMAIN proc' = Procs /\ (\A v \in Workers : proc'[v] \in {Idle} \cup AtWork)
            /\ proc'[Job] \in {Idle} \cup AtJob
      BY <1>18, <2>1, BeginTypes, ProcShape, CreditsAssumption
         DEF Webhook, Procs, CreditsAssumption
    <2>3. event' \in [Packages -> [Reports -> {"none", "received", "processed", "failed"}]]
      BY <1>18 DEF Webhook, Shape
    <2>4. requests' \in 0 .. MaxRequests
      BY <1>18, CreditsAssumption DEF Webhook, Ask, Shape, CreditsAssumption
    <2> QED
      BY <1>18, <2>2, <2>3, <2>4 DEF Webhook, Shape
  <1>19. ASSUME NEW w \in Workers, NEW g \in Grants, Grant(w, g) PROVE Shape'
    <2>1. [step |-> "insert", k |-> g] \in AtWork
      BY DEF AtWork
    <2>2. DOMAIN proc' = Procs /\ (\A v \in Workers : proc'[v] \in {Idle} \cup AtWork)
            /\ proc'[Job] \in {Idle} \cup AtJob
      BY <1>19, <2>1, BeginTypes, ProcShape, CreditsAssumption
         DEF Grant, Begin, Procs, CreditsAssumption
    <2>3. requests' \in 0 .. MaxRequests
      BY <1>19, CreditsAssumption DEF Grant, Ask, Shape, CreditsAssumption
    <2> QED
      BY <1>19, <2>2, <2>3 DEF Grant, Shape
  <1> QED
    BY <1>1, <1>2, <1>3, <1>4, <1>5, <1>6, <1>7, <1>8, <1>9, <1>10, <1>11, <1>12, <1>13,
       <1>14, <1>15, <1>16, <1>17, <1>18, <1>19 DEF Next, Handle, Wait

-----------------------------------------------------------------------------
(* The invariant, step by step *)

\* a step of w: the others stay where they are
Others(w) == DOMAIN proc' = Procs /\ \A v \in Procs \ {w} : proc'[v] = proc[v]

\* locks taken by w, kept, or given back
LEMMA LockStep ==
  ASSUME Shape, Locked, NEW w \in Procs, Others(w),
         \/ lock' = lock /\ ~Crediting(w) /\ ~Crediting(w)'
         \/ lock' = Unlocked(w) /\ ~Crediting(w)'
         \/ \E k \in Keys : /\ lock' = [lock EXCEPT ![k] = w] /\ lock[k] \in {Nobody, w}
                            /\ ~Crediting(w) /\ Crediting(w)' /\ proc'[w].k = k
  PROVE  Locked'
  <1>1. \A v \in Procs \ {w} : Crediting(v)' <=> Crediting(v)
    BY DEF Others, Crediting, At
  <1>2. \A v \in Procs : v # Nobody
    BY CreditsAssumption DEF Procs, CreditsAssumption
  <1>3. \A v \in Procs : Crediting(v) => proc[v].k \in Keys
    BY InHand DEF Crediting, At
  <1>4. \A k \in Keys : lock[k] \in Procs \cup {Nobody}
    BY DEF Shape
  <1>5. CASE lock' = lock /\ ~Crediting(w) /\ ~Crediting(w)'
    BY <1>1, <1>2, <1>4, <1>5 DEF Locked, Others
  <1>6. CASE lock' = Unlocked(w) /\ ~Crediting(w)'
    <2>1. \A k \in Keys : lock'[k] = IF lock[k] = w THEN Nobody ELSE lock[k]
      BY <1>6 DEF Unlocked
    <2> QED
      BY <1>1, <1>2, <1>3, <1>4, <1>6, <2>1 DEF Locked, Others
  <1>7. ASSUME NEW k \in Keys, lock' = [lock EXCEPT ![k] = w], lock[k] \in {Nobody, w},
               ~Crediting(w), Crediting(w)', proc'[w].k = k
        PROVE  Locked'
    <2>1. lock'[k] = w /\ \A j \in Keys \ {k} : lock'[j] = lock[j]
      BY <1>7 DEF Shape
    <2>2. \A v \in Procs \ {w} : Crediting(v) => proc[v].k # k
      BY <1>2, <1>7 DEF Locked
    <2> QED
      BY <1>1, <1>2, <1>3, <1>4, <1>7, <2>1, <2>2 DEF Locked, Others
  <1> QED
    BY <1>5, <1>6, <1>7

\* only w, or nobody, had the rows whose status changes
LEMMA HeldStep ==
  ASSUME Shape, Locked, Held, NEW w \in Procs, Others(w),
         \A k \in Keys : lock[k] \in {Nobody, w} \/ row'[k].status = row[k].status,
         At(w, "credit")' => row'[proc'[w].k].status = "pending",
         At(w, "grant")' => row'[proc'[w].k].status = "none"
  PROVE  Held'
  <1>1. ASSUME NEW v \in Procs \ {w}, Crediting(v)
        PROVE  proc[v].k \in Keys /\ row'[proc[v].k].status = row[proc[v].k].status
    <2>1. proc[v].k \in Keys
      BY <1>1, InHand DEF Crediting, At
    <2>2. lock[proc[v].k] = v /\ v # Nobody /\ v # w
      BY <1>1, CreditsAssumption DEF Locked, Procs, CreditsAssumption
    <2> QED
      BY <2>1, <2>2
  <1>2. ASSUME NEW v \in Procs \ {w}
        PROVE  /\ At(v, "credit")' => row'[proc'[v].k].status = "pending"
               /\ At(v, "grant")' => row'[proc'[v].k].status = "none"
    BY <1>1, <1>2 DEF Held, Others, Crediting, At
  <1> QED
    BY <1>2 DEF Held

\* payments stand where they stood, and w acts on what it has heard
LEMMA HeardStep ==
  ASSUME Heard, NEW w \in Procs, Others(w), UNCHANGED core,
         proc'[w].step \in {"check", "update", "credit"} => core[proc'[w].k] \in {"paid", "refunded"},
         At(w, "fail")' /\ ~LatePayment => core[proc'[w].k] \in {"overdue", "refunded"}
  PROVE  Heard'
  BY DEF Heard, Others, At

\* what the store and the locks have to do with nothing but w's own step
LEMMA QuietStep ==
  ASSUME Inv, NEW w \in Procs, Others(w), UNCHANGED <<store, gateway>>,
         \/ lock' = lock /\ ~Crediting(w) /\ ~Crediting(w)'
         \/ lock' = Unlocked(w) /\ ~Crediting(w)',
         proc'[w].step \in {"check", "update"} => core[proc'[w].k] \in {"paid", "refunded"},
         At(w, "fail")' /\ ~LatePayment => core[proc'[w].k] \in {"overdue", "refunded"}
  PROVE  Locked' /\ Held' /\ Settled' /\ Heard' /\ Ledger'
  <1>1. Locked'
    BY LockStep DEF Inv
  <1>2. Held'
    BY HeldStep DEF Inv, store, Crediting
  <1>3. Settled' /\ Ledger'
    BY DEF Inv, store, gateway, Settled, Ledger
  <1>4. Heard'
    BY HeardStep DEF Inv, gateway, Crediting, At
  <1> QED
    BY <1>1, <1>2, <1>3, <1>4

\* what a payment becomes leaves true what has been heard of it
LEMMA PaymentStep ==
  ASSUME Inv, NEW k \in Packages, PayAtCore(k) \/ OverdueAtCore(k) \/ RefundAtCore(k)
  PROVE  Locked' /\ Held' /\ Settled' /\ Heard' /\ Ledger'
  <1> USE DEF Inv
  <1>0. UNCHANGED <<store, lock, proc>>
    BY DEF PayAtCore, OverdueAtCore, RefundAtCore, Becomes
  <1>1. /\ \A j \in Packages \ {k} : core'[j] = core[j] /\ past'[j] = past[j]
        /\ core[k] \in {"paid", "refunded"} => core'[k] \in {"paid", "refunded"}
        /\ core[k] \in {"overdue", "refunded"} /\ ~LatePayment => core'[k] \in {"overdue", "refunded"}
    BY CreditsAssumption
       DEF PayAtCore, OverdueAtCore, RefundAtCore, Becomes, Shape, CreditsAssumption
  <1>2. Locked' /\ Held'
    BY <1>0 DEF Locked, Held, store, Crediting, At
  <1>3. Settled'
    <2>1. /\ "paid" \in past'[k] => core'[k] \in {"paid", "refunded"}
          /\ "refunded" \in past'[k] => core'[k] = "refunded"
          /\ "overdue" \in past'[k] /\ ~LatePayment => core'[k] = "overdue"
      BY CreditsAssumption
         DEF PayAtCore, OverdueAtCore, RefundAtCore, Becomes, Shape, Settled, CreditsAssumption
    <2> QED
      BY <1>1, <2>1 DEF Settled
  <1>4. Heard'
    <2>1. \A w \in Procs : proc[w].step \in {"check", "update", "credit", "fail"} =>
            proc[w].k \in Packages
      BY InHand DEF At
    <2> QED
      BY <1>0, <1>1, <2>1 DEF Heard, At
  <1>5. Ledger'
    BY <1>0, <1>1 DEF Ledger, store
  <1> QED
    BY <1>2, <1>3, <1>4, <1>5

\* after a package the process holds none
LEMMA AfterStep ==
  ASSUME Shape, NEW w \in Procs, After(w),
         proc[w].step \in {"check", "fail", "update", "credit"} \/ w = Job
  PROVE  /\ Others(w) /\ ~Crediting(w)'
         /\ proc'[w].step \notin {"check", "update", "credit", "fail", "grant"}
  BY AfterTypes DEF Others, Crediting, At

LEMMA MoveStep ==
  ASSUME Shape, NEW w \in Procs, NEW step, Move(w, step), ~At(w, "idle"),
         \/ proc[w].step \in {"create", "checkout"} /\ step \in {"checkout", "job"}
         \/ At(w, "check") /\ step = "update"
         \/ At(w, "update") /\ step = "credit"
         \/ At(w, "insert") /\ step = "grant"
         \/ At(w, "ask") /\ step \in {"check", "fail"}
  PROVE  Others(w) /\ proc'[w].step = step /\ proc'[w].k = proc[w].k
  BY MoveTypes DEF Others, At

\* a row is somebody's only while it is pending, or a grant that is not there
LEMMA Taken ==
  ASSUME Inv, NEW k \in Keys, lock[k] # Nobody
  PROVE  row[k].status = "pending" \/ (k \in Grants /\ row[k].status = "none")
  <1> USE DEF Inv
  <1>1. lock[k] \in Procs /\ Crediting(lock[k]) /\ proc[lock[k]].k = k
    BY DEF Locked, Shape
  <1> QED
    BY <1>1, InHand DEF Held, Crediting, At

\* the steps that leave the store, the locks and the payments alone
LEMMA QuietSteps ==
  ASSUME Inv
  PROVE  /\ \A w \in Procs : Mark(w) \/ ActivateCheck(w) \/ Error(w) =>
              Locked' /\ Held' /\ Settled' /\ Heard' /\ Ledger'
         /\ List \/ AskCore => Locked' /\ Held' /\ Settled' /\ Heard' /\ Ledger'
         /\ \A w \in Workers, k \in Packages :
              Buy(w, k) \/ (\E report \in Reports : Webhook(w, k, report)) =>
                Locked' /\ Held' /\ Settled' /\ Heard' /\ Ledger'
         /\ \A w \in Workers, g \in Grants : Grant(w, g) =>
              Locked' /\ Held' /\ Settled' /\ Heard' /\ Ledger'
  <1> USE DEF Inv
  <1>1. ASSUME NEW w \in Procs, Mark(w) PROVE Locked' /\ Held' /\ Settled' /\ Heard' /\ Ledger'
    BY <1>1, BeginTypes, QuietStep DEF Mark, Others, Crediting, At, Idle
  <1>2. ASSUME NEW w \in Procs, ActivateCheck(w)
        PROVE  Locked' /\ Held' /\ Settled' /\ Heard' /\ Ledger'
    <2>0. core[proc[w].k] \in {"paid", "refunded"} /\ ~Crediting(w)
      BY <1>2 DEF ActivateCheck, Heard, Crediting, At
    <2>1. CASE After(w)
      BY <1>2, <2>0, <2>1, AfterStep, QuietStep DEF ActivateCheck, At
    <2>2. CASE Move(w, "update")
      <3>1. Others(w) /\ proc'[w].step = "update" /\ proc'[w].k = proc[w].k
        BY <1>2, <2>2, MoveStep DEF ActivateCheck, At
      <3> QED
        BY <1>2, <2>0, <3>1, QuietStep DEF ActivateCheck, At, Crediting
    <2> QED
      BY <1>2, <2>1, <2>2 DEF ActivateCheck
  <1>3. ASSUME NEW w \in Procs, Error(w) PROVE Locked' /\ Held' /\ Settled' /\ Heard' /\ Ledger'
    <2>1. Others(w) /\ ~Crediting(w)' /\ proc'[w].step \notin {"check", "update", "fail"}
      <3>1. CASE w = Job /\ After(w)
        BY <3>1, AfterStep
      <3>2. CASE proc' = [proc EXCEPT ![w] = Idle]
        BY <3>2, BeginTypes DEF Others, Crediting, At, Idle
      <3> QED
        BY <1>3, <3>1, <3>2 DEF Error
    <2> QED
      BY <1>3, <2>1, QuietStep DEF Error, At
  <1>4. ASSUME List PROVE Locked' /\ Held' /\ Settled' /\ Heard' /\ Ledger'
    <2>1. Batch({k \in Packages : row[k].status = "pending" /\ row[k].payment}) \subseteq Packages
      BY DEF Batch
    <2>2. Others(Job) /\ proc'[Job].step = "ask"
      BY <1>4, <2>1, TakeUpTypes DEF List, Others
    <2> QED
      BY <1>4, <2>2, QuietStep DEF List, At, Crediting, Procs
  <1>5. ASSUME AskCore PROVE Locked' /\ Held' /\ Settled' /\ Heard' /\ Ledger'
    <2>0. Job \in Procs /\ ~Crediting(Job) /\ UNCHANGED <<store, gateway, lock>>
      BY <1>5 DEF AskCore, Procs, Crediting, At
    <2>1. CASE After(Job)
      BY <2>0, <2>1, AfterStep, QuietStep DEF At
    <2>2. CASE Move(Job, "check") /\ core[proc[Job].k] = "paid"
      <3>1. Others(Job) /\ proc'[Job].step = "check" /\ proc'[Job].k = proc[Job].k
        BY <1>5, <2>0, <2>2, MoveStep DEF AskCore, At
      <3> QED
        BY <2>0, <2>2, <3>1, QuietStep DEF At, Crediting
    <2>3. CASE Move(Job, "fail") /\ core[proc[Job].k] \in {"overdue", "refunded"}
      <3>1. Others(Job) /\ proc'[Job].step = "fail" /\ proc'[Job].k = proc[Job].k
        BY <1>5, <2>0, <2>3, MoveStep DEF AskCore, At
      <3> QED
        BY <2>0, <2>3, <3>1, QuietStep DEF At, Crediting
    <2> QED
      BY <1>5, <2>1, <2>2, <2>3 DEF AskCore
  <1>6. ASSUME NEW w \in Workers, NEW k \in Packages, Buy(w, k)
        PROVE  Locked' /\ Held' /\ Settled' /\ Heard' /\ Ledger'
    <2>1. Others(w) /\ proc'[w].step \in {"create", "checkout"}
      BY <1>6, BeginTypes DEF Buy, Begin, Others, Procs
    <2> QED
      BY <1>6, <2>1, QuietStep DEF Buy, At, Crediting, Procs
  <1>7. ASSUME NEW w \in Workers, NEW k \in Packages, NEW report \in Reports, Webhook(w, k, report)
        PROVE  Locked' /\ Held' /\ Settled' /\ Heard' /\ Ledger'
    <2>1. /\ Others(w) /\ proc'[w].k = k
          /\ proc'[w].step = IF report = "paid" THEN "check" ELSE "fail"
      BY <1>7, BeginTypes DEF Webhook, Others, Procs
    <2>2. /\ report = "paid" => core[k] \in {"paid", "refunded"}
          /\ report # "paid" /\ ~LatePayment => core[k] \in {"overdue", "refunded"}
      BY <1>7 DEF Webhook, Settled, Reports
    <2> QED
      BY <1>7, <2>1, <2>2, QuietStep DEF Webhook, At, Crediting, Procs
  <1>8. ASSUME NEW w \in Workers, NEW g \in Grants, Grant(w, g)
        PROVE  Locked' /\ Held' /\ Settled' /\ Heard' /\ Ledger'
    <2>1. Others(w) /\ proc'[w].step = "insert"
      BY <1>8, BeginTypes DEF Grant, Begin, Others, Procs
    <2> QED
      BY <1>8, <2>1, QuietStep DEF Grant, At, Crediting, Procs
  <1> QED
    BY <1>1, <1>2, <1>3, <1>4, <1>5, <1>6, <1>7, <1>8

\* the steps that write a row, a counter or a lock
LEMMA StoreSteps ==
  ASSUME Inv, NEW w \in Procs,
         \/ Create(w) \/ CreatePayment(w) \/ SaveJob(w) \/ MarkPackageFailed(w)
         \/ ActivateUpdate(w) \/ ActivateCommit(w) \/ GrantInsert(w) \/ GrantCommit(w)
  PROVE  Locked' /\ Held' /\ Settled' /\ Heard' /\ Ledger'
  <1> USE DEF Inv
  <1> DEFINE k == proc[w].k
  <1>0. k \in Keys /\ ~At(w, "idle")
    BY InHand DEF Create, CreatePayment, SaveJob, MarkPackageFailed, ActivateUpdate,
                  ActivateCommit, GrantInsert, GrantCommit, At
  <1>1. CASE Create(w)
    <2>1. k \in Packages /\ ~Crediting(w) /\ ~At(w, "fail")
      BY <1>1, InHand DEF Create, Crediting, At
    <2>2. Others(w) /\ proc'[w].step = "checkout"
      BY <1>1, <1>0, MoveStep DEF Create, At
    <2>3. CASE row[k].status = "none"
      <3>1. row' = [row EXCEPT ![k].status = "pending"] /\ row[k] \in Row
        BY <1>0, <1>1, <2>3 DEF Create, Shape
      <3>2. row'[k].status = "pending" /\ \A j \in Keys \ {k} : row'[j] = row[j]
        BY <1>0, <3>1 DEF Shape, Row
      <3>3. lock[k] = Nobody
        BY <1>0, <2>1, <2>3, Taken, CreditsAssumption DEF CreditsAssumption
      <3>4. Held'
        BY <2>2, <3>2, <3>3, HeldStep DEF At
      <3>5. Locked' /\ Heard'
        BY <1>1, <2>1, <2>2, LockStep, HeardStep DEF Create, Crediting, At, gateway
      <3>6. Settled'
        BY <1>1 DEF Create, Settled, gateway
      <3>7. Ledger'
        BY <1>1, <2>1, <2>3, <3>2, CreditsAssumption
           DEF Create, Ledger, gateway, Keys, CreditsAssumption
      <3> QED
        BY <3>4, <3>5, <3>6, <3>7
    <2>4. CASE row[k].status # "none"
      BY <1>1, <2>1, <2>2, <2>4, QuietStep DEF Create, At, Crediting, store
    <2> QED
      BY <2>3, <2>4
  <1>2. CASE CreatePayment(w)
    <2>1. k \in Packages /\ ~Crediting(w)
      BY <1>2, InHand DEF CreatePayment, Crediting, At
    <2>2. Others(w) /\ proc'[w].step = "job"
      BY <1>2, <1>0, MoveStep DEF CreatePayment, At
    <2>3. /\ \A j \in Packages : core[j] # "none" => core'[j] = core[j]
          /\ \A j \in Packages : core[j] = "none" => core'[j] \in {"none", "open"}
      BY <1>2, <2>1 DEF CreatePayment, Shape
    <2>4. Locked'
      BY <1>2, <2>1, <2>2, LockStep DEF CreatePayment, Crediting, At
    <2>5. Held'
      BY <1>2, <2>2, HeldStep DEF CreatePayment, At, store
    <2>6. Settled' /\ Ledger'
      BY <1>2, <2>3 DEF CreatePayment, Settled, Ledger, store
    <2>7. \A v \in Procs : proc[v].step \in {"check", "update", "credit", "fail"} => proc[v].k \in Packages
      BY InHand DEF At
    <2>8. Heard'
      BY <2>2, <2>3, <2>7 DEF Heard, Others, At
    <2> QED
      BY <2>4, <2>5, <2>6, <2>8
  <1>3. CASE SaveJob(w)
    <2>1. ~Crediting(w) /\ k \in Packages
      BY <1>3, InHand DEF SaveJob, Crediting, At
    <2>2. Others(w) /\ proc'[w].step = "idle"
      BY <1>3, BeginTypes DEF SaveJob, Others, Idle
    <2>3. \A j \in Keys : row'[j].status = row[j].status
      <3>1. row[k] \in Row
        BY <1>0 DEF Shape
      <3> QED
        BY <1>0, <1>3, <3>1 DEF SaveJob, Shape, Row
    <2>4. Locked' /\ Held'
      BY <1>3, <2>1, <2>2, <2>3, LockStep, HeldStep DEF SaveJob, Crediting, At
    <2>5. Settled' /\ Heard'
      BY <1>3, <2>2, HeardStep DEF SaveJob, Settled, At, gateway
    <2>6. Ledger'
      BY <1>3, <2>3 DEF SaveJob, Ledger, gateway, Keys
    <2> QED
      BY <2>4, <2>5, <2>6
  <1>4. CASE MarkPackageFailed(w)
    <2>1. k \in Packages /\ ~Crediting(w) /\ (~LatePayment => core[k] \in {"overdue", "refunded"})
      BY <1>4, InHand DEF MarkPackageFailed, Crediting, At, Heard
    <2>2. Others(w) /\ ~Crediting(w)' /\ proc'[w].step \notin {"check", "update", "credit", "fail"}
      BY <1>4, AfterStep DEF MarkPackageFailed, At, Crediting
    <2>3. row'[k].status = "failed" /\ \A j \in Keys \ {k} : row'[j] = row[j]
      <3>1. row[k] \in Row
        BY <1>0 DEF Shape
      <3> QED
        BY <1>0, <1>4, <3>1 DEF MarkPackageFailed, Shape, Row
    <2>4. Locked' /\ Held'
      BY <1>4, <2>1, <2>2, <2>3, LockStep, HeldStep DEF MarkPackageFailed, Free, Crediting, At
    <2>5. Settled' /\ Heard'
      BY <1>4, <2>2, HeardStep DEF MarkPackageFailed, Settled, At, gateway
    <2>6. Ledger'
      BY <1>4, <2>1, <2>3, CreditsAssumption
         DEF MarkPackageFailed, Ledger, gateway, Keys, CreditsAssumption
    <2> QED
      BY <2>4, <2>5, <2>6
  <1>5. CASE ActivateUpdate(w)
    <2>1. k \in Packages /\ ~Crediting(w) /\ core[k] \in {"paid", "refunded"}
      BY <1>5, InHand DEF ActivateUpdate, Crediting, At, Heard
    <2>2. CASE After(w) /\ UNCHANGED lock
      BY <1>5, <2>1, <2>2, AfterStep, QuietStep DEF ActivateUpdate, At
    <2>3. CASE row[k].status = "pending" /\ lock' = [lock EXCEPT ![k] = w] /\ Move(w, "credit")
      <3>1. Others(w) /\ proc'[w].step = "credit" /\ proc'[w].k = k
        BY <1>0, <1>5, <2>3, MoveStep DEF ActivateUpdate, At
      <3>2. Locked'
        BY <1>0, <1>5, <2>1, <2>3, <3>1, LockStep DEF ActivateUpdate, Free, Crediting, At
      <3>3. Held' /\ Heard'
        BY <1>5, <2>1, <2>3, <3>1, HeldStep, HeardStep DEF ActivateUpdate, At, store, gateway
      <3>4. Settled' /\ Ledger'
        BY <1>5 DEF ActivateUpdate, Settled, Ledger, store, gateway
      <3> QED
        BY <3>2, <3>3, <3>4
    <2> QED
      BY <1>5, <2>2, <2>3 DEF ActivateUpdate
  <1>6. CASE ActivateCommit(w)
    <2>1. /\ k \in Packages /\ core[k] \in {"paid", "refunded"} /\ lock[k] = w
          /\ row[k].status = "pending" /\ credits[k] = 0
      BY <1>0, <1>6, InHand DEF ActivateCommit, At, Heard, Held, Locked, Crediting, Ledger
    <2>2. Others(w) /\ ~Crediting(w)' /\ proc'[w].step \notin {"check", "update", "credit", "fail"}
      BY <1>6, AfterStep DEF ActivateCommit, At, Crediting
    <2>3. row'[k].status = "paid" /\ \A j \in Keys \ {k} : row'[j] = row[j]
      <3>1. row[k] \in Row
        BY <1>0 DEF Shape
      <3> QED
        BY <1>0, <1>6, <3>1 DEF ActivateCommit, Shape, Row
    <2>4. credits'[k] = 1 /\ \A j \in Keys \ {k} : credits'[j] = credits[j]
      BY <1>0, <1>6, <2>1 DEF ActivateCommit, Shape
    <2>5. Locked' /\ Held'
      BY <1>6, <2>1, <2>2, <2>3, LockStep, HeldStep DEF ActivateCommit, Crediting, At
    <2>6. Settled' /\ Heard'
      BY <1>6, <2>2, HeardStep DEF ActivateCommit, Settled, At, gateway
    <2>7. Ledger'
      <3>1. core' = core /\ Ledger
        BY <1>6 DEF ActivateCommit, gateway
      <3>2. \A g \in Grants : g \in Keys \ {k}
        BY <2>1, CreditsAssumption DEF Keys, CreditsAssumption
      <3>3. Packages \subseteq Keys
        BY DEF Keys
      <3> HIDE DEF k, Inv
      <3> QED
        BY <2>1, <2>3, <2>4, <3>1, <3>2, <3>3 DEF Ledger
    <2> QED
      BY <2>5, <2>6, <2>7
  <1>7. CASE GrantInsert(w)
    <2>1. k \in Grants /\ ~Crediting(w)
      BY <1>7, InHand DEF GrantInsert, Crediting, At
    <2>2. CASE proc' = [proc EXCEPT ![w] = Idle] /\ UNCHANGED lock
      <3>1. Others(w) /\ proc'[w].step = "idle"
        BY <2>2, BeginTypes DEF Others, Idle
      <3> QED
        BY <1>7, <2>1, <2>2, <3>1, QuietStep DEF GrantInsert, At, Crediting
    <2>3. CASE row[k].status = "none" /\ lock' = [lock EXCEPT ![k] = w] /\ Move(w, "grant")
      <3>1. Others(w) /\ proc'[w].step = "grant" /\ proc'[w].k = k
        BY <1>0, <1>7, <2>3, MoveStep DEF GrantInsert, At
      <3>2. Locked'
        BY <1>0, <1>7, <2>1, <2>3, <3>1, LockStep DEF GrantInsert, Free, Crediting, At
      <3>3. Held' /\ Heard'
        BY <1>7, <2>3, <3>1, HeldStep, HeardStep DEF GrantInsert, At, store, gateway
      <3>4. Settled' /\ Ledger'
        BY <1>7 DEF GrantInsert, Settled, Ledger, store, gateway
      <3> QED
        BY <3>2, <3>3, <3>4
    <2> QED
      BY <1>7, <2>2, <2>3 DEF GrantInsert
  <1>8. CASE GrantCommit(w)
    <2>1. k \in Grants /\ lock[k] = w /\ row[k].status = "none" /\ credits[k] = 0
      BY <1>0, <1>8, InHand DEF GrantCommit, At, Held, Locked, Crediting, Ledger
    <2>2. Others(w) /\ proc'[w].step = "idle"
      BY <1>8, BeginTypes DEF GrantCommit, Others, Idle
    <2>3. row'[k].status = "paid" /\ \A j \in Keys \ {k} : row'[j] = row[j]
      <3>1. row[k] \in Row
        BY <1>0 DEF Shape
      <3> QED
        BY <1>0, <1>8, <3>1 DEF GrantCommit, Shape, Row
    <2>4. credits'[k] = 1 /\ \A j \in Keys \ {k} : credits'[j] = credits[j]
      BY <1>0, <1>8, <2>1 DEF GrantCommit, Shape
    <2>5. Locked' /\ Held'
      BY <1>8, <2>1, <2>2, <2>3, LockStep, HeldStep DEF GrantCommit, Crediting, At
    <2>6. Settled' /\ Heard'
      BY <1>8, <2>2, HeardStep DEF GrantCommit, Settled, At, gateway
    <2>7. Ledger'
      BY <1>8, <2>1, <2>3, <2>4, CreditsAssumption
         DEF GrantCommit, Ledger, gateway, Keys, CreditsAssumption
    <2> QED
      BY <2>5, <2>6, <2>7
  <1> QED
    BY <1>1, <1>2, <1>3, <1>4, <1>5, <1>6, <1>7, <1>8

LEMMA CheckoutStep ==
  ASSUME Inv, NEW w \in Workers, NEW k \in Packages, CheckoutStatus(w, k)
  PROVE  Locked' /\ Held' /\ Settled' /\ Heard' /\ Ledger'
  <1> USE DEF Inv
  <1>1. \A j \in Keys : row'[j].status = row[j].status
    <2>1. row[k] \in Row
      BY DEF Shape, Keys
    <2> QED
      BY <2>1 DEF CheckoutStatus, Shape, Row, Keys
  <1>2. \A v \in Procs : Crediting(v) => proc[v].k \in Keys
    BY InHand DEF Crediting, At
  <1>3. UNCHANGED <<credits, gateway, lock, proc>>
    BY DEF CheckoutStatus
  <1>4. Locked' /\ Held' /\ Settled' /\ Heard'
    BY <1>1, <1>2, <1>3 DEF Locked, Held, Settled, Heard, Crediting, At, gateway
  <1>5. Ledger'
    BY <1>1, <1>3 DEF Ledger, gateway, Keys
  <1> QED
    BY <1>4, <1>5

LEMMA InvStep == Inv /\ [Next]_vars => Inv'
  <1> SUFFICES ASSUME Inv, [Next]_vars PROVE Inv'
    OBVIOUS
  <1>1. Shape'
    BY ShapeStep DEF Inv
  <1>2. Locked' /\ Held' /\ Settled' /\ Heard' /\ Ledger'
    <2>1. CASE UNCHANGED vars
      BY <2>1 DEF Inv, vars, store, gateway, Locked, Held, Settled, Heard, Ledger, Crediting, At
    <2>2. ASSUME NEW w \in Procs, Handle(w) \/ Wait(w) \/ Error(w)
          PROVE  Locked' /\ Held' /\ Settled' /\ Heard' /\ Ledger'
      BY <2>2, QuietSteps, StoreSteps DEF Handle, Wait
    <2>3. CASE List \/ AskCore
      BY <2>3, QuietSteps
    <2>4. ASSUME NEW k \in Packages,
                 \/ PayAtCore(k) \/ OverdueAtCore(k) \/ RefundAtCore(k)
                 \/ \E w \in Workers : \/ Buy(w, k) \/ CheckoutStatus(w, k)
                                       \/ \E report \in Reports : Webhook(w, k, report)
          PROVE  Locked' /\ Held' /\ Settled' /\ Heard' /\ Ledger'
      BY <2>4, PaymentStep, QuietSteps, CheckoutStep
    <2>5. ASSUME NEW w \in Workers, NEW g \in Grants, Grant(w, g)
          PROVE  Locked' /\ Held' /\ Settled' /\ Heard' /\ Ledger'
      BY <2>5, QuietSteps
    <2> QED
      BY <2>1, <2>2, <2>3, <2>4, <2>5 DEF Next
  <1> QED
    BY <1>1, <1>2 DEF Inv

LEMMA InvInit == Init => Inv
  <1> SUFFICES ASSUME Init PROVE Inv
    OBVIOUS
  <1>1. Shape
    BY CreditsAssumption
       DEF Init, Shape, Row, Keys, Procs, Idle, CreditsAssumption
  <1>2. Locked /\ Held /\ Settled /\ Heard /\ Ledger
    BY DEF Init, Locked, Held, Settled, Heard, Ledger, Crediting, At, Idle, Keys
  <1> QED
    BY <1>1, <1>2 DEF Inv

-----------------------------------------------------------------------------
(* Theorems *)

\* In every state each variable has its type and a locked row has its request,
\* or the job, at work on it: no step of activate_package or grant_credits ends
\* with the row still locked.
THEOREM Typing == Spec => []TypeOK
  <1>1. Inv => TypeOK
    <2> SUFFICES ASSUME Inv PROVE TypeOK
      OBVIOUS
    <2>1. \A k \in Keys : lock[k] # Nobody => ~At(lock[k], "idle")
      BY DEF Inv, Locked, Crediting, At
    <2> QED
      BY <2>1 DEF Inv, Shape, TypeOK
  <1> QED
    BY <1>1, InvInit, InvStep, PTL DEF Spec

\* Where a payment that is overdue is not made any more, every package and every
\* grant is credited once or not at all, as its row and the Billing Core say,
\* however its webhooks, its client and the job of initiate_purchase,
\* activate_package and mark_package_failed overlap.
THEOREM Credited ==
  ASSUME ~LatePayment
  PROVE  Spec => []CreditedOnce
  <1>1. Inv => CreditedOnce
    <2> SUFFICES ASSUME Inv, NEW k \in Keys
                 PROVE  /\ credits[k] <= 1
                        /\ row[k].status = "paid" => credits[k] = 1
                        /\ row[k].status \in {"none", "pending"} => credits[k] = 0
                        /\ credits[k] > 0 => k \in Grants \/ core[k] \in {"paid", "refunded"}
                        /\ row[k].status = "failed" => core[k] \in {"overdue", "refunded"}
      BY DEF CreditedOnce
    <2> QED
      BY DEF Inv, Ledger, Keys
  <1> QED
    BY <1>1, InvInit, InvStep, PTL DEF Spec
=============================================================================
