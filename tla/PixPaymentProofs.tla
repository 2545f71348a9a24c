-------------------------- MODULE PixPaymentProofs --------------------------
(***************************************************************************)
(* What holds of PixPayment for any attempts, requests and jobs.  Several  *)
(* sessions verify one payment, each with an old copy of its row.  What    *)
(* keeps them from completing a sale twice is that a session saves with    *)
(* the row locked and the sale it read under that lock, and that the       *)
(* answers of the provider it acts on are final.  An operator's            *)
(* cancellation takes no lock: the theorems on goods and statuses assume   *)
(* it falls outside the verifications, of sales that are completed.        *)
(***************************************************************************)
EXTENDS PixPayment, TLAPS

-----------------------------------------------------------------------------
(* The invariant *)

Statuses == {"none", "pending", "approved", "divergent", "expired", "canceled"}
SaleStatuses == {"none", "aguardando_pagamento", "concluida", "cancelada"}
Charges == Final \cup {"none", "created"}
Ops == {"verify", "cancel", "webhook", "reconcile", "expire"}

Creating == [step : {"create"}, a : Attempts, op : {"create"}]
Reading ==
  [step : {"lock", "token", "consult", "mark"}, a : Attempts, op : Ops,
   copy : Statuses \cup {"unread"}]
Answered ==
  [step : {"cancel", "flush"}, a : Attempts, op : Ops, copy : Statuses \cup {"unread"},
   answer : Charges]
Saving ==
  [step : {"save", "mark"}, a : Attempts, op : Ops, copy : Statuses \cup {"unread"},
   answer : Charges, sale : SaleStatuses]
AtWork == Creating \cup Reading \cup Answered \cup Saving

\* a job verifies, and what it has listed was pending
AsJob(r) == r.step \notin {"create", "mark"} /\ r.op \notin {"cancel", "webhook"}
              /\ (r.step = "lock" => r.copy = "pending")

Shape ==
  /\ charge \in [Attempts -> Charges] /\ shown \subseteq Attempts
  /\ attempt \in [Attempts -> Statuses]
  /\ created \in Seq(Attempts)
  /\ sale \in [Attempts -> SaleStatuses]
  /\ taken \in [Attempts -> Int] /\ payments \in [Attempts -> Nat]
  /\ event \in [Attempts -> {"none", "received", "processed", "failed"}]
  /\ lock \in [Attempts -> Procs \cup {Nobody}]
  /\ proc \in [Procs -> {Idle} \cup AtWork]
  /\ \A j \in Jobs : At(j, "idle") \/ AsJob(proc[j])
  /\ queue \in [Jobs -> SUBSET Attempts]
  /\ requests \in 0 .. MaxRequests /\ failures \in 0 .. MaxFailures

\* who may have a row locked: a session that verifies; a job that failed also
\* as it comes to its next attempt
Verifying(w) == proc[w].step \in {"token", "consult", "cancel", "flush", "save"}
Locked ==
  \A a \in Attempts :
    lock[a] # Nobody => Verifying(lock[a]) \/ (lock[a] \in Jobs /\ At(lock[a], "lock"))

Typed == Shape /\ Locked

-----------------------------------------------------------------------------
(* What a session has in hand, and where a step leaves it *)

LEMMA InHand ==
  ASSUME Shape, NEW w \in Procs, ~At(w, "idle")
  PROVE  /\ proc[w] \in AtWork /\ proc[w].a \in Attempts /\ "a" \in DOMAIN proc[w]
         /\ At(w, "create") => proc[w] \in Creating
         /\ proc[w].step \in {"lock", "token", "consult"} => proc[w] \in Reading
         /\ proc[w].step \in {"cancel", "flush"} => proc[w] \in Answered
         /\ At(w, "save") => proc[w] \in Saving
         /\ At(w, "mark") => proc[w] \in Reading \cup Saving
         /\ w \in Jobs => AsJob(proc[w])
  <1>1. proc[w] \in AtWork
    BY DEF Shape, At, Idle
  <1>2. CASE proc[w] \in Creating
    BY <1>1, <1>2 DEF Creating, Shape, At
  <1>3. CASE proc[w] \in Reading
    BY <1>1, <1>3 DEF Reading, Shape, At
  <1>4. CASE proc[w] \in Answered
    BY <1>1, <1>4 DEF Answered, Shape, At
  <1>5. CASE proc[w] \in Saving
    BY <1>1, <1>5 DEF Saving, Shape, At
  <1> QED
    BY <1>1, <1>2, <1>3, <1>4, <1>5 DEF AtWork

\* a step of w: the others stay where they are, and w is somewhere it may be
Others(w) == DOMAIN proc' = Procs /\ \A v \in Procs \ {w} : proc'[v] = proc[v]

LEMMA ProcTypes ==
  ASSUME Shape, NEW w \in Procs, NEW r \in {Idle} \cup AtWork, proc' = [proc EXCEPT ![w] = r],
         w \in Jobs => r.step = "idle" \/ AsJob(r)
  PROVE  /\ proc' \in [Procs -> {Idle} \cup AtWork] /\ Others(w) /\ proc'[w] = r
         /\ \A j \in Jobs : At(j, "idle")' \/ AsJob(proc'[j])
  BY DEF Shape, Others, At, Procs, AsJob

\* the rest of a record is kept when its step changes
LEMMA MoveTypes ==
  ASSUME Shape, NEW w \in Procs, NEW step, Move(w, step),
         \/ At(w, "token") /\ step = "consult"
         \/ (At(w, "lock") \/ At(w, "save")) /\ step = "mark" /\ w \notin Jobs
  PROVE  /\ proc' \in [Procs -> {Idle} \cup AtWork] /\ Others(w)
         /\ \A j \in Jobs : At(j, "idle")' \/ AsJob(proc'[j])
         /\ proc'[w].step = step /\ proc'[w].a = proc[w].a /\ proc'[w].op = proc[w].op
         /\ proc'[w].copy = proc[w].copy
  <1> DEFINE r == proc[w]
             r2 == [proc[w] EXCEPT !.step = step]
  <1>1. proc' = [proc EXCEPT ![w] = r2]
    BY DEF Move, Shape
  <1>2. CASE At(w, "token") \/ At(w, "lock")
    <2>1. r \in Reading /\ (w \in Jobs => AsJob(r))
      BY <1>2, InHand DEF At
    <2>2. /\ r2 \in Reading /\ r2.step = step /\ r2.a = r.a /\ r2.op = r.op /\ r2.copy = r.copy
          /\ w \in Jobs => AsJob(r2)
      BY <1>2, <2>1 DEF Reading, AsJob, At
    <2> HIDE DEF r2
    <2> QED
      BY <1>1, <2>2, ProcTypes DEF AtWork
  <1>3. CASE At(w, "save")
    <2>1. r \in Saving
      BY <1>3, InHand DEF At
    <2>2. r2 \in Saving /\ r2.step = step /\ r2.a = r.a /\ r2.op = r.op /\ r2.copy = r.copy
      BY <1>3, <2>1 DEF Saving, At
    <2>3. w \notin Jobs
      BY <1>3 DEF At
    <2> HIDE DEF r2
    <2> QED
      BY <1>1, <2>2, <2>3, ProcTypes DEF AtWork
  <1> QED
    BY <1>2, <1>3

\* the next attempt of a job
LEMMA TakeTypes ==
  ASSUME Shape, NEW j \in Jobs, NEW list \in SUBSET Attempts, Take(j, list)
  PROVE  /\ proc' \in [Procs -> {Idle} \cup AtWork] /\ Others(j)
         /\ \A i \in Jobs : At(i, "idle")' \/ AsJob(proc'[i])
         /\ queue' \in [Jobs -> SUBSET Attempts]
         /\ proc'[j].step = "lock" /\ proc'[j].copy = "pending"
         /\ \E a \in list : proc'[j].a = a /\ queue'[j] = list \ {a}
         /\ \A i \in Jobs \ {j} : queue'[i] = queue[i]
  <1>1. PICK a \in list : Begin(j, a, j, "pending") /\ queue' = [queue EXCEPT ![j] = list \ {a}]
    BY DEF Take
  <1> DEFINE r == [step |-> "lock", a |-> a, op |-> j, copy |-> "pending"]
  <1>2. j \in {"reconcile", "expire"} /\ j \in Procs
    BY PixAssumption DEF PixAssumption, Procs
  <1>3. r \in AtWork /\ AsJob(r)
    BY <1>2 DEF AtWork, Reading, Ops, Statuses, AsJob
  <1>4. proc' = [proc EXCEPT ![j] = r]
    BY <1>1 DEF Begin
  <1>5. queue' \in [Jobs -> SUBSET Attempts] /\ queue'[j] = list \ {a}
          /\ \A i \in Jobs \ {j} : queue'[i] = queue[i]
    BY <1>1 DEF Shape
  <1>6. r.step = "lock" /\ r.copy = "pending" /\ r.a = a
    OBVIOUS
  <1> HIDE DEF r
  <1> QED
    BY <1>2, <1>3, <1>4, <1>5, <1>6, ProcTypes

\* the end of a request, or of a job's attempt
LEMMA FinishTypes ==
  ASSUME Shape, NEW w \in Procs, Finish(w)
  PROVE  /\ proc' \in [Procs -> {Idle} \cup AtWork] /\ Others(w)
         /\ \A j \in Jobs : At(j, "idle")' \/ AsJob(proc'[j])
         /\ queue' \in [Jobs -> SUBSET Attempts]
         /\ Closes(w) => proc'[w] = Idle /\ queue' = queue
         /\ ~Closes(w) => w \in Jobs /\ proc'[w].step = "lock" /\ proc'[w].copy = "pending"
         /\ ~Closes(w) => \E a \in queue[w] : proc'[w].a = a /\ queue'[w] = queue[w] \ {a}
         /\ \A i \in Jobs \ {w} : queue'[i] = queue[i]
  <1>1. CASE Closes(w)
    <2>1. proc' = [proc EXCEPT ![w] = Idle] /\ queue' = queue
      BY <1>1 DEF Finish
    <2> QED
      BY <1>1, <2>1, ProcTypes DEF Idle, Shape
  <1>2. CASE ~Closes(w)
    <2>1. w \in Jobs /\ queue[w] \in SUBSET Attempts /\ Take(w, queue[w])
      BY <1>2 DEF Closes, Finish, Shape
    <2> QED
      BY <1>2, <2>1, TakeTypes
  <1> QED
    BY <1>1, <1>2

\* locks go with their session
LEMMA ReleaseTypes ==
  ASSUME Shape, NEW w \in Procs, Release(w)
  PROVE  /\ lock' \in [Attempts -> Procs \cup {Nobody}]
         /\ \A a \in Attempts : lock'[a] # w /\ lock'[a] \in {lock[a], Nobody}
         /\ \A a \in Attempts : lock[a] # w => lock'[a] = lock[a]
  BY PixAssumption DEF Shape, Release, PixAssumption, Procs

\* w may have a lock only where a session may
LEMMA LockedStep ==
  ASSUME Typed, NEW w \in Procs, Others(w),
         \A a \in Attempts : lock'[a] # Nobody => lock'[a] \in {lock[a], w},
         \/ Verifying(w)' \/ (w \in Jobs /\ At(w, "lock")')
         \/ \A a \in Attempts : lock'[a] # w
  PROVE  Locked'
  <1>1. \A v \in Procs \ {w} : (Verifying(v)' <=> Verifying(v)) /\ (At(v, "lock")' <=> At(v, "lock"))
    BY DEF Others, Verifying, At
  <1>2. \A a \in Attempts : lock[a] \in Procs \cup {Nobody}
    BY DEF Typed, Shape
  <1> QED
    BY <1>1, <1>2 DEF Typed, Locked

\* who is not at work on a row has none
LEMMA NoLock ==
  ASSUME Typed, NEW w \in Procs, ~Verifying(w), w \in Workers \/ ~At(w, "lock")
  PROVE  \A a \in Attempts : lock[a] # w
  BY PixAssumption DEF Typed, Locked, PixAssumption, Procs

-----------------------------------------------------------------------------
(* Types and locks, step by step *)

LEMMA CallTypes ==
  ASSUME Typed, NEW w \in Workers, NEW r \in AtWork, At(w, "idle"),
         proc' = [proc EXCEPT ![w] = r], lock' = lock, Ask
  PROVE  /\ proc' \in [Procs -> {Idle} \cup AtWork] /\ Others(w) /\ proc'[w] = r
         /\ \A j \in Jobs : At(j, "idle")' \/ AsJob(proc'[j])
         /\ Locked' /\ requests' \in 0 .. MaxRequests
  <1>1. w \in Procs /\ w \notin Jobs
    BY PixAssumption DEF Procs, PixAssumption
  <1>2. /\ proc' \in [Procs -> {Idle} \cup AtWork] /\ Others(w) /\ proc'[w] = r
        /\ \A j \in Jobs : At(j, "idle")' \/ AsJob(proc'[j])
    BY <1>1, ProcTypes DEF Typed
  <1>3. Locked'
    BY <1>1, <1>2, NoLock, LockedStep DEF Verifying, At
  <1>4. requests' \in 0 .. MaxRequests
    BY PixAssumption DEF Ask, Typed, Shape, PixAssumption
  <1> QED
    BY <1>2, <1>3, <1>4

\* an exception leaves a job its locks, and the next attempt
LEMMA RaisedTypes ==
  ASSUME Typed, NEW w \in Procs, Raised(w), proc[w].step \in {"token", "consult", "cancel", "flush", "save"}
  PROVE  /\ proc' \in [Procs -> {Idle} \cup AtWork] /\ Others(w)
         /\ \A j \in Jobs : At(j, "idle")' \/ AsJob(proc'[j])
         /\ queue' \in [Jobs -> SUBSET Attempts]
         /\ lock' \in [Attempts -> Procs \cup {Nobody}] /\ Locked'
         /\ event' \in [Attempts -> {"none", "received", "processed", "failed"}]
         /\ proc'[w] = Idle \/ (w \in Jobs /\ proc'[w].step = "lock")
  <1>1. Shape /\ Finish(w)
    BY DEF Typed, Raised
  <1>2. proc[w].a \in Attempts
    BY <1>1, InHand DEF At
  <1>3. event' \in [Attempts -> {"none", "received", "processed", "failed"}]
    BY <1>1, <1>2 DEF Raised, Shape
  <1>4. CASE Closes(w)
    <2>1. Release(w)
      BY <1>4 DEF Raised
    <2> QED
      BY <1>1, <1>3, <1>4, <2>1, FinishTypes, ReleaseTypes, LockedStep
  <1>5. CASE ~Closes(w)
    <2>1. lock' = lock
      BY <1>5 DEF Raised
    <2>2. Others(w) /\ w \in Jobs /\ At(w, "lock")'
      BY <1>1, <1>5, FinishTypes DEF At
    <2>3. Locked'
      BY <2>1, <2>2, LockedStep
    <2> QED
      BY <1>1, <1>3, <1>5, <2>1, <2>3, FinishTypes DEF Shape
  <1> QED
    BY <1>4, <1>5

LEMMA TypedStep == Typed /\ [Next]_vars => Typed'
  <1> SUFFICES ASSUME Typed, [Next]_vars PROVE Typed'
    OBVIOUS
  <1> USE DEF rows, provider, bounds
  <1>0. Shape /\ Locked
    BY DEF Typed
  <1>1. CASE UNCHANGED vars
    BY <1>1 DEF Typed, Shape, Locked, vars, Verifying, At
  <1>2. ASSUME NEW w \in Workers, NEW a \in Attempts, CreateCharge(w, a) PROVE Typed'
    <2>1. [step |-> "create", a |-> a, op |-> "create"] \in AtWork
      BY DEF AtWork, Creating
    <2>2. charge' \in [Attempts -> Charges]
      BY <1>0, <1>2 DEF CreateCharge, Shape, Charges
    <2>3. /\ proc' \in [Procs -> {Idle} \cup AtWork] /\ Locked' /\ requests' \in 0 .. MaxRequests
          /\ \A j \in Jobs : At(j, "idle")' \/ AsJob(proc'[j])
      BY <1>2, <2>1, CallTypes DEF CreateCharge
    <2> QED
      BY <1>0, <1>2, <2>2, <2>3 DEF CreateCharge, Typed, Shape
  <1>3. ASSUME NEW w \in Procs, CreateCommit(w) PROVE Typed'
    <2>1. proc[w].a \in Attempts /\ w \notin Jobs
      BY <1>0, <1>3, InHand DEF CreateCommit, At, AsJob
    <2>2. Closes(w)
      BY <2>1 DEF Closes
    <2>3. attempt' \in [Attempts -> Statuses] /\ sale' \in [Attempts -> SaleStatuses]
      BY <1>0, <1>3, <2>1 DEF CreateCommit, Shape, Statuses, SaleStatuses
    <2>4. created' \in Seq(Attempts)
      <3>1. created \in Seq(Attempts) /\ created' = Append(created, proc[w].a)
        BY <1>0, <1>3 DEF CreateCommit, Shape
      <3> QED
        BY <2>1, <3>1
    <2>5. shown' \subseteq Attempts
      BY <1>0, <1>3, <2>1 DEF CreateCommit, Shape
    <2>6. /\ proc' \in [Procs -> {Idle} \cup AtWork] /\ Others(w) /\ queue' = queue
          /\ \A j \in Jobs : At(j, "idle")' \/ AsJob(proc'[j])
      BY <1>0, <1>3, <2>2, FinishTypes DEF CreateCommit
    <2>7. Locked'
      BY <1>3, <2>1, <2>6, NoLock, LockedStep DEF CreateCommit, Verifying, At
    <2> QED
      BY <1>0, <1>3, <2>3, <2>4, <2>5, <2>6, <2>7 DEF CreateCommit, Typed, Shape
  <1>4. ASSUME NEW a \in Attempts, Outcome(a) PROVE Typed'
    <2>1. PICK outcome \in {"processed", "other", "expired"} :
            charge' = [charge EXCEPT ![a] = outcome]
      BY <1>4 DEF Outcome
    <2>2. charge' \in [Attempts -> Charges]
      BY <1>0, <2>1 DEF Shape, Charges, Final
    <2> QED
      BY <1>0, <1>4, <2>2 DEF Outcome, Typed, Shape, Locked, Verifying, At
  <1>5. ASSUME NEW w \in Workers, NEW a \in Attempts, NEW op \in {"verify", "cancel"}, Press(w, a, op)
        PROVE  Typed'
    <2>1. [step |-> "lock", a |-> a, op |-> op, copy |-> "unread"] \in AtWork
      BY DEF AtWork, Reading, Ops
    <2>2. /\ proc' \in [Procs -> {Idle} \cup AtWork] /\ Locked' /\ requests' \in 0 .. MaxRequests
          /\ \A j \in Jobs : At(j, "idle")' \/ AsJob(proc'[j])
      BY <1>5, <2>1, CallTypes DEF Press, Begin
    <2> QED
      BY <1>0, <1>5, <2>2 DEF Press, Typed, Shape
  <1>6. ASSUME NEW w \in Workers, NEW a \in Attempts, Webhook(w, a) PROVE Typed'
    <2>1. [step |-> "lock", a |-> a, op |-> "webhook", copy |-> attempt[a]] \in AtWork
      BY <1>0 DEF AtWork, Reading, Ops, Shape
    <2>2. /\ proc' \in [Procs -> {Idle} \cup AtWork] /\ Locked' /\ requests' \in 0 .. MaxRequests
          /\ \A j \in Jobs : At(j, "idle")' \/ AsJob(proc'[j])
      BY <1>6, <2>1, CallTypes DEF Webhook, Begin
    <2>3. event' \in [Attempts -> {"none", "received", "processed", "failed"}]
      BY <1>0, <1>6 DEF Webhook, Shape
    <2> QED
      BY <1>0, <1>6, <2>2, <2>3 DEF Webhook, Typed, Shape
  <1>7. ASSUME NEW w \in Workers, NEW a \in Attempts, WebhookDrop(w, a) PROVE Typed'
    <2>1. event' \in [Attempts -> {"none", "received", "processed", "failed"}]
      BY <1>0, <1>7 DEF WebhookDrop, Shape
    <2>2. requests' \in 0 .. MaxRequests
      BY <1>0, <1>7, PixAssumption DEF WebhookDrop, Ask, Shape, PixAssumption
    <2> QED
      BY <1>0, <1>7, <2>1, <2>2 DEF WebhookDrop, Typed, Shape, Locked, Verifying, At
  <1>8. ASSUME NEW j \in Jobs, List(j) PROVE Typed'
    <2>1. PICK due \in SUBSET Attempts : Take(j, Batch({a \in due : Active(a)}))
      BY <1>8 DEF List
    <2>2. Batch({a \in due : Active(a)}) \in SUBSET Attempts
      BY DEF Batch
    <2>3. /\ proc' \in [Procs -> {Idle} \cup AtWork] /\ Others(j) /\ At(j, "lock")'
          /\ \A i \in Jobs : At(i, "idle")' \/ AsJob(proc'[i])
          /\ queue' \in [Jobs -> SUBSET Attempts]
      BY <1>0, <2>1, <2>2, TakeTypes DEF At
    <2>4. Locked'
      BY <1>8, <2>3, LockedStep DEF List, Procs
    <2> QED
      BY <1>0, <1>8, <2>3, <2>4 DEF List, Typed, Shape
  <1>9. ASSUME NEW w \in Procs, Lock(w) PROVE Typed'
    <2> DEFINE r == proc[w]
               copy == IF r.copy = "unread" THEN attempt[r.a] ELSE r.copy
    <2>1. r \in Reading /\ r.step = "lock" /\ r.a \in Attempts
      BY <1>0, <1>9, InHand DEF Lock, At
    <2>2. copy \in Statuses
      BY <1>0, <2>1 DEF Reading, Shape
    <2>3. CASE copy \in Settled(r.op)
      <3>1. w \notin Jobs /\ lock' = lock
        BY <1>0, <1>9, <2>3, InHand DEF Lock, At, AsJob, Settled
      <3>2. /\ proc' \in [Procs -> {Idle} \cup AtWork] /\ Others(w)
            /\ \A j \in Jobs : At(j, "idle")' \/ AsJob(proc'[j])
        <4>1. CASE Move(w, "mark")
          BY <1>0, <1>9, <3>1, <4>1, MoveTypes DEF Lock
        <4>2. CASE proc' = [proc EXCEPT ![w] = Idle]
          BY <1>0, <3>1, <4>2, ProcTypes
        <4> QED
          BY <1>9, <2>3, <4>1, <4>2 DEF Lock
      <3>3. Locked'
        BY <1>9, <3>1, <3>2, NoLock, LockedStep DEF Lock, Verifying, At, Procs
      <3> QED
        BY <1>0, <1>9, <3>1, <3>2, <3>3 DEF Lock, Typed, Shape
    <2>4. CASE copy \notin Settled(r.op)
      <3> DEFINE r2 == [r EXCEPT !.step = "token", !.copy = copy]
      <3>1. proc' = [proc EXCEPT ![w] = r2] /\ lock' = [lock EXCEPT ![r.a] = w]
        BY <1>0, <1>9, <2>4 DEF Lock, Shape
      <3>2. r2 \in Reading /\ r2.step = "token" /\ (w \in Jobs => AsJob(r2))
        BY <1>0, <1>9, <2>1, <2>2, InHand DEF Reading, AsJob, At, Lock
      <3> HIDE DEF r2
      <3>3. /\ proc' \in [Procs -> {Idle} \cup AtWork] /\ Others(w) /\ Verifying(w)'
            /\ \A j \in Jobs : At(j, "idle")' \/ AsJob(proc'[j])
        BY <1>0, <3>1, <3>2, ProcTypes DEF AtWork, Verifying
      <3>4. lock' \in [Attempts -> Procs \cup {Nobody}]
              /\ \A a \in Attempts : lock'[a] \in {lock[a], w}
        BY <1>0, <2>1, <3>1 DEF Shape
      <3>5. Locked'
        BY <3>3, <3>4, LockedStep
      <3> QED
        BY <1>0, <1>9, <3>3, <3>4, <3>5 DEF Lock, Typed, Shape
    <2> QED
      BY <2>3, <2>4
  <1>10. ASSUME NEW w \in Procs, Renew(w) PROVE Typed'
    <2>1. /\ proc' \in [Procs -> {Idle} \cup AtWork] /\ Others(w)
          /\ \A j \in Jobs : At(j, "idle")' \/ AsJob(proc'[j])
      BY <1>0, <1>10, MoveTypes DEF Renew
    <2>2. Locked' /\ lock' \in [Attempts -> Procs \cup {Nobody}]
      BY <1>0, <1>10, <2>1, ReleaseTypes, LockedStep DEF Renew
    <2> QED
      BY <1>0, <1>10, <2>1, <2>2 DEF Renew, Typed, Shape
  <1>11. ASSUME NEW w \in Procs, Consult(w) PROVE Typed'
    <2> DEFINE r == proc[w]
               r2 == [step |-> IF r.op = "cancel" /\ charge[r.a] # "processed" THEN "cancel" ELSE "flush",
                      a |-> r.a, op |-> r.op, copy |-> r.copy, answer |-> charge[r.a]]
    <2>1. r \in Reading /\ r.a \in Attempts /\ (w \in Jobs => AsJob(r))
      BY <1>0, <1>11, InHand DEF Consult, At
    <2>2. proc' = [proc EXCEPT ![w] = r2] /\ lock' = lock
      BY <1>11 DEF Consult
    <2>3. r2 \in Answered /\ r2.step \in {"cancel", "flush"} /\ (w \in Jobs => AsJob(r2))
      BY <1>0, <2>1 DEF Reading, Answered, AsJob, Shape
    <2> HIDE DEF r2
    <2>4. /\ proc' \in [Procs -> {Idle} \cup AtWork] /\ Others(w) /\ Verifying(w)'
          /\ \A j \in Jobs : At(j, "idle")' \/ AsJob(proc'[j])
      BY <1>0, <2>2, <2>3, ProcTypes DEF AtWork, Verifying
    <2>5. Locked'
      BY <2>2, <2>4, LockedStep
    <2> QED
      BY <1>0, <1>11, <2>4, <2>5 DEF Consult, Typed, Shape
  <1>12. ASSUME NEW w \in Procs, CancelCharge(w) PROVE Typed'
    <2> DEFINE r == proc[w]
               r2 == [r EXCEPT !.step = "flush", !.answer = "canceled"]
    <2>1. r \in Answered /\ r.a \in Attempts /\ (w \in Jobs => AsJob(r))
      BY <1>0, <1>12, InHand DEF CancelCharge, At
    <2>2. proc' = [proc EXCEPT ![w] = r2] /\ lock' = lock
      BY <1>0, <1>12 DEF CancelCharge, Shape
    <2>3. r2 \in Answered /\ r2.step = "flush" /\ (w \in Jobs => AsJob(r2))
      BY <2>1 DEF Answered, AsJob, Charges, Final
    <2> HIDE DEF r2
    <2>4. /\ proc' \in [Procs -> {Idle} \cup AtWork] /\ Others(w) /\ Verifying(w)'
          /\ \A j \in Jobs : At(j, "idle")' \/ AsJob(proc'[j])
      BY <1>0, <2>2, <2>3, ProcTypes DEF AtWork, Verifying
    <2>5. Locked'
      BY <2>2, <2>4, LockedStep
    <2>6. charge' \in [Attempts -> Charges]
      BY <1>0, <1>12 DEF CancelCharge, Shape, Charges, Final
    <2> QED
      BY <1>0, <1>12, <2>4, <2>5, <2>6 DEF CancelCharge, Typed, Shape
  <1>13. ASSUME NEW w \in Procs, Flush(w) PROVE Typed'
    <2> DEFINE r == proc[w]
               r2 == [step |-> "save", a |-> r.a, op |-> r.op, copy |-> r.copy,
                      answer |-> r.answer, sale |-> sale[r.a]]
    <2>1. r \in Answered /\ r.a \in Attempts /\ (w \in Jobs => AsJob(r))
      BY <1>0, <1>13, InHand DEF Flush, At
    <2>2. proc' = [proc EXCEPT ![w] = r2] /\ lock' = [lock EXCEPT ![r.a] = w]
      BY <1>13 DEF Flush
    <2>3. r2 \in Saving /\ r2.step = "save" /\ (w \in Jobs => AsJob(r2))
      BY <1>0, <2>1 DEF Answered, Saving, AsJob, Shape
    <2> HIDE DEF r2
    <2>4. /\ proc' \in [Procs -> {Idle} \cup AtWork] /\ Others(w) /\ Verifying(w)'
          /\ \A j \in Jobs : At(j, "idle")' \/ AsJob(proc'[j])
      BY <1>0, <2>2, <2>3, ProcTypes DEF AtWork, Verifying
    <2>5. lock' \in [Attempts -> Procs \cup {Nobody}]
            /\ \A a \in Attempts : lock'[a] \in {lock[a], w}
      BY <1>0, <2>1, <2>2 DEF Shape
    <2>6. Locked'
      BY <2>4, <2>5, LockedStep
    <2> QED
      BY <1>0, <1>13, <2>4, <2>5, <2>6 DEF Flush, Typed, Shape
  <1>14. ASSUME NEW w \in Procs, Save(w) PROVE Typed'
    <2> DEFINE r == proc[w]
    <2>1. r \in Saving /\ r.a \in Attempts /\ (w \in Jobs => AsJob(r))
      BY <1>0, <1>14, InHand DEF Save, At
    <2>2. attempt' \in [Attempts -> Statuses]
      <3>1. NewStatus(r) = r.copy \/ NewStatus(r) \in Statuses
        BY DEF NewStatus, Statuses
      <3> QED
        BY <1>0, <1>14, <2>1, <3>1 DEF Save, Shape
    <2>3. /\ sale' \in [Attempts -> SaleStatuses]
          /\ taken' \in [Attempts -> Int] /\ payments' \in [Attempts -> Nat]
      BY <1>0, <1>14, <2>1 DEF Save, Shape, SaleStatuses
    <2>4. /\ proc' \in [Procs -> {Idle} \cup AtWork] /\ Others(w)
          /\ \A j \in Jobs : At(j, "idle")' \/ AsJob(proc'[j])
          /\ queue' \in [Jobs -> SUBSET Attempts]
      <3>1. CASE r.op = "webhook"
        BY <1>0, <1>14, <2>1, <3>1, MoveTypes DEF Save, AsJob, Shape
      <3>2. CASE r.op # "webhook"
        BY <1>0, <1>14, <3>2, FinishTypes DEF Save
      <3> QED
        BY <3>1, <3>2
    <2>5. Locked' /\ lock' \in [Attempts -> Procs \cup {Nobody}]
      BY <1>0, <1>14, <2>4, ReleaseTypes, LockedStep DEF Save
    <2> QED
      BY <1>0, <1>14, <2>2, <2>3, <2>4, <2>5 DEF Save, Typed, Shape
  <1>15. ASSUME NEW w \in Procs, Mark(w) PROVE Typed'
    <2>1. proc[w].a \in Attempts /\ w \notin Jobs
      BY <1>0, <1>15, InHand DEF Mark, At, AsJob
    <2>2. event' \in [Attempts -> {"none", "received", "processed", "failed"}]
      BY <1>0, <1>15, <2>1 DEF Mark, Shape
    <2>3. /\ proc' \in [Procs -> {Idle} \cup AtWork] /\ Others(w) /\ queue' = queue
          /\ \A j \in Jobs : At(j, "idle")' \/ AsJob(proc'[j])
      BY <1>0, <1>15, <2>1, FinishTypes DEF Mark, Closes
    <2>4. Locked'
      BY <1>15, <2>3, NoLock, LockedStep DEF Mark, Verifying, At
    <2> QED
      BY <1>0, <1>15, <2>2, <2>3, <2>4 DEF Mark, Typed, Shape
  <1>16. ASSUME NEW w \in Procs, NoToken(w) \/ CancelRefused(w) PROVE Typed'
    <2>1. Raised(w) /\ proc[w].step \in {"token", "cancel"} /\ UNCHANGED <<charge, failures>>
      BY <1>16 DEF NoToken, CancelRefused, At
    <2> QED
      BY <1>0, <2>1, RaisedTypes DEF Raised, Typed, Shape
  <1>17. ASSUME NEW w \in Procs, Error(w) PROVE Typed'
    <2>1. Raised(w) /\ proc[w].step \in {"token", "consult", "cancel", "flush", "save"}
      BY <1>17 DEF Error, At
    <2>2. failures' \in 0 .. MaxFailures
      BY <1>0, <1>17, PixAssumption DEF Error, Fail, Shape, PixAssumption
    <2>3. charge' \in [Attempts -> Charges]
      BY <1>0, <1>17 DEF Error, Shape, Charges, Final
    <2> QED
      BY <1>0, <2>1, <2>2, <2>3, RaisedTypes DEF Raised, Typed, Shape
  <1>18. ASSUME NEW w \in Procs, Crash(w) PROVE Typed'
    <2>1. proc' = [proc EXCEPT ![w] = Idle]
      BY <1>18 DEF Crash
    <2>2. /\ proc' \in [Procs -> {Idle} \cup AtWork] /\ Others(w)
          /\ \A j \in Jobs : At(j, "idle")' \/ AsJob(proc'[j])
      BY <1>0, <2>1, ProcTypes DEF Idle
    <2>3. Locked' /\ lock' \in [Attempts -> Procs \cup {Nobody}]
      BY <1>0, <1>18, <2>2, ReleaseTypes, LockedStep DEF Crash
    <2>4. failures' \in 0 .. MaxFailures
      BY <1>0, <1>18, PixAssumption DEF Crash, Fail, Shape, PixAssumption
    <2>5. queue' \in [Jobs -> SUBSET Attempts]
      BY <1>0, <1>18 DEF Crash, Shape
    <2> QED
      BY <1>0, <1>18, <2>2, <2>3, <2>4, <2>5 DEF Crash, Typed, Shape
  <1>19. ASSUME NEW a \in Attempts, CancelSale(a) PROVE Typed'
    <2>1. sale' \in [Attempts -> SaleStatuses] /\ taken' \in [Attempts -> Int]
      BY <1>0, <1>19 DEF CancelSale, Shape, SaleStatuses
    <2>2. requests' \in 0 .. MaxRequests
      BY <1>0, <1>19, PixAssumption DEF CancelSale, Ask, Shape, PixAssumption
    <2> QED
      BY <1>0, <1>19, <2>1, <2>2 DEF CancelSale, Typed, Shape, Locked, Verifying, At
  <1> QED
    BY <1>1, <1>2, <1>3, <1>4, <1>5, <1>6, <1>7, <1>8, <1>9, <1>10, <1>11, <1>12, <1>13, <1>14,
       <1>15, <1>16, <1>17, <1>18, <1>19 DEF Next, Handle

-----------------------------------------------------------------------------
(* Goods, statuses and answers *)

\* what is assumed of the operator
Tame == ~Overlap /\ CancelFrom \subseteq {"concluida"}

\* a charge has one maker of its rows, and none once they are there
Making(w) ==
  At(w, "create") => charge[proc[w].a] # "none" /\ attempt[proc[w].a] = "none"
OneMaker ==
  \A v, w \in Procs : At(v, "create") /\ At(w, "create") /\ proc[v].a = proc[w].a => v = w

\* a final answer is what the charge is for good; a cancellation is saved only
\* of a charge that was paid or canceled
Answers(w) ==
  /\ proc[w].step \in {"cancel", "flush", "save"} /\ proc[w].answer \in Final =>
       charge[proc[w].a] = proc[w].answer
  /\ proc[w].step \in {"flush", "save"} /\ proc[w].op = "cancel" =>
       proc[w].answer \in {"processed", "canceled"}

\* whoever verifies works on a row that is there and has not seen it approved;
\* whoever saves has it locked and the sale as it is
Copies(w) ==
  /\ At(w, "lock") \/ Verifying(w) => attempt[proc[w].a] # "none"
  /\ Verifying(w) => proc[w].copy \notin {"approved", "unread"}
  /\ At(w, "save") => lock[proc[w].a] = w /\ proc[w].sale = sale[proc[w].a]

\* nobody verifies with an old copy a payment whose sale an operator canceled
Apart(w) ==
  ~At(w, "idle") /\ sale[proc[w].a] = "cancelada" =>
    ~Verifying(w) /\ (At(w, "lock") => proc[w].copy \in {"approved", "unread"})

Own(w) == Making(w) /\ Answers(w) /\ Copies(w) /\ Apart(w)

Listed ==
  \A j \in Jobs : \A a \in queue[j] : attempt[a] # "none" /\ sale[a] # "cancelada"

Books ==
  \A a \in Attempts :
    /\ sale[a] = "none" <=> attempt[a] = "none"
    /\ attempt[a] = "approved" <=> sale[a] \in {"concluida", "cancelada"}
    /\ attempt[a] = "approved" => charge[a] = "processed"
    /\ taken[a] = (IF sale[a] = "concluida" THEN 1 ELSE 0)
    /\ payments[a] = (IF attempt[a] = "approved" THEN 1 ELSE 0)
    /\ charge[a] = "none" => attempt[a] = "none"
    /\ a \in shown \/ charge[a] \in {"processed", "other"} => attempt[a] # "none"

Inv == Typed /\ (\A w \in Procs : Own(w)) /\ OneMaker /\ Listed /\ Books

\* a step keeps what is final at the provider
Firm ==
  /\ \A a \in Attempts : charge[a] \in Final => charge'[a] = charge[a]
  /\ \A a \in Attempts : charge[a] # "none" => charge'[a] # "none"
  /\ \A a \in Attempts : charge'[a] \in {"processed", "other"} /\ charge'[a] # charge[a] => a \in shown

LEMMA ChargeFirm ==
  ASSUME Shape,
         \/ UNCHANGED charge
         \/ \E a \in Attempts, c \in Charges \ {"none"} :
              /\ charge' = [charge EXCEPT ![a] = c] /\ charge[a] \in {"none", "created"}
              /\ c \in {"processed", "other"} => a \in shown
  PROVE  Firm
  BY DEF Firm, Shape, Final

\* what a session relies on, where the rows of its attempt are not changed
\* under it
LEMMA OthersKeep ==
  ASSUME Inv, NEW v \in Procs, proc'[v] = proc[v], Firm,
         \A b \in Attempts : lock[b] = v => lock'[b] = v,
         ~At(v, "idle") =>
           /\ At(v, "create") => attempt'[proc[v].a] = attempt[proc[v].a]
           /\ attempt[proc[v].a] # "none" => attempt'[proc[v].a] # "none"
           /\ At(v, "save") => sale'[proc[v].a] = sale[proc[v].a]
           /\ sale'[proc[v].a] = "cancelada" => sale[proc[v].a] = "cancelada"
  PROVE  Own(v)'
  <1>1. CASE At(v, "idle")
    BY <1>1 DEF Own, Making, Answers, Copies, Apart, At, Verifying
  <1>2. CASE ~At(v, "idle")
    <2>0. Own(v) /\ proc[v].a \in Attempts
      BY <1>2, InHand DEF Inv, Typed
    <2>1. Making(v)'
      BY <1>2, <2>0 DEF Own, Making, At, Firm
    <2>2. Answers(v)'
      BY <2>0 DEF Own, Answers, Firm
    <2>3. Copies(v)'
      BY <1>2, <2>0 DEF Own, Copies, At, Verifying
    <2>4. Apart(v)'
      BY <1>2, <2>0 DEF Own, Apart, At, Verifying
    <2> QED
      BY <2>1, <2>2, <2>3, <2>4 DEF Own
  <1> QED
    BY <1>1, <1>2

LEMMA OneMakerKept ==
  ASSUME Inv, NEW w \in Procs, Others(w), ~At(w, "create")'
  PROVE  OneMaker'
  BY DEF Inv, OneMaker, Others, At

\* a step of w that leaves the rows alone
LEMMA WorkStep ==
  ASSUME Inv, NEW w \in Procs, Others(w), UNCHANGED <<rows, shown>>, Firm,
         \A v \in Procs \ {w} : \A b \in Attempts : lock[b] = v => lock'[b] = v,
         Own(w)', ~At(w, "create")', Listed'
  PROVE  (\A v \in Procs : Own(v)') /\ OneMaker' /\ Listed' /\ Books'
  <1>1. ASSUME NEW v \in Procs \ {w} PROVE Own(v)'
    BY OthersKeep DEF Others, rows
  <1>2. Books'
    BY DEF Inv, Books, rows, Firm, Final
  <1> QED
    BY <1>1, <1>2, OneMakerKept

\* what is left of a list is listed, and what a job lists anew is pending
LEMMA ListedKept ==
  ASSUME Inv, NEW w \in Procs, UNCHANGED rows,
         \A i \in Jobs \ {w} : queue'[i] = queue[i],
         w \in Jobs => queue'[w] \subseteq queue[w]
  PROVE  Listed'
  BY DEF Inv, Listed, rows

\* a session that ends, or a job that takes its next attempt
LEMMA Ended ==
  ASSUME Inv, NEW w \in Procs, Finish(w), UNCHANGED rows
  PROVE  Own(w)' /\ ~At(w, "create")' /\ Listed' /\ Others(w)
  <1>0. Shape
    BY DEF Inv, Typed
  <1>1. Others(w)
    BY <1>0, FinishTypes
  <1>2. Listed'
    BY <1>0, FinishTypes, ListedKept
  <1>3. CASE Closes(w)
    BY <1>0, <1>1, <1>2, <1>3, FinishTypes
       DEF Own, Making, Answers, Copies, Apart, At, Verifying, Idle
  <1>4. CASE ~Closes(w)
    <2>1. PICK a \in queue[w] : proc'[w].a = a
      BY <1>0, <1>4, FinishTypes
    <2>2. w \in Jobs /\ proc'[w].step = "lock" /\ attempt'[a] # "none" /\ sale'[a] # "cancelada"
      BY <1>0, <1>4, <2>1, FinishTypes DEF Inv, Listed, rows
    <2> QED
      BY <1>1, <1>2, <2>1, <2>2 DEF Own, Making, Answers, Copies, Apart, At, Verifying
  <1> QED
    BY <1>3, <1>4

\* the locks of the others stay when w releases its own, or takes a free one
LEMMA OthersLocks ==
  ASSUME Inv, NEW w \in Procs,
         \/ lock' = lock \/ Release(w)
         \/ \E a \in Attempts : Free(w, a) /\ lock' = [lock EXCEPT ![a] = w]
  PROVE  \A v \in Procs \ {w} : \A b \in Attempts : lock[b] = v => lock'[b] = v
  <1>1. lock \in [Attempts -> Procs \cup {Nobody}] /\ Nobody \notin Procs
    BY PixAssumption DEF Inv, Typed, Shape, PixAssumption, Procs
  <1> QED
    BY <1>1 DEF Release, Free

LEMMA CallStep ==
  ASSUME Inv, NEW w \in Workers, NEW a \in Attempts, NEW r \in AtWork,
         At(w, "idle"), proc' = [proc EXCEPT ![w] = r], r.step = "lock", r.a = a,
         r.copy = "unread" \/ r.copy = attempt[a], attempt[a] # "none",
         UNCHANGED <<provider, rows, lock, queue>>
  PROVE  (\A v \in Procs : Own(v)') /\ OneMaker' /\ Listed' /\ Books'
  <1>1. w \in Procs /\ Others(w) /\ proc'[w] = r
    BY DEF Inv, Typed, Shape, Others, Procs
  <1>2. sale[a] = "cancelada" => attempt[a] = "approved"
    BY DEF Inv, Books
  <1>3. Own(w)' /\ ~At(w, "create")'
    BY <1>1, <1>2 DEF Own, Making, Answers, Copies, Apart, At, Verifying, rows
  <1>4. Listed'
    BY DEF Inv, Listed, rows
  <1>5. Firm
    BY ChargeFirm DEF Inv, Typed, provider
  <1> QED
    BY <1>1, <1>3, <1>4, <1>5, OthersLocks, WorkStep DEF provider

LEMMA StartSteps ==
  ASSUME Inv
  PROVE  /\ \A w \in Workers, a \in Attempts :
              (CreateCharge(w, a) \/ Press(w, a, "verify") \/ Press(w, a, "cancel")
                 \/ Webhook(w, a) \/ WebhookDrop(w, a)) =>
              (\A v \in Procs : Own(v)') /\ OneMaker' /\ Listed' /\ Books'
         /\ \A j \in Jobs : List(j) => (\A v \in Procs : Own(v)') /\ OneMaker' /\ Listed' /\ Books'
  <1>0. Shape /\ Workers \subseteq Procs /\ Jobs \subseteq Procs
    BY DEF Inv, Typed, Procs
  <1>1. ASSUME NEW w \in Workers, NEW a \in Attempts, CreateCharge(w, a)
        PROVE  (\A v \in Procs : Own(v)') /\ OneMaker' /\ Listed' /\ Books'
    <2>1. attempt[a] = "none" /\ charge[a] = "none"
      BY <1>1 DEF CreateCharge, Inv, Books
    <2>2. /\ w \in Procs /\ Others(w) /\ At(w, "create")' /\ proc'[w].a = a
          /\ charge'[a] = "created" /\ \A b \in Attempts \ {a} : charge'[b] = charge[b]
      BY <1>0, <1>1 DEF CreateCharge, Shape, Others, At
    <2>3. Firm
      BY <2>1, <2>2 DEF Firm, Final
    <2>4. Own(w)'
      BY <1>1, <2>1, <2>2, <1>0 DEF CreateCharge, Own, Making, Answers, Copies, Apart, At, Verifying,
                               rows, Inv, Books
    <2>5. ASSUME NEW v \in Procs \ {w} PROVE Own(v)'
      BY <1>1, <2>2, <2>3, OthersKeep DEF CreateCharge, Others, rows
    <2>6. OneMaker'
      <3>1. \A v \in Procs : At(v, "create") => proc[v].a # a
        BY <2>1 DEF Inv, Own, Making
      <3> QED
        BY <2>2, <3>1 DEF Inv, OneMaker, Others, At
    <2>7. Books'
      BY <1>1, <2>1, <2>2, <2>3 DEF CreateCharge, Inv, Books, rows, Firm, Final
    <2>8. Listed'
      BY <1>1 DEF CreateCharge, Inv, Listed, rows
    <2> QED
      BY <2>4, <2>5, <2>6, <2>7, <2>8
  <1>2. ASSUME NEW w \in Workers, NEW a \in Attempts, NEW op \in {"verify", "cancel"}, Press(w, a, op)
        PROVE  (\A v \in Procs : Own(v)') /\ OneMaker' /\ Listed' /\ Books'
    <2> DEFINE r == [step |-> "lock", a |-> a, op |-> op, copy |-> "unread"]
    <2>1. r \in AtWork /\ r.step = "lock" /\ r.a = a /\ r.copy = "unread"
      BY DEF AtWork, Reading, Ops
    <2>2. proc' = [proc EXCEPT ![w] = r]
      BY <1>2 DEF Press, Begin
    <2> HIDE DEF r
    <2> QED
      BY <1>2, <2>1, <2>2, CallStep DEF Press
  <1>3. ASSUME NEW w \in Workers, NEW a \in Attempts, Webhook(w, a)
        PROVE  (\A v \in Procs : Own(v)') /\ OneMaker' /\ Listed' /\ Books'
    <2> DEFINE r == [step |-> "lock", a |-> a, op |-> "webhook", copy |-> attempt[a]]
    <2>1. r \in AtWork /\ r.step = "lock" /\ r.a = a /\ r.copy = attempt[a]
      BY <1>0 DEF AtWork, Reading, Ops, Shape
    <2>2. proc' = [proc EXCEPT ![w] = r]
      BY <1>3 DEF Webhook, Begin
    <2> HIDE DEF r
    <2> QED
      BY <1>3, <2>1, <2>2, CallStep DEF Webhook
  <1>4. ASSUME NEW w \in Workers, NEW a \in Attempts, WebhookDrop(w, a)
        PROVE  (\A v \in Procs : Own(v)') /\ OneMaker' /\ Listed' /\ Books'
    BY <1>4 DEF WebhookDrop, Inv, Own, Making, Answers, Copies, Apart, At, Verifying, OneMaker,
                Listed, Books, rows, provider
  <1>5. ASSUME NEW j \in Jobs, List(j)
        PROVE  (\A v \in Procs : Own(v)') /\ OneMaker' /\ Listed' /\ Books'
    <2>1. PICK due \in SUBSET Attempts : Take(j, Batch({a \in due : Active(a)}))
      BY <1>5 DEF List
    <2> DEFINE list == Batch({a \in due : Active(a)})
    <2>2. list \in SUBSET Attempts /\ \A a \in list : attempt[a] = "pending"
      BY DEF Batch, Active
    <2>3. \A a \in list : attempt[a] # "none" /\ sale[a] # "cancelada"
      BY <2>2 DEF Inv, Books
    <2>4. Take(j, list)
      BY <2>1
    <2> HIDE DEF list
    <2>5. /\ Others(j) /\ proc'[j].step = "lock" /\ \A i \in Jobs \ {j} : queue'[i] = queue[i]
          /\ \E a \in list : proc'[j].a = a /\ queue'[j] = list \ {a}
      BY <1>0, <2>2, <2>4, TakeTypes
    <2>6. UNCHANGED <<provider, rows, lock>>
      BY <1>5 DEF List
    <2>7. Own(j)' /\ ~At(j, "create")'
      BY <2>3, <2>5, <2>6 DEF Own, Making, Answers, Copies, Apart, At, Verifying, rows
    <2>8. Listed'
      BY <2>3, <2>5, <2>6 DEF Inv, Listed, rows
    <2>9. Firm
      BY <1>0, <2>6, ChargeFirm DEF provider
    <2> QED
      BY <1>0, <2>5, <2>6, <2>7, <2>8, <2>9, OthersLocks, WorkStep DEF provider
  <1> QED
    BY <1>1, <1>2, <1>3, <1>4, <1>5

\* the steps of a verification before it saves, and those of its failures
LEMMA VerifySteps ==
  ASSUME Inv, NEW w \in Procs,
         \/ Lock(w) \/ Renew(w) \/ Consult(w) \/ CancelCharge(w) \/ Flush(w) \/ Mark(w)
         \/ NoToken(w) \/ CancelRefused(w) \/ Error(w) \/ Crash(w)
  PROVE  (\A v \in Procs : Own(v)') /\ OneMaker' /\ Listed' /\ Books'
  <1> DEFINE r == proc[w]
  <1>0. Shape /\ Own(w)
    BY DEF Inv, Typed
  <1>a. r.a \in Attempts /\ ~At(w, "idle") /\ UNCHANGED <<rows, shown>>
    BY <1>0, InHand DEF Lock, Renew, Consult, CancelCharge, Flush, Mark, NoToken, CancelRefused,
                        Error, Crash, Raised, At, provider
  <1>b. ASSUME Others(w), Firm, Own(w)', ~At(w, "create")', Listed',
               \/ lock' = lock \/ Release(w)
               \/ \E a \in Attempts : Free(w, a) /\ lock' = [lock EXCEPT ![a] = w]
        PROVE  (\A v \in Procs : Own(v)') /\ OneMaker' /\ Listed' /\ Books'
    BY <1>a, <1>b, OthersLocks, WorkStep
  <1>c. UNCHANGED charge => Firm
    BY <1>0, ChargeFirm
  <1>d. UNCHANGED queue => Listed'
    BY <1>a, ListedKept
  <1>e. sale[r.a] = "cancelada" => attempt[r.a] = "approved"
    BY <1>a DEF Inv, Books
  <1>1. CASE Lock(w)
    <2> DEFINE copy == IF r.copy = "unread" THEN attempt[r.a] ELSE r.copy
    <2>1. r \in Reading /\ At(w, "lock")
      BY <1>0, <1>1, InHand DEF Lock, At
    <2>2. CASE copy \in Settled(r.op)
      <3>1. Others(w) /\ proc'[w].step \in {"idle", "mark"} /\ lock' = lock
        <4>1. CASE Move(w, "mark")
          <5>1. w \notin Jobs
            BY <1>0, <1>1, <2>2, <2>1, InHand DEF Lock, At, AsJob, Settled
          <5> QED
            BY <1>0, <1>1, <2>1, <2>2, <4>1, <5>1, MoveTypes DEF Lock
        <4>2. CASE proc' = [proc EXCEPT ![w] = Idle]
          BY <1>0, <1>1, <2>2, <4>2 DEF Lock, Idle, Shape, Others
        <4> QED
          BY <1>1, <2>2, <4>1, <4>2 DEF Lock
      <3>2. Own(w)'
        BY <3>1 DEF Own, Making, Answers, Copies, Apart, At, Verifying
      <3> QED
        BY <1>1, <1>b, <1>c, <1>d, <3>1, <3>2 DEF Lock, At, provider
    <2>3. CASE copy \notin Settled(r.op)
      <3>1. /\ Others(w) /\ proc'[w].step = "token" /\ proc'[w].a = r.a /\ proc'[w].copy = copy
            /\ Free(w, r.a) /\ lock' = [lock EXCEPT ![r.a] = w]
        <4>1. proc' = [proc EXCEPT ![w] = [r EXCEPT !.step = "token", !.copy = copy]]
          BY <1>0, <1>1, <2>3 DEF Lock, Shape
        <4>2. /\ [r EXCEPT !.step = "token", !.copy = copy].step = "token"
              /\ [r EXCEPT !.step = "token", !.copy = copy].copy = copy
              /\ [r EXCEPT !.step = "token", !.copy = copy].a = r.a
          BY <2>1 DEF Reading
        <4> QED
          BY <1>0, <1>1, <2>3, <4>1, <4>2 DEF Lock, Shape, Others
      <3>2. copy \notin {"approved", "unread"} /\ attempt[r.a] # "none"
        <4>1. copy # "approved"
          BY <2>3 DEF Settled
        <4>2. copy # "unread"
          BY <1>0, <1>a DEF Shape, Statuses
        <4> QED
          BY <1>0, <2>1, <4>1, <4>2 DEF Own, Copies
      <3>3. sale[r.a] # "cancelada"
        <4>1. r.copy \in {"approved", "unread"} => copy = "approved" \/ attempt[r.a] # "approved"
          OBVIOUS
        <4> QED
          BY <1>0, <1>a, <1>e, <2>1, <3>2, <4>1 DEF Own, Apart
      <3> HIDE DEF copy
      <3>4. Own(w)'
        BY <1>a, <3>1, <3>2, <3>3 DEF Own, Making, Answers, Copies, Apart, At, Verifying, rows
      <3> QED
        BY <1>1, <1>a, <1>b, <1>c, <1>d, <3>1, <3>4 DEF Lock, At, provider
    <2> QED
      BY <2>2, <2>3
  <1>2. CASE Renew(w)
    <2>1. Others(w) /\ proc'[w].step = "consult" /\ proc'[w].a = r.a /\ proc'[w].copy = r.copy
      BY <1>0, <1>2, MoveTypes DEF Renew
    <2>2. Own(w)'
      BY <1>0, <1>2, <1>a, <2>1 DEF Renew, Own, Making, Answers, Copies, Apart, At, Verifying, rows
    <2> QED
      BY <1>2, <1>b, <1>c, <1>d, <2>1, <2>2 DEF Renew, At, provider
  <1>3. CASE Consult(w)
    <2>1. /\ Others(w) /\ proc'[w].a = r.a /\ proc'[w].copy = r.copy /\ proc'[w].op = r.op
          /\ proc'[w].answer = charge[r.a] /\ proc'[w].step \in {"cancel", "flush"}
          /\ proc'[w].step = "flush" /\ r.op = "cancel" => charge[r.a] = "processed"
      BY <1>0, <1>3 DEF Consult, Shape, Others
    <2>2. Verifying(w) /\ ~At(w, "save")
      BY <1>3 DEF Consult, Verifying, At
    <2>3. Own(w)'
      BY <1>0, <1>3, <1>a, <2>1, <2>2
         DEF Consult, Own, Making, Answers, Copies, Apart, At, Verifying, rows, provider
    <2> QED
      BY <1>3, <1>b, <1>c, <1>d, <2>1, <2>3 DEF Consult, At, provider
  <1>4. CASE CancelCharge(w)
    <2>1. r \in Answered
      BY <1>0, <1>4, InHand DEF CancelCharge, At
    <2>2. /\ Others(w) /\ proc'[w].a = r.a /\ proc'[w].copy = r.copy
          /\ proc'[w].answer = "canceled" /\ proc'[w].step = "flush"
      <3>1. proc' = [proc EXCEPT ![w] = [r EXCEPT !.step = "flush", !.answer = "canceled"]]
        BY <1>0, <1>4 DEF CancelCharge, Shape
      <3>2. /\ [r EXCEPT !.step = "flush", !.answer = "canceled"].step = "flush"
            /\ [r EXCEPT !.step = "flush", !.answer = "canceled"].answer = "canceled"
            /\ [r EXCEPT !.step = "flush", !.answer = "canceled"].a = r.a
            /\ [r EXCEPT !.step = "flush", !.answer = "canceled"].copy = r.copy
        BY <2>1 DEF Answered
      <3> QED
        BY <1>0, <3>1, <3>2 DEF Shape, Others
    <2>3. charge'[r.a] = "canceled"
      BY <1>0, <1>4, <1>a DEF CancelCharge, Shape
    <2>4. Firm
      <3>1. "canceled" \in Charges \ {"none"}
        BY DEF Charges, Final
      <3> QED
        BY <1>0, <1>4, <1>a, <3>1, ChargeFirm DEF CancelCharge
    <2>5. Own(w)'
      BY <1>0, <1>4, <1>a, <2>2, <2>3
         DEF CancelCharge, Own, Making, Answers, Copies, Apart, At, Verifying, rows
    <2> QED
      BY <1>4, <1>b, <1>d, <2>2, <2>4, <2>5 DEF CancelCharge, At
  <1>5. CASE Flush(w)
    <2>1. /\ Others(w) /\ proc'[w].a = r.a /\ proc'[w].copy = r.copy /\ proc'[w].op = r.op
          /\ proc'[w].answer = r.answer /\ proc'[w].step = "save" /\ proc'[w].sale = sale[r.a]
      BY <1>0, <1>5 DEF Flush, Shape, Others
    <2>2. Free(w, r.a) /\ lock' = [lock EXCEPT ![r.a] = w] /\ lock'[r.a] = w
      BY <1>0, <1>5, <1>a DEF Flush, Shape
    <2>3. Own(w)'
      BY <1>0, <1>5, <1>a, <2>1, <2>2
         DEF Flush, Own, Making, Answers, Copies, Apart, At, Verifying, rows, provider
    <2> QED
      BY <1>5, <1>a, <1>b, <1>c, <1>d, <2>1, <2>2, <2>3 DEF Flush, At, provider
  <1>6. CASE Mark(w)
    <2>1. Own(w)' /\ ~At(w, "create")' /\ Listed' /\ Others(w)
      BY <1>6, <1>a, Ended DEF Mark
    <2> QED
      BY <1>6, <1>b, <1>c, <2>1 DEF Mark, provider
  <1>7. CASE NoToken(w) \/ CancelRefused(w) \/ Error(w)
    <2>1. Raised(w)
      BY <1>7 DEF NoToken, CancelRefused, Error
    <2>2. Own(w)' /\ ~At(w, "create")' /\ Listed' /\ Others(w)
      BY <1>a, <2>1, Ended DEF Raised
    <2>3. lock' = lock \/ Release(w)
      BY <2>1 DEF Raised
    <2>4. Firm
      <3>1. CASE UNCHANGED charge
        BY <1>c, <3>1
      <3>2. CASE charge[r.a] = "created" /\ charge' = [charge EXCEPT ![r.a] = "canceled"]
        <4>1. "canceled" \in Charges \ {"none"}
          BY DEF Charges, Final
        <4> QED
          BY <1>0, <1>a, <3>2, <4>1, ChargeFirm
      <3> QED
        BY <1>7, <3>1, <3>2 DEF NoToken, CancelRefused, Error
    <2> QED
      BY <1>b, <2>2, <2>3, <2>4
  <1>8. CASE Crash(w)
    <2>1. Others(w) /\ proc'[w].step = "idle"
      BY <1>0, <1>8 DEF Crash, Shape, Others, Idle
    <2>2. Own(w)' /\ ~At(w, "create")'
      BY <2>1 DEF Own, Making, Answers, Copies, Apart, At, Verifying
    <2>3. Listed'
      BY <1>0, <1>8, <1>a, ListedKept DEF Crash, Shape
    <2> QED
      BY <1>8, <1>b, <1>c, <2>1, <2>2, <2>3 DEF Crash, provider
  <1> QED
    BY <1>1, <1>2, <1>3, <1>4, <1>5, <1>6, <1>7, <1>8

LEMMA CommitStep ==
  ASSUME Inv, NEW w \in Procs, CreateCommit(w)
  PROVE  (\A v \in Procs : Own(v)') /\ OneMaker' /\ Listed' /\ Books'
  <1> DEFINE a == proc[w].a
  <1>0. Shape /\ Own(w) /\ At(w, "create")
    BY DEF Inv, Typed, CreateCommit
  <1>1. a \in Attempts /\ w \notin Jobs /\ charge[a] # "none" /\ attempt[a] = "none"
    BY <1>0, InHand DEF At, AsJob, Own, Making
  <1>2. Others(w) /\ proc'[w] = Idle /\ queue' = queue
    BY <1>0, <1>1, FinishTypes DEF CreateCommit, Closes
  <1>3. /\ attempt'[a] = "pending" /\ \A b \in Attempts \ {a} : attempt'[b] = attempt[b]
        /\ sale'[a] = "aguardando_pagamento" /\ \A b \in Attempts \ {a} : sale'[b] = sale[b]
    BY <1>0, <1>1 DEF CreateCommit, Shape
  <1>4. Own(w)' /\ ~At(w, "create")'
    BY <1>2 DEF Own, Making, Answers, Copies, Apart, At, Verifying, Idle
  <1>5. Firm
    BY <1>0, ChargeFirm DEF CreateCommit
  <1>6. ASSUME NEW v \in Procs \ {w} PROVE Own(v)'
    <2>1. At(v, "create") => proc[v].a # a
      BY <1>0 DEF Inv, OneMaker
    <2>2. At(v, "save") => attempt[proc[v].a] # "none"
      BY DEF Inv, Own, Copies, Verifying, At
    <2>3. ~At(v, "idle") => proc[v].a \in Attempts
      BY <1>0, InHand
    <2> QED
      BY <1>1, <1>2, <1>3, <1>5, <2>1, <2>2, <2>3, OthersKeep DEF CreateCommit, Others
  <1>7. Listed'
    BY <1>1, <1>2, <1>3, <1>0 DEF Inv, Listed, Shape
  <1>8. Books'
    BY <1>0, <1>1, <1>3 DEF CreateCommit, Inv, Books
  <1> QED
    BY <1>2, <1>4, <1>6, <1>7, <1>8, OneMakerKept

\* what a save makes of the rows of its attempt: the sale is completed once,
\* by the one that finds it awaiting a payment the provider has in full
LEMMA SaveRows ==
  ASSUME Inv, NEW w \in Procs, Save(w)
  PROVE  LET a == proc[w].a
         IN  /\ a \in Attempts /\ attempt[a] # "none" /\ attempt'[a] # "none"
             /\ attempt[a] = "approved" => attempt'[a] = "approved"
             /\ sale[a] # "cancelada" /\ sale'[a] \in {"aguardando_pagamento", "concluida"}
             /\ attempt'[a] = "approved" <=> sale'[a] = "concluida"
             /\ attempt'[a] = "approved" => charge[a] = "processed"
             /\ taken'[a] = (IF sale'[a] = "concluida" THEN 1 ELSE 0)
             /\ payments'[a] = (IF attempt'[a] = "approved" THEN 1 ELSE 0)
             /\ lock[a] = w
             /\ \A b \in Attempts \ {a} :
                  /\ attempt'[b] = attempt[b] /\ sale'[b] = sale[b]
                  /\ taken'[b] = taken[b] /\ payments'[b] = payments[b]
  <1> DEFINE r == proc[w]
             a == proc[w].a
  <1>0. Shape /\ Own(w) /\ At(w, "save")
    BY DEF Inv, Typed, Save
  <1>1. a \in Attempts /\ r \in Saving
    BY <1>0, InHand DEF At
  <1>2. /\ attempt[a] # "none" /\ r.copy \notin {"approved", "unread"}
        /\ lock[a] = w /\ r.sale = sale[a]
    BY <1>0 DEF Own, Copies, Verifying, At
  <1>3. sale[a] # "cancelada"
    BY <1>0 DEF Own, Apart, Verifying, At
  <1>4. sale[a] \in {"aguardando_pagamento", "concluida"}
    BY <1>0, <1>1, <1>2, <1>3 DEF Shape, SaleStatuses, Inv, Books
  <1>5. /\ r.answer \in Final => charge[a] = r.answer
        /\ r.op = "cancel" => r.answer \in {"processed", "canceled"}
    BY <1>0 DEF Own, Answers, At
  <1>6. /\ attempt'[a] = IF NewStatus(r) = r.copy THEN attempt[a] ELSE NewStatus(r)
        /\ sale'[a] = IF Completes(r) THEN "concluida" ELSE sale[a]
        /\ taken'[a] = IF Completes(r) THEN taken[a] + 1 ELSE taken[a]
        /\ payments'[a] = IF Completes(r) THEN payments[a] + 1 ELSE payments[a]
    BY <1>0, <1>1 DEF Save, Shape
  <1>7. \A b \in Attempts \ {a} :
          /\ attempt'[b] = attempt[b] /\ sale'[b] = sale[b]
          /\ taken'[b] = taken[b] /\ payments'[b] = payments[b]
    BY <1>0, <1>1 DEF Save, Shape
  <1>8. /\ NewStatus(r) = "approved" <=> r.answer = "processed"
        /\ NewStatus(r) \in {r.copy, "approved", "divergent", "canceled", "expired"}
    BY <1>2 DEF NewStatus
  <1>9. CASE sale[a] = "concluida"
    <2>1. attempt[a] = "approved" /\ charge[a] = "processed" /\ taken[a] = 1 /\ payments[a] = 1
      BY <1>1, <1>9 DEF Inv, Books
    <2>2. ~Completes(r)
      BY <1>2, <1>9 DEF Completes
    <2>3. NewStatus(r) = r.copy \/ NewStatus(r) = "approved"
      <3>1. r.answer \in {"other", "canceled", "expired"} => FALSE
        BY <1>5, <2>1 DEF Final
      <3> QED
        BY <1>5, <3>1 DEF NewStatus
    <2>4. attempt'[a] = "approved" /\ sale'[a] = "concluida" /\ taken'[a] = 1 /\ payments'[a] = 1
      BY <1>6, <1>9, <2>1, <2>2, <2>3
    <2> QED
      BY <1>1, <1>2, <1>7, <1>9, <2>1, <2>4
  <1>10. CASE sale[a] = "aguardando_pagamento"
    <2>1. attempt[a] # "approved" /\ taken[a] = 0 /\ payments[a] = 0
      BY <1>1, <1>10 DEF Inv, Books
    <2>2. CASE r.answer = "processed"
      <3>1. charge[a] = "processed"
        BY <1>5, <2>2 DEF Final
      <3>2. Completes(r) /\ NewStatus(r) = "approved"
        BY <1>2, <1>8, <1>10, <2>2 DEF Completes
      <3>3. attempt'[a] = "approved" /\ sale'[a] = "concluida" /\ taken'[a] = 1 /\ payments'[a] = 1
        BY <1>2, <1>6, <2>1, <3>2
      <3> QED
        BY <1>1, <1>2, <1>7, <1>10, <2>1, <3>1, <3>3
    <2>3. CASE r.answer # "processed"
      <3>1. ~Completes(r) /\ NewStatus(r) # "approved"
        BY <1>8, <2>3 DEF Completes
      <3>2. /\ attempt'[a] \notin {"approved", "none"} /\ sale'[a] = "aguardando_pagamento"
            /\ taken'[a] = 0 /\ payments'[a] = 0
        BY <1>2, <1>6, <1>8, <1>10, <2>1, <3>1
      <3> QED
        BY <1>1, <1>2, <1>7, <1>10, <2>1, <3>2
    <2> QED
      BY <2>2, <2>3
  <1> QED
    BY <1>4, <1>9, <1>10

LEMMA SaveStep ==
  ASSUME Inv, NEW w \in Procs, Save(w)
  PROVE  (\A v \in Procs : Own(v)') /\ OneMaker' /\ Listed' /\ Books'
  <1> DEFINE a == proc[w].a
  <1>0. Shape /\ UNCHANGED <<charge, shown>>
    BY DEF Inv, Typed, Save, provider
  <1>1. /\ a \in Attempts /\ attempt[a] # "none" /\ attempt'[a] # "none"
        /\ sale[a] # "cancelada" /\ sale'[a] \in {"aguardando_pagamento", "concluida"}
        /\ attempt'[a] = "approved" <=> sale'[a] = "concluida"
        /\ attempt'[a] = "approved" => charge[a] = "processed"
        /\ taken'[a] = (IF sale'[a] = "concluida" THEN 1 ELSE 0)
        /\ payments'[a] = (IF attempt'[a] = "approved" THEN 1 ELSE 0)
        /\ lock[a] = w
        /\ \A b \in Attempts \ {a} :
             /\ attempt'[b] = attempt[b] /\ sale'[b] = sale[b]
             /\ taken'[b] = taken[b] /\ payments'[b] = payments[b]
    BY SaveRows
  <1> HIDE DEF a
  <1>2. Books'
    <2>1. \A b \in Attempts : (charge'[b] = charge[b]) /\ (b \in shown' <=> b \in shown)
      BY <1>0
    <2>2. ASSUME NEW b \in Attempts \ {a}
          PROVE  /\ sale'[b] = "none" <=> attempt'[b] = "none"
                 /\ attempt'[b] = "approved" <=> sale'[b] \in {"concluida", "cancelada"}
                 /\ attempt'[b] = "approved" => charge'[b] = "processed"
                 /\ taken'[b] = (IF sale'[b] = "concluida" THEN 1 ELSE 0)
                 /\ payments'[b] = (IF attempt'[b] = "approved" THEN 1 ELSE 0)
                 /\ charge'[b] = "none" => attempt'[b] = "none"
                 /\ (b \in shown' \/ charge'[b] \in {"processed", "other"}) => attempt'[b] # "none"
      BY <1>1, <2>1 DEF Inv, Books
    <2>3. /\ sale'[a] = "none" <=> attempt'[a] = "none"
          /\ attempt'[a] = "approved" <=> sale'[a] \in {"concluida", "cancelada"}
          /\ attempt'[a] = "approved" => charge'[a] = "processed"
          /\ taken'[a] = (IF sale'[a] = "concluida" THEN 1 ELSE 0)
          /\ payments'[a] = (IF attempt'[a] = "approved" THEN 1 ELSE 0)
          /\ charge'[a] = "none" => attempt'[a] = "none"
          /\ (a \in shown' \/ charge'[a] \in {"processed", "other"}) => attempt'[a] # "none"
      BY <1>1, <2>1 DEF Inv, Books
    <2> QED
      BY <2>2, <2>3 DEF Books
  <1>3. Others(w) /\ ~At(w, "create")' /\ Own(w)' /\ Listed'
    <2>1. \A b \in Attempts : /\ attempt[b] # "none" => attempt'[b] # "none"
                              /\ sale[b] # "cancelada" => sale'[b] # "cancelada"
      BY <1>1
    <2>2. CASE proc[w].op = "webhook"
      <3>1. Move(w, "mark") /\ queue' = queue
        BY <2>2 DEF Save
      <3>2. w \notin Jobs
        BY <1>0, <2>2, InHand DEF Save, At, AsJob
      <3>3. Others(w) /\ proc'[w].step = "mark"
        BY <1>0, <3>1, <3>2, MoveTypes DEF Save
      <3>4. Listed'
        BY <1>0, <2>1, <3>1 DEF Inv, Listed, Shape
      <3> QED
        BY <3>3, <3>4 DEF Own, Making, Answers, Copies, Apart, At, Verifying
    <2>3. CASE proc[w].op # "webhook"
      <3>1. Finish(w)
        BY <2>3 DEF Save
      <3>2. Others(w) /\ \A i \in Jobs \ {w} : queue'[i] = queue[i]
        BY <1>0, <3>1, FinishTypes
      <3>3. CASE Closes(w)
        <4>1. proc'[w] = Idle /\ queue' = queue
          BY <1>0, <3>1, <3>3, FinishTypes
        <4>2. Listed'
          BY <1>0, <2>1, <4>1 DEF Inv, Listed, Shape
        <4> QED
          BY <3>2, <4>1, <4>2 DEF Own, Making, Answers, Copies, Apart, At, Verifying, Idle
      <3>4. CASE ~Closes(w)
        <4>1. PICK b \in queue[w] : proc'[w].a = b /\ queue'[w] = queue[w] \ {b}
          BY <1>0, <3>1, <3>4, FinishTypes
        <4>2. w \in Jobs /\ proc'[w].step = "lock"
          BY <1>0, <3>1, <3>4, FinishTypes
        <4>3. b \in Attempts /\ attempt'[b] # "none" /\ sale'[b] # "cancelada"
          BY <1>0, <2>1, <4>1, <4>2 DEF Inv, Listed, Shape
        <4>4. Listed'
          BY <1>0, <2>1, <3>2, <4>1 DEF Inv, Listed, Shape
        <4> QED
          BY <3>2, <4>1, <4>2, <4>3, <4>4 DEF Own, Making, Answers, Copies, Apart, At, Verifying
      <3> QED
        BY <3>3, <3>4
    <2> QED
      BY <2>2, <2>3
  <1>4. Firm
    BY <1>0, ChargeFirm
  <1>5. ASSUME NEW v \in Procs \ {w} PROVE Own(v)'
    <2>1. proc'[v] = proc[v] /\ \A b \in Attempts : lock[b] = v => lock'[b] = v
      BY <1>3, OthersLocks DEF Save, Others
    <2>2. ~At(v, "idle") => proc[v].a \in Attempts
      BY <1>0, InHand
    <2>3. At(v, "create") => attempt[proc[v].a] = "none"
      BY DEF Inv, Own, Making
    <2>4. At(v, "save") => lock[proc[v].a] = v
      BY DEF Inv, Own, Copies
    <2>5. ~At(v, "idle") =>
           /\ At(v, "create") => attempt'[proc[v].a] = attempt[proc[v].a]
           /\ attempt[proc[v].a] # "none" => attempt'[proc[v].a] # "none"
           /\ At(v, "save") => sale'[proc[v].a] = sale[proc[v].a]
           /\ sale'[proc[v].a] = "cancelada" => sale[proc[v].a] = "cancelada"
      BY <1>1, <2>2, <2>3, <2>4
    <2> QED
      BY <1>4, <2>1, <2>5, OthersKeep
  <1> QED
    BY <1>2, <1>3, <1>5, OneMakerKept

LEMMA OutcomeStep ==
  ASSUME Inv, NEW a \in Attempts, Outcome(a)
  PROVE  (\A v \in Procs : Own(v)') /\ OneMaker' /\ Listed' /\ Books'
  <1>0. Shape /\ UNCHANGED <<shown, rows, lock, proc, queue>>
    BY DEF Inv, Typed, Outcome
  <1>1. Firm
    <2>1. PICK c \in (IF a \in shown THEN {"processed", "other"} ELSE {}) \cup {"expired"} :
            charge[a] = "created" /\ charge' = [charge EXCEPT ![a] = c]
      BY DEF Outcome
    <2>2. c \in Charges \ {"none"} /\ (c \in {"processed", "other"} => a \in shown)
      BY <2>1 DEF Charges, Final
    <2> QED
      BY <1>0, <2>1, <2>2, ChargeFirm
  <1>2. ASSUME NEW v \in Procs PROVE Own(v)'
    BY <1>0, <1>1, OthersKeep DEF rows
  <1>3. Listed' /\ OneMaker'
    BY <1>0 DEF Inv, Listed, OneMaker, rows, At
  <1>4. Books'
    BY <1>0, <1>1 DEF Inv, Books, rows, Firm, Final
  <1> QED
    BY <1>2, <1>3, <1>4

\* an operator cancels a completed sale nobody is verifying
LEMMA CancelStep ==
  ASSUME Inv, Tame, NEW a \in Attempts, CancelSale(a)
  PROVE  (\A v \in Procs : Own(v)') /\ OneMaker' /\ Listed' /\ Books'
  <1>0. /\ Shape /\ UNCHANGED <<charge, shown, attempt, payments, lock, proc, queue>>
        /\ sale[a] = "concluida" /\ a \notin UnderWay
    BY DEF Inv, Typed, Tame, CancelSale, provider
  <1>1. /\ sale'[a] = "cancelada" /\ taken'[a] = taken[a] - 1
        /\ \A b \in Attempts \ {a} : sale'[b] = sale[b] /\ taken'[b] = taken[b]
    BY <1>0 DEF CancelSale, Shape
  <1>2. Firm
    BY <1>0, ChargeFirm
  <1>3. ASSUME NEW v \in Procs PROVE Own(v)'
    <2>1. ~At(v, "idle") => proc[v].a \in Attempts \ {a}
      BY <1>0, InHand DEF UnderWay
    <2> QED
      BY <1>0, <1>1, <1>2, <2>1, OthersKeep
  <1>4. Listed'
    <2>1. \A j \in Jobs : a \notin queue[j] /\ queue[j] \subseteq Attempts
      BY <1>0 DEF UnderWay, Shape
    <2> QED
      BY <1>0, <1>1, <2>1 DEF Inv, Listed
  <1>5. OneMaker'
    BY <1>0 DEF Inv, OneMaker, At
  <1>6. Books'
    <2>1. attempt[a] = "approved" /\ taken[a] = 1
      BY <1>0 DEF Inv, Books
    <2> QED
      BY <1>0, <1>1, <2>1 DEF Inv, Books
  <1> QED
    BY <1>3, <1>4, <1>5, <1>6

-----------------------------------------------------------------------------
(* The theorems *)

LEMMA TypedInit == Init => Typed
  <1> SUFFICES ASSUME Init PROVE Typed
    OBVIOUS
  <1>1. created \in Seq(Attempts)
    BY DEF Init
  <1>2. requests \in 0 .. MaxRequests /\ failures \in 0 .. MaxFailures
    BY PixAssumption DEF Init, PixAssumption
  <1>3. \A w \in Procs : At(w, "idle")
    BY DEF Init, At, Idle
  <1> QED
    BY <1>1, <1>2, <1>3
       DEF Init, Typed, Shape, Locked, Charges, Statuses, SaleStatuses, Procs

LEMMA InvInit == Init => Inv
  <1> SUFFICES ASSUME Init PROVE Inv
    OBVIOUS
  <1>1. \A w \in Procs : At(w, "idle") /\ ~Verifying(w)
    BY DEF Init, At, Idle, Verifying
  <1>2. \A w \in Procs : Own(w)
    BY <1>1 DEF Own, Making, Answers, Copies, Apart, At, Verifying
  <1>3. OneMaker /\ Listed
    BY <1>1 DEF OneMaker, Listed, At, Init
  <1>4. Books
    BY DEF Books, Init
  <1> QED
    BY <1>2, <1>3, <1>4, TypedInit DEF Inv

LEMMA InvStep == ASSUME Tame PROVE Inv /\ [Next]_vars => Inv'
  <1> SUFFICES ASSUME Inv, [Next]_vars PROVE Inv'
    OBVIOUS
  <1>1. Typed'
    BY TypedStep DEF Inv
  <1>2. (\A v \in Procs : Own(v)') /\ OneMaker' /\ Listed' /\ Books'
    <2>1. CASE UNCHANGED vars
      BY <2>1 DEF Inv, Own, Making, Answers, Copies, Apart, At, Verifying, OneMaker, Listed,
                  Books, vars, rows, provider
    <2>2. CASE Next
      <3>1. ASSUME NEW w \in Procs, Handle(w) \/ Lock(w) \/ Flush(w) \/ Error(w) \/ Crash(w)
            PROVE  (\A v \in Procs : Own(v)') /\ OneMaker' /\ Listed' /\ Books'
        BY <3>1, CommitStep, SaveStep, VerifySteps DEF Handle
      <3>2. ASSUME NEW a \in Attempts, Outcome(a) \/ CancelSale(a)
            PROVE  (\A v \in Procs : Own(v)') /\ OneMaker' /\ Listed' /\ Books'
        BY <3>2, OutcomeStep, CancelStep
      <3> QED
        BY <2>2, <3>1, <3>2, StartSteps DEF Next
    <2> QED
      BY <2>1, <2>2
  <1> QED
    BY <1>1, <1>2 DEF Inv

LEMMA Invariance == ASSUME Tame PROVE Spec => []Inv
  BY InvInit, InvStep, PTL DEF Spec

\* What each request and job is at, and what is stored, is of its type, and a
\* row lock is held by a session that runs, whoever crashes or fails holding
\* it.
THEOREM Typing == Spec => []TypeOK
  <1>1. Typed => TypeOK
    <2> SUFFICES ASSUME Typed PROVE TypeOK
      OBVIOUS
    <2>1. \A a \in Attempts : lock[a] # Nobody => ~At(lock[a], "idle")
      BY DEF Typed, Locked, Verifying, At
    <2> QED
      BY <2>1 DEF Typed, Shape, TypeOK, Charges, Statuses, SaleStatuses
  <1> QED
    BY <1>1, TypedInit, TypedStep, PTL DEF Spec

\* However many requests, webhooks and jobs verify one payment at once, a paid
\* sale gives its goods out once and is paid once.
THEOREM Goods == ASSUME Tame PROVE Spec => []GoodsTakenOnce
  <1>1. Inv => GoodsTakenOnce
    BY DEF Inv, Books, GoodsTakenOnce
  <1> QED
    BY <1>1, Invariance, PTL

\* An approved attempt has its sale completed and its charge paid in full, and
\* no payment is without the row it belongs to.
THEOREM Anomalies == ASSUME Tame PROVE Spec => []NoAnomaly
  <1>1. Inv => NoAnomaly
    BY DEF Inv, Books, NoAnomaly
  <1> QED
    BY <1>1, Invariance, PTL

\* A verification with an old copy of the row never takes an approved attempt
\* back.
THEOREM Approved == ASSUME Tame PROVE Spec => ApprovedIsFinal
  <1>1. Inv /\ [Next]_vars => [\A a \in Attempts : attempt[a] = "approved" => attempt'[a] = "approved"]_vars
    <2> SUFFICES ASSUME Inv, Next, NEW a \in Attempts, attempt[a] = "approved"
                 PROVE  attempt'[a] = "approved"
      OBVIOUS
    <2>1. ASSUME NEW w \in Procs, Save(w) PROVE attempt'[a] = "approved"
      BY <2>1, SaveRows
    <2>2. ASSUME NEW w \in Procs, CreateCommit(w) PROVE attempt'[a] = "approved"
      <3>1. attempt[proc[w].a] = "none"
        BY <2>2 DEF Inv, Own, Making, CreateCommit
      <3> QED
        BY <2>2, <3>1 DEF CreateCommit, Inv, Typed, Shape
    <2>3. CASE UNCHANGED attempt
      BY <2>3
    <2> QED
      BY <2>1, <2>2, <2>3
         DEF Next, Handle, List, Lock, Flush, Error, Crash, Raised, NoToken, CancelRefused, Renew,
             Consult, CancelCharge, Mark, Outcome, CancelSale, CreateCharge, Press, Webhook,
             WebhookDrop, rows
  <1> QED
    BY <1>1, Invariance, PTL DEF Spec, ApprovedIsFinal
=============================================================================
