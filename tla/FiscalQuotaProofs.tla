-------------------------- MODULE FiscalQuotaProofs --------------------------
(***************************************************************************)
(* What holds of FiscalQuotaClients for every number of callers, documents, *)
(* periods and packages: the state is typed; what the ledger records is     *)
(* counted; with serial calls that none interrupts every open reservation   *)
(* is counted and every document used once; and, whatever overlaps and      *)
(* dies, reserved_count and the credit shown are never too high but for     *)
(* what the history variables name.                                         *)
(***************************************************************************)
EXTENDS FiscalQuotaClients, FiniteSetTheorems, TLAPS

-----------------------------------------------------------------------------
(* The quota service by itself: its steps keep the types of its state,      *)
(* whoever the callers are                                                  *)

\* the carry of the monthly reset is a natural number
LEMMA RemainingNat ==
  ASSUME QuotaAssumption
  PROVE  Remaining \in Nat
<1>. DEFINE units == Packages \X (1 .. PackageSize)
            left == {u \in units : Valid(u[1]) /\ u[2] <= packages[u[1]].remaining}
<1>1. IsFiniteSet(1 .. PackageSize)
  BY FS_Interval DEF QuotaAssumption
<1>2. IsFiniteSet(units)
  BY <1>1, FS_Product DEF QuotaAssumption
<1>3. IsFiniteSet(left)
  BY <1>2, FS_Subset
<1>4. Cardinality(left) \in Nat
  BY <1>3, FS_CardinalityType
<1> QED BY <1>4 DEF Remaining

\* a new row, and the updates of a row, are rows
LEMMA CounterTypes ==
  ASSUME QuotaAssumption
  PROVE  /\ NoCounter \in Counter /\ NewCounter \in Counter
         /\ \A c \in Counter :
              /\ AddUsed(c, 1) \in Counter
              /\ \A n \in Int : AddReserved(c, n) \in Counter /\ AddAddon(c, n) \in Counter
<1>1. NoCounter \in Counter
  BY DEF NoCounter, Counter
<1>2. NewCounter \in Counter
  BY <1>1 DEF NewCounter, Counter, QuotaAssumption
<1>3. ASSUME NEW c \in Counter
      PROVE  AddUsed(c, 1) \in Counter
  BY DEF AddUsed, Counter
<1>4. ASSUME NEW c \in Counter, NEW n \in Int
      PROVE  AddReserved(c, n) \in Counter /\ AddAddon(c, n) \in Counter
  BY DEF AddReserved, AddAddon, Counter
<1> QED BY <1>1, <1>2, <1>3, <1>4

\* what a caller starts is a call
LEMMA StartTypes ==
  ASSUME QuotaTypeOK, NEW d \in Docs, NEW m \in Months, NEW ad \in BOOLEAN
  PROVE  /\ ReserveCall(d) \in Call
         /\ ConsumeCall(d, m, ad) \in Call
         /\ ReleaseCall(d, m) \in Call
BY DEF QuotaTypeOK, ReserveCall, ConsumeCall, ReleaseCall, Start, Call,
       ReserveSteps, ConsumeSteps, ReleaseSteps

\* a caller that is not idle has a call; moving it on, or ending it, is typed
LEMMA CallTypes ==
  ASSUME QuotaTypeOK, NEW p \in Callers
  PROVE  /\ call[p] \in Call \cup {NoCall}
         /\ call[p].pc # "idle" => call[p] \in Call
         /\ EndCall(p) => call' \in [Callers -> Call \cup {NoCall}]
         /\ \A pc \in ReserveSteps \cup ConsumeSteps \cup ReleaseSteps \cup Outcomes :
              call[p].pc # "idle" /\ Goto(p, pc) => call' \in [Callers -> Call \cup {NoCall}]
BY DEF QuotaTypeOK, Call, NoCall, EndCall, Goto

\* the effect of a step on the counters is typed
LEMMA SetCounterType ==
  ASSUME QuotaTypeOK, NEW m \in Months, NEW c \in Counter, SetCounter(m, c)
  PROVE  counter' \in [Months -> Counter]
BY DEF QuotaTypeOK, SetCounter

\* every commit of a service call keeps the state typed
LEMMA QuotaStepTypes ==
  ASSUME QuotaAssumption, QuotaTypeOK, NEW p \in Callers, QuotaStep(p)
  PROVE  QuotaTypeOK'
<1>. DEFINE m == call[p].period
            d == call[p].doc
<1>1. call[p] \in Call
  BY CallTypes DEF QuotaStep, ReserveRead, ReserveLock, ConsumeCheck, ConsumeUsed,
     ConsumeReserved, ConsumePackage, ConsumeDecrement, ConsumeAddon, ConsumeLedger,
     ReleaseCheck, ReleaseReserved, ReleaseLedger
<1>2. m \in Months /\ d \in Docs /\ call[p].pc # "idle"
  BY <1>1 DEF Call, ReserveSteps, ConsumeSteps, ReleaseSteps, Outcomes
<1>3. counter[m] \in Counter
  BY <1>2 DEF QuotaTypeOK
<1>4. \A pc \in ReserveSteps \cup ConsumeSteps \cup ReleaseSteps \cup Outcomes :
        Goto(p, pc) => call' \in [Callers -> Call \cup {NoCall}]
  BY <1>2, CallTypes
<1>5. /\ <<d, m>> \in Docs \X Months
      /\ ConsumeKey(m, d) \in LedgerKeys /\ ReleaseKey(m, d) \in LedgerKeys
  BY <1>2 DEF ConsumeKey, ReleaseKey, LedgerKeys
<1>6. CASE ReserveRead(p)
  <2>1. PICK c \in Counter : SetCounter(m, c)
    BY <1>3, <1>6, CounterTypes DEF ReserveRead
  <2>2. counter' \in [Months -> Counter]
    BY <1>2, <2>1, SetCounterType
  <2>3. call' \in [Callers -> Call \cup {NoCall}]
    BY <1>1, <1>6 DEF ReserveRead, QuotaTypeOK, Call, Outcomes, ReserveSteps
  <2> QED BY <1>6, <2>2, <2>3 DEF ReserveRead, QuotaTypeOK
<1>7. CASE ReserveLock(p)
  <2>1. [counter[m] EXCEPT !.reserved = @ + 1] \in Counter
    BY <1>3 DEF Counter
  <2>2. counter' \in [Months -> Counter]
    BY <1>2, <1>7, <2>1, SetCounterType DEF ReserveLock, QuotaTypeOK
  <2>3. held' \subseteq Docs \X Months
    BY <1>5, <1>7 DEF ReserveLock, QuotaTypeOK
  <2>4. call' \in [Callers -> Call \cup {NoCall}]
    BY <1>4, <1>7 DEF ReserveLock, Outcomes
  <2> QED BY <1>7, <2>2, <2>3, <2>4 DEF ReserveLock, QuotaTypeOK
<1>8. CASE ConsumeCheck(p)
  BY <1>4, <1>8 DEF ConsumeCheck, QuotaTypeOK, Outcomes, ConsumeSteps
<1>9. CASE ConsumeUsed(p)
  BY <1>2, <1>3, <1>4, <1>9, CounterTypes, SetCounterType
  DEF ConsumeUsed, QuotaTypeOK, ConsumeSteps
<1>10. CASE ConsumeReserved(p)
  <2>1. AddReserved(counter[m], -1) \in Counter
    BY <1>3, CounterTypes
  <2> QED BY <1>2, <1>4, <1>10, <2>1, SetCounterType DEF ConsumeReserved, QuotaTypeOK, ConsumeSteps
<1>11. CASE ConsumePackage(p)
  <2>1. call' \in [Callers -> Call \cup {NoCall}]
    BY <1>1, <1>4, <1>11 DEF ConsumePackage, Eligible, QuotaTypeOK, Call, ConsumeSteps
  <2> QED BY <1>11, <2>1 DEF ConsumePackage, QuotaTypeOK
<1>12. CASE ConsumeDecrement(p)
  <2>1. \A k \in Packages :
           [packages[k] EXCEPT !.remaining = IF @ > 0 THEN @ - 1 ELSE @] \in Package
    BY DEF QuotaTypeOK, Package, QuotaAssumption
  <2>2. packages' \in [Packages -> Package]
    BY <1>12, <2>1 DEF ConsumeDecrement, QuotaTypeOK
  <2> QED BY <1>4, <1>12, <2>2 DEF ConsumeDecrement, QuotaTypeOK, ConsumeSteps
<1>13. CASE ConsumeAddon(p)
  <2>1. AddAddon(counter[m], -1) \in Counter
    BY <1>3 DEF AddAddon, Counter
  <2> QED BY <1>2, <1>4, <1>13, <2>1, SetCounterType DEF ConsumeAddon, QuotaTypeOK, ConsumeSteps
<1>14. CASE ConsumeLedger(p)
  BY <1>4, <1>5, <1>14 DEF ConsumeLedger, QuotaTypeOK, Outcomes
<1>15. CASE ReleaseCheck(p)
  BY <1>4, <1>15 DEF ReleaseCheck, QuotaTypeOK, Outcomes, ReleaseSteps
<1>16. CASE ReleaseReserved(p)
  <2>1. AddReserved(counter[m], -1) \in Counter
    BY <1>3, CounterTypes
  <2> QED BY <1>2, <1>4, <1>16, <2>1, SetCounterType DEF ReleaseReserved, QuotaTypeOK, ReleaseSteps
<1>17. CASE ReleaseLedger(p)
  BY <1>4, <1>5, <1>17 DEF ReleaseLedger, QuotaTypeOK, Outcomes
<1> QED BY <1>6, <1>7, <1>8, <1>9, <1>10, <1>11, <1>12, <1>13, <1>14, <1>15, <1>16, <1>17
        DEF QuotaStep

\* so do payments, the calendar and the monthly reset
LEMMA SurroundingTypes ==
  ASSUME QuotaAssumption, QuotaTypeOK,
         \/ \E k \in Packages : Activate(k) \/ Expire(k)
         \/ TurnMonth \/ ResetRead \/ ResetWrite
  PROVE  QuotaTypeOK'
<1>1. CASE \E k \in Packages : Activate(k)
  <2>1. PICK k \in Packages : Activate(k)
    BY <1>1
  <2>0. \A included \in {0, Plan} : [NewCounter EXCEPT !.included = included] \in Counter
    BY CounterTypes DEF Counter, QuotaAssumption
  <2>2. PICK c \in Counter : SetCounter(month, AddAddon(c, PackageSize))
    <3>1. counter[month] \in Counter
      BY DEF QuotaTypeOK
    <3> QED BY <2>1, <2>0, <3>1 DEF Activate
  <2>3. AddAddon(c, PackageSize) \in Counter
    BY CounterTypes DEF QuotaAssumption
  <2>4. counter' \in [Months -> Counter]
    BY <2>2, <2>3, SetCounterType DEF QuotaTypeOK
  <2>5. packages' \in [Packages -> Package]
    BY <2>1 DEF Activate, QuotaTypeOK, Package, QuotaAssumption
  <2> QED BY <2>1, <2>4, <2>5 DEF Activate, QuotaTypeOK
<1>2. CASE \E k \in Packages : Expire(k)
  <2>1. PICK k \in Packages : Expire(k)
    BY <1>2
  <2>2. packages' \in [Packages -> Package]
    BY <2>1 DEF Expire, QuotaTypeOK, Package
  <2> QED BY <2>1, <2>2 DEF Expire, QuotaTypeOK
<1>3. CASE TurnMonth
  BY <1>3 DEF TurnMonth, QuotaTypeOK, Reset
<1>4. CASE ResetRead
  BY <1>4, RemainingNat DEF ResetRead, QuotaTypeOK, Reset
<1>5. CASE ResetWrite
  <2>1. [NewCounter EXCEPT !.addon = reset.carry] \in Counter
    BY CounterTypes DEF QuotaTypeOK, Reset, Counter
  <2>2. counter' \in [Months -> Counter]
    BY <1>5, <2>1, SetCounterType DEF ResetWrite, QuotaTypeOK
  <2> QED BY <1>5, <2>2 DEF ResetWrite, QuotaTypeOK, Reset
<1> QED BY <1>1, <1>2, <1>3, <1>4, <1>5

\* the quota starts typed
LEMMA QuotaInitTypes ==
  ASSUME QuotaAssumption, QuotaInit
  PROVE  QuotaTypeOK
BY DEF QuotaAssumption, QuotaInit, QuotaTypeOK, Counter, NoCounter, Package, NoPackage, Reset, Call, NoCall

-----------------------------------------------------------------------------
(* The service and its clients *)

\* what a caller asks for is typed, and so is what the job then knows
LEMMA ClientTypes ==
  ASSUME TypeOK, NEW p \in Callers,
         \/ Granted(p) \/ Finished(p) \/ Crash(p)
         \/ \E d \in Docs : AskReserve(p, d) \/ AskConsume(p, d) \/ AskRelease(p, d)
  PROVE  TypeOK'
<1>1. CASE Granted(p)
  <2>1. call[p] \in Call
    BY <1>1, CallTypes DEF Granted, TypeOK
  <2>2. job' \in [Docs -> Job]
    BY <1>1, <2>1 DEF Granted, TypeOK, Job, Call
  <2>3. call' \in [Callers -> Call \cup {NoCall}]
    BY <1>1, CallTypes DEF Granted, TypeOK
  <2> QED BY <1>1, <2>2, <2>3 DEF Granted, TypeOK, QuotaTypeOK
<1>2. CASE Finished(p)
  BY <1>2, CallTypes DEF Finished, TypeOK, QuotaTypeOK
<1>3. CASE Crash(p)
  <2>1. crashes' \in 0 .. MaxCrashes /\ adrift' \in Nat
    BY <1>3, ClientsAssumption DEF Crash, TypeOK
  <2> QED BY <1>3, <2>1, CallTypes DEF Crash, TypeOK, QuotaTypeOK
<1>4. ASSUME NEW d \in Docs, AskReserve(p, d)
      PROVE  TypeOK'
  <2>1. ReserveCall(d) \in Call
    BY StartTypes DEF TypeOK, QuotaTypeOK
  <2> QED BY <1>4, <2>1 DEF AskReserve, TypeOK, QuotaTypeOK
<1>5. ASSUME NEW d \in Docs, AskConsume(p, d)
      PROVE  TypeOK'
  <2>1. job[d] \in Job
    BY DEF TypeOK
  <2>2. ConsumeCall(d, job[d].period, job[d].addon) \in Call
    BY <2>1, StartTypes DEF TypeOK, Job
  <2>3. [job[d] EXCEPT !.state = "consumed"] \in Job
    BY <2>1 DEF Job
  <2> QED BY <1>5, <2>2, <2>3 DEF AskConsume, TypeOK, QuotaTypeOK
<1>6. ASSUME NEW d \in Docs, AskRelease(p, d)
      PROVE  TypeOK'
  <2>1. job[d] \in Job
    BY DEF TypeOK
  <2>2. ReleaseCall(d, job[d].period) \in Call
    BY <2>1, StartTypes DEF TypeOK, Job
  <2>3. [job[d] EXCEPT !.state = "released"] \in Job
    BY <2>1 DEF Job
  <2> QED BY <1>6, <2>2, <2>3 DEF AskRelease, TypeOK, QuotaTypeOK
<1> QED BY <1>1, <1>2, <1>3, <1>4, <1>5, <1>6

\* The types of every row, call and job, whatever the faults and crashes.
THEOREM Typing == Spec => []TypeOK
<1>1. Init => TypeOK
  BY QuotaAssumption, ClientsAssumption, QuotaInitTypes DEF QuotaAssumption, ClientsAssumption, Init, TypeOK, Job
<1>2. TypeOK /\ [Next]_vars => TypeOK'
  <2>. SUFFICES ASSUME TypeOK, [Next]_vars PROVE TypeOK'
    OBVIOUS
  <2>1. ASSUME NEW p \in Callers, Serve(p)
        PROVE  TypeOK'
    <3>1. QuotaTypeOK'
      BY <2>1, QuotaAssumption, QuotaStepTypes DEF Serve, TypeOK
    <3>2. adrift' \in Nat
      BY <2>1 DEF Serve, TypeOK
    <3>3. stranded \in [Months -> Nat] /\ \E kept \in BOOLEAN :
            stranded' = [stranded EXCEPT ![call[p].period] = IF kept THEN @ + 1 ELSE @]
      BY <2>1 DEF Serve, TypeOK
    <3>4. stranded' \in [Months -> Nat]
      <4>1. PICK kept \in BOOLEAN :
              stranded' = [stranded EXCEPT ![call[p].period] = IF kept THEN @ + 1 ELSE @]
        BY <3>3
      <4>. DEFINE x == call[p].period
                  n == IF kept THEN stranded[x] + 1 ELSE stranded[x]
      <4>2. stranded' = [m \in Months |-> IF m = x THEN n ELSE stranded[m]]
        BY <3>3, <4>1
      <4>3. \A m \in Months : m = x => n \in Nat
        BY <3>3
      <4> HIDE DEF x, n
      <4> QED BY <3>3, <4>2, <4>3
    <3> QED BY <2>1, <3>1, <3>2, <3>4 DEF Serve, TypeOK
  <2>2. ASSUME NEW k \in Packages, Pay(k) \/ Lapse(k)
        PROVE  TypeOK'
    <3>1. QuotaTypeOK'
      BY <2>2, QuotaAssumption, SurroundingTypes DEF Pay, Lapse, TypeOK
    <3>2. packages[k].remaining \in Nat
      BY QuotaAssumption DEF QuotaAssumption, TypeOK, QuotaTypeOK, Package
    <3>3. adrift' \in Nat
      BY <2>2, <3>2 DEF Pay, Lapse, TypeOK
    <3> QED BY <2>2, <3>1, <3>3 DEF Pay, Lapse, TypeOK
  <2>3. CASE NextMonth
    BY <2>3, QuotaAssumption, SurroundingTypes DEF NextMonth, TypeOK
  <2>4. CASE ResetQuota
    BY <2>4, QuotaAssumption, SurroundingTypes DEF ResetQuota, TypeOK
  <2>5. CASE UNCHANGED vars
    BY <2>5 DEF vars, quotaVars, TypeOK, QuotaTypeOK
  <2> QED BY <2>1, <2>2, <2>3, <2>4, <2>5, ClientTypes DEF Next
<1> QED BY <1>1, <1>2, PTL DEF Spec
-----------------------------------------------------------------------------
(* Counting open reservations *)

\* the open reservations of a period are finitely many documents
LEMMA OpenFinite ==
  ASSUME NEW m \in Months
  PROVE  IsFiniteSet(OpenIn(m)) /\ Cardinality(OpenIn(m)) \in Nat
BY QuotaAssumption, FS_Subset, FS_CardinalityType DEF QuotaAssumption, OpenIn

\* no reservation opened and none taken off: still backed
LEMMA BackedSame ==
  ASSUME QuotaTypeOK, QuotaTypeOK', ReservationsBacked, held' \subseteq held,
         \A m \in Months : counter'[m].reserved >= counter[m].reserved
  PROVE  ReservationsBacked'
<1>. SUFFICES ASSUME NEW m \in Months
              PROVE  counter'[m].reserved >= Cardinality(OpenIn(m)')
  BY DEF ReservationsBacked
<1>1. OpenIn(m)' \subseteq OpenIn(m)
  BY DEF OpenIn
<1>2. Cardinality(OpenIn(m)') <= Cardinality(OpenIn(m)) /\ Cardinality(OpenIn(m)') \in Nat
  BY <1>1, OpenFinite, FS_Subset, FS_CardinalityType
<1>3. counter[m].reserved >= Cardinality(OpenIn(m))
  BY DEF ReservationsBacked
<1>4. counter[m].reserved \in Int /\ counter'[m].reserved \in Int
  BY DEF QuotaTypeOK, Counter
<1>5. counter'[m].reserved >= counter[m].reserved
  OBVIOUS
<1> QED BY <1>2, <1>3, <1>4, <1>5, OpenFinite

\* one unit off reserved_count for the document that held it: still backed
LEMMA BackedDrop ==
  ASSUME QuotaTypeOK, QuotaTypeOK', ReservationsBacked,
         NEW d \in Docs, NEW m \in Months, <<d, m>> \in held,
         held' = held \ {<<d, m>>},
         counter' = [counter EXCEPT ![m] = AddReserved(counter[m], -1)]
  PROVE  ReservationsBacked'
<1>. SUFFICES ASSUME NEW n \in Months
              PROVE  counter'[n].reserved >= Cardinality(OpenIn(n)')
  BY DEF ReservationsBacked
<1>1. counter[n].reserved >= Cardinality(OpenIn(n)) /\ counter[n].reserved \in Int
  BY DEF ReservationsBacked, QuotaTypeOK, Counter
<1>2. CASE n # m
  <2>1. OpenIn(n)' = OpenIn(n)
    BY <1>2 DEF OpenIn
  <2>2. counter'[n] = counter[n]
    BY <1>2 DEF QuotaTypeOK
  <2> QED BY <1>1, <2>1, <2>2
<1>3. CASE n = m
  <2>1. OpenIn(n)' = OpenIn(n) \ {d} /\ d \in OpenIn(n)
    BY <1>3 DEF OpenIn
  <2>2. Cardinality(OpenIn(n)') = Cardinality(OpenIn(n)) - 1
    BY <2>1, OpenFinite, FS_RemoveElement
  <2>3. counter'[n] = AddReserved(counter[n], -1)
    BY <1>3 DEF QuotaTypeOK
  <2>4. counter'[n].reserved >= counter[n].reserved - 1
    BY <2>3, <1>1 DEF AddReserved, QuotaTypeOK, Counter
  <2>5. counter'[n].reserved \in Int
    BY DEF QuotaTypeOK, Counter
  <2> QED BY <1>1, <2>2, <2>4, <2>5, OpenFinite
<1> QED BY <1>2, <1>3

\* one unit onto reserved_count for the document that now holds it
LEMMA BackedAdd ==
  ASSUME QuotaTypeOK, QuotaTypeOK', ReservationsBacked,
         NEW d \in Docs, NEW m \in Months,
         held' = held \cup {<<d, m>>},
         counter' = [counter EXCEPT ![m] = [counter[m] EXCEPT !.reserved = @ + 1]]
  PROVE  ReservationsBacked'
<1>. SUFFICES ASSUME NEW n \in Months
              PROVE  counter'[n].reserved >= Cardinality(OpenIn(n)')
  BY DEF ReservationsBacked
<1>1. counter[n].reserved >= Cardinality(OpenIn(n)) /\ counter[n].reserved \in Int
  BY DEF ReservationsBacked, QuotaTypeOK, Counter
<1>2. CASE n # m
  <2>1. OpenIn(n)' = OpenIn(n)
    BY <1>2 DEF OpenIn
  <2>2. counter'[n] = counter[n]
    BY <1>2 DEF QuotaTypeOK
  <2> QED BY <1>1, <2>1, <2>2
<1>3. CASE n = m
  <2>1. OpenIn(n)' = OpenIn(n) \cup {d}
    BY <1>3 DEF OpenIn
  <2>2. Cardinality(OpenIn(n)') <= Cardinality(OpenIn(n)) + 1 /\ Cardinality(OpenIn(n)') \in Nat
    <3>1. IsFiniteSet(OpenIn(n)) /\ Cardinality(OpenIn(n)) \in Nat
      BY OpenFinite
    <3>2. Cardinality(OpenIn(n) \cup {d}) =
            IF d \in OpenIn(n) THEN Cardinality(OpenIn(n)) ELSE Cardinality(OpenIn(n)) + 1
      BY <3>1, FS_AddElement
    <3> QED BY <2>1, <3>1, <3>2
  <2>3. counter'[n].reserved = counter[n].reserved + 1
    BY <1>3 DEF QuotaTypeOK, Counter
  <2> QED BY <1>1, <2>2, <2>3, OpenFinite
<1> QED BY <1>2, <1>3

-----------------------------------------------------------------------------
(* A step of one call leaves the other documents alone *)

\* a caller is idle exactly when it has no call, and else it has a typed one
LEMMA IdleCall ==
  ASSUME QuotaTypeOK, NEW p \in Callers
  PROVE  /\ Idle(p) <=> call[p].pc = "idle"
         /\ ~Idle(p) => call[p] \in Call
BY DEF QuotaTypeOK, Idle, Call, NoCall, ReserveSteps, ConsumeSteps, ReleaseSteps, Outcomes

\* p's call moves on and only its document's reservation changes: the callers
\* stay serial, and what the other calls and idle jobs rely on stays true
LEMMA OthersAgree ==
  ASSUME TypeOK, TypeOK', BooksAgree, NEW p \in Callers, ~Idle(p), ~Idle(p)',
         NEW c, call' = [call EXCEPT ![p] = c], c.doc = call[p].doc,
         job' = job, ledger \subseteq ledger',
         \A h \in Docs \X Months : h[1] # c.doc => (h \in held' <=> h \in held)
  PROVE  /\ Serial'
         /\ \A d \in Docs : Busy(d)' \/ Settled(d)'
         /\ \A q \in Callers \ {p} : ~Idle(q)' => CallSound(q)'
<1>1. /\ call'[p] = c
      /\ \A q \in Callers \ {p} : call'[q] = call[q] /\ (Idle(q)' <=> Idle(q))
  BY DEF TypeOK, QuotaTypeOK, Idle
<1>2. Serial'
  BY <1>1 DEF BooksAgree, Serial
<1>3. ASSUME NEW d \in Docs, ~Busy(d)'
      PROVE  Settled(d)'
  <2>1. ~Busy(d) /\ d # c.doc
    BY <1>1, <1>3 DEF Busy
  <2>2. Settled(d)
    BY <2>1 DEF BooksAgree
  <2>3. job[d].period \in Months
    BY DEF TypeOK, Job
  <2>4. <<d, job[d].period>> \in held' <=> <<d, job[d].period>> \in held
    BY <2>1, <2>3
  <2> QED BY <2>2, <2>4 DEF Settled
<1>4. ASSUME NEW q \in Callers \ {p}, ~Idle(q)'
      PROVE  CallSound(q)'
  <2>1. ~Idle(q) /\ call'[q] = call[q] /\ CallSound(q)
    BY <1>1, <1>4 DEF BooksAgree
  <2>2. call[q].doc # c.doc /\ call[q] \in Call
    BY <2>1, IdleCall DEF BooksAgree, Serial, TypeOK
  <2>3. <<call[q].doc, call[q].period>> \in held' <=> <<call[q].doc, call[q].period>> \in held
    BY <2>2 DEF Call
  <2> QED BY <2>1, <2>3 DEF CallSound
<1> QED BY <1>2, <1>3, <1>4

-----------------------------------------------------------------------------
(* The steps of a call keep the books *)

\* what a step of p has to show for itself, the rest is OthersAgree
LEMMA BooksFromStep ==
  ASSUME TypeOK, TypeOK', BooksAgree, NEW p \in Callers, ~Idle(p), ~Idle(p)',
         NEW c, call' = [call EXCEPT ![p] = c], c.doc = call[p].doc,
         job' = job, ledger \subseteq ledger',
         \A h \in Docs \X Months : h[1] # c.doc => (h \in held' <=> h \in held),
         Rows', Calendar', CallSound(p)', ReservationsBacked'
  PROVE  BooksAgree'
<1>1. Serial' /\ (\A d \in Docs : Busy(d)' \/ Settled(d)')
  BY OthersAgree
<1>2. \A q \in Callers \ {p} : ~Idle(q)' => CallSound(q)'
  BY OthersAgree
<1> QED BY <1>1, <1>2 DEF BooksAgree

\* steps of a call that leave counter, held and the calendar as they are
LEMMA QuietStep ==
  ASSUME TypeOK, TypeOK', BooksAgree, NEW p \in Callers,
         \/ ConsumeCheck(p) \/ ConsumePackage(p) \/ ConsumeDecrement(p)
         \/ ConsumeLedger(p) \/ ReleaseLedger(p),
         UNCHANGED <<job, crashes>>
  PROVE  BooksAgree'
<1>. DEFINE c == call'[p]
<1>1. /\ ~Idle(p) /\ call[p] \in Call
      /\ ~Idle(p)' /\ call' = [call EXCEPT ![p] = c]
      /\ c.doc = call[p].doc /\ c.period = call[p].period
      /\ c.pc \notin ReserveSteps
  BY IdleCall DEF ConsumeCheck, ConsumePackage, ConsumeDecrement, ConsumeLedger, ReleaseLedger,
     Goto, TypeOK, QuotaTypeOK, Idle, NoCall, Call, ReserveSteps, ConsumeSteps, ReleaseSteps, Outcomes
<1>2. /\ UNCHANGED <<counter, held, month, reset, job>>
      /\ ledger \subseteq ledger'
  BY DEF ConsumeCheck, ConsumePackage, ConsumeDecrement, ConsumeLedger, ReleaseLedger
<1>3. Rows' /\ ReservationsBacked'
  BY <1>2 DEF BooksAgree, Rows, ReservationsBacked, OpenIn
<1>4. Calendar'
  <2>1. \A q \in Callers \ {p} : call'[q] = call[q]
    BY <1>1 DEF TypeOK, QuotaTypeOK
  <2> QED BY <1>1, <1>2, <2>1 DEF BooksAgree, Calendar, Elapsed, Idle
<1>5. CallSound(p)
  BY <1>1 DEF BooksAgree
<1>6. ASSUME ConsumeCheck(p)
      PROVE  CallSound(p)'
  <2>1. /\ call[p].pc = "co_check"
        /\ c.pc = IF ConsumeKey(call[p].period, call[p].doc) \in ledger THEN "closed" ELSE "co_used"
    BY <1>6 DEF ConsumeCheck, ConsumeKey, Goto, TypeOK, QuotaTypeOK
  <2> QED BY <1>1, <1>2, <1>5, <2>1 DEF CallSound, ConsumeKey, ReleaseKey,
        ReserveSteps, ConsumeSteps, ReleaseSteps
<1>7. ASSUME ConsumePackage(p) \/ ConsumeDecrement(p)
      PROVE  CallSound(p)'
  <2>1. call[p].pc \in ConsumeSteps /\ c.pc \in {"co_decrement", "co_addon", "co_ledger"}
    BY <1>1, <1>7 DEF ConsumePackage, ConsumeDecrement, Goto, TypeOK, QuotaTypeOK, ConsumeSteps, Call
  <2> QED BY <1>1, <1>2, <1>5, <2>1 DEF CallSound, ConsumeKey, ReleaseKey,
        ReserveSteps, ConsumeSteps, ReleaseSteps
<1>8. ASSUME ConsumeLedger(p)
      PROVE  CallSound(p)'
  <2>1. /\ call[p].pc = "co_ledger" /\ c.pc = "closed"
        /\ ConsumeKey(call[p].period, call[p].doc) \in ledger'
    BY <1>8 DEF ConsumeLedger, ConsumeKey, Goto, TypeOK, QuotaTypeOK
  <2> QED BY <1>1, <1>2, <1>5, <2>1 DEF CallSound, ConsumeKey, ReleaseKey,
        ReserveSteps, ConsumeSteps, ReleaseSteps
<1>9. ASSUME ReleaseLedger(p)
      PROVE  CallSound(p)'
  <2>1. /\ call[p].pc = "rel_ledger" /\ c.pc = "closed"
        /\ ReleaseKey(call[p].period, call[p].doc) \in ledger'
    BY <1>9 DEF ReleaseLedger, ReleaseKey, Goto, TypeOK, QuotaTypeOK
  <2> QED BY <1>1, <1>2, <1>5, <2>1 DEF CallSound, ConsumeKey, ReleaseKey,
        ReserveSteps, ConsumeSteps, ReleaseSteps
<1>10. CallSound(p)'
  BY <1>6, <1>7, <1>8, <1>9
<1> QED BY <1>1, <1>2, <1>3, <1>4, <1>10, BooksFromStep

\* check_and_reserve: a unit is counted in the commit that opens the reservation
LEMMA ReserveStep ==
  ASSUME TypeOK, TypeOK', BooksAgree, NEW p \in Callers,
         ReserveRead(p) \/ ReserveLock(p), UNCHANGED <<job, crashes>>
  PROVE  BooksAgree'
<1>. DEFINE c == call'[p]
            d == call[p].doc
            m == call[p].period
<1>1. /\ ~Idle(p) /\ call[p] \in Call /\ call[p].pc \in ReserveSteps
      /\ ~Idle(p)' /\ call' = [call EXCEPT ![p] = c]
      /\ c.doc = d /\ c.period = m
      /\ c.pc \in {"res_lock", "exceeded", "granted"}
  BY IdleCall DEF ReserveRead, ReserveLock, Goto, TypeOK, QuotaTypeOK, Idle, NoCall, Call,
     ReserveSteps, ConsumeSteps, ReleaseSteps, Outcomes
<1>2. /\ UNCHANGED <<ledger, month, reset, job>>
      /\ \A q \in Callers \ {p} : call'[q] = call[q]
      /\ d \in Docs /\ m \in Months /\ counter[m] \in Counter
  BY <1>1 DEF ReserveRead, ReserveLock, TypeOK, QuotaTypeOK, Call
<1>3. CallSound(p) /\ Elapsed(m)
  BY <1>1 DEF BooksAgree, Calendar
<1>4. ReservationsBacked /\ Rows
  BY DEF BooksAgree
<1>5. AvailableQuota(counter[m]) \in Int
  BY <1>2 DEF AvailableQuota, AvailableIncluded, Counter
<1>6. CASE ReserveRead(p)
  <2>1. held' = held /\ c.pc # "granted"
    BY <1>1, <1>6 DEF ReserveRead, TypeOK, QuotaTypeOK
  <2>2. /\ counter' = [counter EXCEPT ![m] = IF counter[m].exists THEN counter[m] ELSE NewCounter]
        /\ ~counter[m].exists => counter[m].reserved = 0
        /\ NewCounter.exists /\ NewCounter.reserved = 0
    BY <1>2, <1>4, <1>6 DEF ReserveRead, SetCounter, Rows, NewCounter, NoCounter
  <2>3. \A n \in Months : counter'[n].reserved >= counter[n].reserved
    BY <1>2, <2>2 DEF TypeOK, QuotaTypeOK, Counter
  <2>4. ReservationsBacked'
    BY <1>4, <2>1, <2>3, BackedSame DEF TypeOK
  <2>5. Rows'
    BY <1>4, <2>2 DEF Rows, TypeOK, QuotaTypeOK
  <2>6. Calendar'
    BY <1>1, <1>2, <2>1 DEF BooksAgree, Calendar, Elapsed, Idle
  <2>7. CallSound(p)'
    BY <1>1, <1>2, <1>3, <2>1 DEF CallSound, ConsumeKey, ReleaseKey,
       ReserveSteps, ConsumeSteps, ReleaseSteps
  <2> QED BY <1>1, <1>2, <2>1, <2>4, <2>5, <2>6, <2>7, BooksFromStep
<1>7. CASE ReserveLock(p) /\ AvailableQuota(counter[m]) < 1
  <2>1. /\ UNCHANGED <<held, counter>>
        /\ c.pc = "exceeded"
    BY <1>1, <1>7, <1>5 DEF ReserveLock, Goto, TypeOK, QuotaTypeOK, Call
  <2>2. Rows' /\ ReservationsBacked'
    BY <1>4, <2>1 DEF Rows, ReservationsBacked, OpenIn
  <2>3. Calendar'
    BY <1>1, <1>2, <2>1 DEF BooksAgree, Calendar, Elapsed, Idle, ReserveSteps
  <2>4. CallSound(p)'
    BY <1>1, <1>2, <1>3, <2>1 DEF CallSound, ConsumeKey, ReleaseKey,
       ReserveSteps, ConsumeSteps, ReleaseSteps
  <2> QED BY <1>1, <1>2, <2>1, <2>2, <2>3, <2>4, BooksFromStep
<1>8. CASE ReserveLock(p) /\ AvailableQuota(counter[m]) >= 1
  <2>1. /\ held' = held \cup {<<d, m>>}
        /\ counter' = [counter EXCEPT ![m] = [counter[m] EXCEPT !.reserved = @ + 1]]
        /\ c.pc = "granted"
    BY <1>1, <1>8, <1>5 DEF ReserveLock, SetCounter, Goto, TypeOK, QuotaTypeOK, Call
  <2>2. counter[m].exists
    BY <1>2, <1>4, <1>8 DEF Rows, NoCounter, AvailableQuota, AvailableIncluded
  <2>3. ReservationsBacked'
    BY <1>2, <1>4, <2>1, BackedAdd DEF TypeOK
  <2>4. Rows'
    BY <1>2, <1>4, <2>1, <2>2 DEF Rows, TypeOK, QuotaTypeOK, Counter
  <2>5. Calendar'
    BY <1>1, <1>2, <1>3, <2>1 DEF BooksAgree, Calendar, Elapsed, Idle, ReserveSteps
  <2>6. CallSound(p)'
    BY <1>1, <1>2, <2>1 DEF CallSound, ReserveSteps, ConsumeSteps, ReleaseSteps
  <2>7. \A h \in Docs \X Months : h[1] # c.doc => (h \in held' <=> h \in held)
    BY <1>1, <2>1
  <2> QED BY <1>1, <1>2, <2>3, <2>4, <2>5, <2>6, <2>7, BooksFromStep
<1>9. AvailableQuota(counter[m]) < 1 \/ AvailableQuota(counter[m]) >= 1
  BY <1>5
<1> QED BY <1>6, <1>7, <1>8, <1>9

\* steps of a call that count an emission or take a credit: reserved_count and
\* the reservations stay as they are
LEMMA CountStep ==
  ASSUME TypeOK, TypeOK', BooksAgree, NEW p \in Callers,
         ConsumeUsed(p) \/ ConsumeAddon(p), UNCHANGED <<job, crashes>>
  PROVE  BooksAgree'
<1>. DEFINE c == call'[p]
            m == call[p].period
<1>1. /\ ~Idle(p) /\ call[p] \in Call
      /\ ~Idle(p)' /\ call' = [call EXCEPT ![p] = c]
      /\ c.doc = call[p].doc /\ c.period = m
      /\ \/ call[p].pc = "co_used" /\ c.pc = "co_reserved"
         \/ call[p].pc = "co_addon" /\ c.pc = "co_ledger"
  BY IdleCall DEF ConsumeUsed, ConsumeAddon, Goto, TypeOK, QuotaTypeOK, Idle, NoCall, Call
<1>2. /\ UNCHANGED <<ledger, held, month, reset, job>>
      /\ \A q \in Callers \ {p} : call'[q] = call[q]
      /\ m \in Months /\ counter[m] \in Counter
  BY <1>1 DEF ConsumeUsed, ConsumeAddon, TypeOK, QuotaTypeOK, Call
<1>3. PICK r \in {AddUsed(counter[m], 1), AddAddon(counter[m], -1)} :
        counter' = [counter EXCEPT ![m] = r]
  BY DEF ConsumeUsed, ConsumeAddon, SetCounter
<1>4. /\ r.reserved = counter[m].reserved /\ r.exists = counter[m].exists
      /\ ~counter[m].exists => r = counter[m]
  BY <1>2, <1>3 DEF AddUsed, AddAddon, Counter
<1>5. ReservationsBacked'
  <2>1. \A n \in Months : counter'[n].reserved >= counter[n].reserved
    BY <1>2, <1>3, <1>4 DEF TypeOK, QuotaTypeOK, Counter
  <2> QED BY <1>2, <2>1, BackedSame DEF TypeOK, BooksAgree
<1>6. Rows'
  BY <1>2, <1>3, <1>4 DEF BooksAgree, Rows, TypeOK, QuotaTypeOK
<1>7. Calendar'
  BY <1>1, <1>2 DEF BooksAgree, Calendar, Elapsed, Idle, ReserveSteps
<1>8. CallSound(p)
  BY <1>1 DEF BooksAgree
<1>9. CallSound(p)'
  BY <1>1, <1>2, <1>8 DEF CallSound, ReserveSteps, ConsumeSteps, ReleaseSteps
<1> QED BY <1>1, <1>2, <1>5, <1>6, <1>7, <1>9, BooksFromStep

\* decrement_reserved: only a call whose document holds the unit takes it off
LEMMA UnreserveStep ==
  ASSUME TypeOK, TypeOK', BooksAgree, NEW p \in Callers,
         ConsumeReserved(p) \/ ReleaseReserved(p), UNCHANGED <<job, crashes>>
  PROVE  BooksAgree'
<1>. DEFINE c == call'[p]
            d == call[p].doc
            m == call[p].period
<1>1. /\ ~Idle(p) /\ call[p] \in Call
      /\ ~Idle(p)' /\ call' = [call EXCEPT ![p] = c]
      /\ c.doc = d /\ c.period = m
      /\ \/ call[p].pc = "co_reserved" /\ c.pc \in {"co_package", "co_ledger"}
         \/ call[p].pc = "rel_reserved" /\ c.pc = "rel_ledger"
  BY IdleCall DEF ConsumeReserved, ReleaseReserved, Goto, TypeOK, QuotaTypeOK, Idle, NoCall, Call
<1>2. /\ UNCHANGED <<ledger, month, reset, job>>
      /\ \A q \in Callers \ {p} : call'[q] = call[q]
      /\ d \in Docs /\ m \in Months /\ counter[m] \in Counter
      /\ held' = held \ {<<d, m>>}
      /\ counter' = [counter EXCEPT ![m] = AddReserved(counter[m], -1)]
  BY <1>1 DEF ConsumeReserved, ReleaseReserved, SetCounter, TypeOK, QuotaTypeOK, Call
<1>3. CallSound(p)
  BY <1>1 DEF BooksAgree
<1>4. <<d, m>> \in held
  BY <1>1, <1>3 DEF CallSound
<1>5. ReservationsBacked'
  BY <1>2, <1>4, BackedDrop DEF TypeOK, BooksAgree
<1>6. Rows'
  <2>1. /\ AddReserved(counter[m], -1).exists = counter[m].exists
        /\ ~counter[m].exists => AddReserved(counter[m], -1) = counter[m]
    BY <1>2 DEF AddReserved, Counter
  <2> QED BY <1>2, <2>1 DEF BooksAgree, Rows, TypeOK, QuotaTypeOK
<1>7. Calendar'
  BY <1>1, <1>2 DEF BooksAgree, Calendar, Elapsed, Idle, ReserveSteps
<1>8. CallSound(p)'
  BY <1>1, <1>2, <1>3 DEF CallSound, ReserveSteps, ConsumeSteps, ReleaseSteps
<1>9. \A h \in Docs \X Months : h[1] # c.doc => (h \in held' <=> h \in held)
  BY <1>1, <1>2
<1> QED BY <1>1, <1>2, <1>5, <1>6, <1>7, <1>8, <1>9, BooksFromStep

\* release() of a document already released: at most the reservation is forgotten
LEMMA ReleaseCheckStep ==
  ASSUME TypeOK, TypeOK', BooksAgree, NEW p \in Callers,
         ReleaseCheck(p), UNCHANGED <<job, crashes>>
  PROVE  BooksAgree'
<1>. DEFINE c == call'[p]
            d == call[p].doc
            m == call[p].period
<1>1. /\ ~Idle(p) /\ call[p] \in Call
      /\ ~Idle(p)' /\ call' = [call EXCEPT ![p] = c]
      /\ c.doc = d /\ c.period = m
      /\ call[p].pc = "rel_check"
      /\ c.pc = IF ReleaseKey(m, d) \in ledger THEN "closed" ELSE "rel_reserved"
  BY IdleCall DEF ReleaseCheck, ReleaseKey, Goto, TypeOK, QuotaTypeOK, Idle, NoCall, Call
<1>2. /\ UNCHANGED <<counter, ledger, month, reset, job>>
      /\ \A q \in Callers \ {p} : call'[q] = call[q]
      /\ d \in Docs /\ m \in Months
      /\ held' = IF ReleaseKey(m, d) \in ledger THEN held \ {<<d, m>>} ELSE held
  BY <1>1 DEF ReleaseCheck, ReleaseKey, TypeOK, QuotaTypeOK, Call
<1>3. CallSound(p)
  BY <1>1 DEF BooksAgree
<1>4. ReservationsBacked'
  <2>1. \A n \in Months : counter'[n].reserved >= counter[n].reserved
    BY <1>2 DEF TypeOK, QuotaTypeOK, Counter
  <2> QED BY <1>2, <2>1, BackedSame DEF TypeOK, BooksAgree
<1>5. Rows'
  BY <1>2 DEF BooksAgree, Rows
<1>6. Calendar'
  BY <1>1, <1>2 DEF BooksAgree, Calendar, Elapsed, Idle, ReserveSteps
<1>7. CallSound(p)'
  BY <1>1, <1>2, <1>3 DEF CallSound, ConsumeKey, ReleaseKey,
     ReserveSteps, ConsumeSteps, ReleaseSteps
<1>8. \A h \in Docs \X Months : h[1] # c.doc => (h \in held' <=> h \in held)
  BY <1>1, <1>2
<1> QED BY <1>1, <1>2, <1>4, <1>5, <1>6, <1>7, <1>8, BooksFromStep

-----------------------------------------------------------------------------
(* The clients, the calendar and the payments keep the books *)

\* a document that nobody serves may start a call its job vouches for
LEMMA AskStep ==
  ASSUME TypeOK, TypeOK', BooksAgree, NEW p \in Callers, NEW d \in Docs, ~Busy(d), Idle(p),
         NEW c \in Call, c.doc = d, call' = [call EXCEPT ![p] = c],
         \A e \in Docs \ {d} : job'[e] = job[e],
         UNCHANGED <<month, counter, ledger, held, reset>>,
         c.pc \in ReserveSteps => Elapsed(c.period), CallSound(p)'
  PROVE  BooksAgree'
<1>1. /\ call'[p] = c /\ ~Idle(p)'
      /\ \A q \in Callers \ {p} : call'[q] = call[q] /\ (Idle(q)' <=> Idle(q))
  BY DEF TypeOK, QuotaTypeOK, Idle, Call, NoCall, ReserveSteps, ConsumeSteps, ReleaseSteps, Outcomes
<1>2. \A q \in Callers \ {p} : ~Idle(q) => call[q].doc # d /\ call[q] \in Call
  BY IdleCall DEF Busy, TypeOK
<1>3. Serial'
  BY <1>1, <1>2 DEF BooksAgree, Serial
<1>4. Rows' /\ ReservationsBacked'
  BY DEF BooksAgree, Rows, ReservationsBacked, OpenIn
<1>5. Calendar'
  BY <1>1 DEF BooksAgree, Calendar, Elapsed
<1>6. ASSUME NEW e \in Docs, ~Busy(e)'
      PROVE  Settled(e)'
  <2>1. e # d /\ ~Busy(e)
    BY <1>1, <1>6 DEF Busy
  <2> QED BY <2>1 DEF BooksAgree, Settled
<1>7. ASSUME NEW q \in Callers \ {p}, ~Idle(q)'
      PROVE  CallSound(q)'
  <2>1. /\ ~Idle(q) /\ call'[q] = call[q] /\ CallSound(q)
        /\ call[q].doc # d /\ call[q].doc \in Docs
    BY <1>1, <1>2, <1>7 DEF BooksAgree, Call
  <2>2. job'[call[q].doc] = job[call[q].doc]
    BY <2>1
  <2> QED BY <2>1, <2>2 DEF CallSound, ConsumeKey, ReleaseKey
<1> QED BY <1>1, <1>3, <1>4, <1>5, <1>6, <1>7 DEF BooksAgree

\* a call that has ended leaves a job that knows the truth
LEMMA EndStep ==
  ASSUME TypeOK, TypeOK', BooksAgree, NEW p \in Callers, ~Idle(p), EndCall(p),
         NEW d \in Docs, d = call[p].doc,
         \A e \in Docs \ {d} : job'[e] = job[e],
         UNCHANGED <<month, counter, ledger, held, reset>>,
         Settled(d)'
  PROVE  BooksAgree'
<1>1. /\ Idle(p)'
      /\ \A q \in Callers \ {p} : call'[q] = call[q] /\ (Idle(q)' <=> Idle(q))
  BY DEF EndCall, TypeOK, QuotaTypeOK, Idle
<1>2. \A q \in Callers \ {p} : ~Idle(q) => call[q].doc # d /\ call[q] \in Call
  BY IdleCall DEF BooksAgree, Serial, TypeOK
<1>3. Serial'
  BY <1>1 DEF BooksAgree, Serial
<1>4. Rows' /\ ReservationsBacked'
  BY DEF BooksAgree, Rows, ReservationsBacked, OpenIn
<1>5. Calendar'
  BY <1>1 DEF BooksAgree, Calendar, Elapsed
<1>6. ASSUME NEW e \in Docs, e # d, ~Busy(e)'
      PROVE  Settled(e)'
  <2>1. ~Busy(e) /\ job'[e] = job[e]
    BY <1>1, <1>6 DEF Busy
  <2> QED BY <2>1 DEF BooksAgree, Settled
<1>7. ASSUME NEW q \in Callers \ {p}, ~Idle(q)'
      PROVE  CallSound(q)'
  <2>1. /\ ~Idle(q) /\ call'[q] = call[q] /\ CallSound(q)
        /\ call[q].doc # d /\ call[q].doc \in Docs
    BY <1>1, <1>2, <1>7 DEF BooksAgree, Call
  <2>2. job'[call[q].doc] = job[call[q].doc]
    BY <2>1
  <2> QED BY <2>1, <2>2 DEF CallSound, ConsumeKey, ReleaseKey
<1> QED BY <1>1, <1>3, <1>4, <1>5, <1>6, <1>7 DEF BooksAgree

\* every action of a client
LEMMA ClientBooks ==
  ASSUME TypeOK, TypeOK', BooksAgree, "overlap" \notin Faults, "early" \notin Faults,
         NEW p \in Callers,
         \/ Granted(p) \/ Finished(p)
         \/ \E d \in Docs : AskReserve(p, d) \/ AskConsume(p, d) \/ AskRelease(p, d)
  PROVE  BooksAgree'
<1>1. CASE Granted(p)
  <2>. DEFINE d == call[p].doc
  <2>1. ~Idle(p) /\ call[p] \in Call /\ d \in Docs
    BY <1>1, IdleCall DEF Granted, TypeOK, Call
  <2>2. <<d, call[p].period>> \in held
    BY <1>1, <2>1 DEF Granted, BooksAgree, CallSound
  <2>3. PICK e \in Docs : e = call[p].doc
    BY <2>1
  <2>4. job'[e].state = "open" /\ job'[e].period = call[p].period
    BY <1>1, <2>3 DEF Granted, TypeOK
  <2>5. Settled(e)'
    BY <1>1, <2>2, <2>3, <2>4 DEF Granted, Settled
  <2> QED BY <1>1, <2>1, <2>3, <2>5, EndStep DEF Granted, TypeOK
<1>2. CASE Finished(p)
  <2>1. ~Idle(p) /\ call[p] \in Call /\ call[p].doc \in Docs
    BY <1>2, IdleCall DEF Finished, TypeOK, Call
  <2>2. PICK e \in Docs : e = call[p].doc
    BY <2>1
  <2>3. Settled(e)
    BY <1>2, <2>1, <2>2 DEF Finished, BooksAgree, CallSound, Settled
  <2>4. Settled(e)'
    BY <1>2, <2>3 DEF Finished, Settled, ConsumeKey, ReleaseKey
  <2> QED BY <1>2, <2>1, <2>2, <2>4, EndStep DEF Finished
<1>3. ASSUME NEW d \in Docs, AskReserve(p, d)
      PROVE  BooksAgree'
  <2>1. Idle(p) /\ ~Busy(d) /\ reset.pc = "idle" /\ job[d].state \in {"none", "released"}
    BY <1>3 DEF AskReserve, MayCall, PeriodOpen
  <2>2. /\ ReserveCall(d) \in Call /\ ReserveCall(d).doc = d
        /\ ReserveCall(d).pc = "res_read" /\ ReserveCall(d).period = month
    BY StartTypes DEF TypeOK, QuotaTypeOK, ReserveCall, Start
  <2>3. Elapsed(month)
    BY <2>1, QuotaAssumption DEF Elapsed, TypeOK, QuotaTypeOK, QuotaAssumption
  <2>4. Settled(d)
    BY <2>1 DEF BooksAgree
  <2>5. call'[p] = ReserveCall(d)
    BY <1>3 DEF AskReserve, TypeOK, QuotaTypeOK
  <2>6. CallSound(p)'
    BY <1>3, <2>1, <2>2, <2>4, <2>5 DEF AskReserve, Settled, CallSound, ConsumeKey, ReleaseKey,
       ReserveSteps, ConsumeSteps, ReleaseSteps
  <2> QED BY <1>3, <2>1, <2>2, <2>3, <2>6, AskStep DEF AskReserve
<1>4. ASSUME NEW d \in Docs, AskConsume(p, d)
      PROVE  BooksAgree'
  <2>. DEFINE c == ConsumeCall(d, job[d].period, job[d].addon)
  <2>1. Idle(p) /\ ~Busy(d) /\ job[d].state \in {"open", "consumed"} /\ job[d] \in Job
    BY <1>4 DEF AskConsume, MayCall, TypeOK
  <2>2. /\ c \in Call /\ c.doc = d /\ c.pc = "co_check" /\ c.period = job[d].period
    BY <2>1, StartTypes DEF TypeOK, ConsumeCall, Start, Job
  <2>3. Settled(d)
    BY <2>1 DEF BooksAgree
  <2>4. /\ call'[p] = c /\ job'[d].state = "consumed" /\ job'[d].period = job[d].period
        /\ \A e \in Docs \ {d} : job'[e] = job[e]
    BY <1>4, <2>1 DEF AskConsume, TypeOK, QuotaTypeOK, Job
  <2>5. CallSound(p)'
    <3>1. <<d, c.period>> \in held \/ ConsumeKey(c.period, d) \in ledger
      BY <2>1, <2>2, <2>3 DEF Settled
    <3>2. UNCHANGED <<held, ledger>>
      BY <1>4 DEF AskConsume
    <3>. HIDE DEF c
    <3> QED BY <2>2, <2>4, <3>1, <3>2 DEF CallSound, ReserveSteps, ConsumeSteps, ReleaseSteps
  <2> QED BY <1>4, <2>1, <2>2, <2>4, <2>5, AskStep DEF AskConsume, ReserveSteps
<1>5. ASSUME NEW d \in Docs, AskRelease(p, d)
      PROVE  BooksAgree'
  <2>. DEFINE c == ReleaseCall(d, job[d].period)
  <2>1. Idle(p) /\ ~Busy(d) /\ job[d].state \in {"open", "released"} /\ job[d] \in Job
    BY <1>5 DEF AskRelease, MayCall, TypeOK
  <2>2. /\ c \in Call /\ c.doc = d /\ c.pc = "rel_check" /\ c.period = job[d].period
    BY <2>1, StartTypes DEF TypeOK, ReleaseCall, Start, Job
  <2>3. Settled(d)
    BY <2>1 DEF BooksAgree
  <2>4. /\ call'[p] = c /\ job'[d].state = "released" /\ job'[d].period = job[d].period
        /\ \A e \in Docs \ {d} : job'[e] = job[e]
    BY <1>5, <2>1 DEF AskRelease, TypeOK, QuotaTypeOK, Job
  <2>5. CallSound(p)'
    <3>1. <<d, c.period>> \in held \/ ReleaseKey(c.period, d) \in ledger
      BY <2>1, <2>2, <2>3 DEF Settled
    <3>2. UNCHANGED <<held, ledger>>
      BY <1>5 DEF AskRelease
    <3>. HIDE DEF c
    <3> QED BY <2>2, <2>4, <3>1, <3>2 DEF CallSound, ReserveSteps, ConsumeSteps, ReleaseSteps
  <2> QED BY <1>5, <2>1, <2>2, <2>4, <2>5, AskStep DEF AskRelease, ReserveSteps
<1> QED BY <1>1, <1>2, <1>3, <1>4, <1>5

\* payments, the calendar and the monthly reset
LEMMA SurroundingBooks ==
  ASSUME TypeOK, TypeOK', BooksAgree, UNCHANGED <<job, crashes>>,
         \/ \E k \in Packages : Activate(k) \/ Expire(k)
         \/ TurnMonth \/ ResetRead \/ ResetWrite
  PROVE  BooksAgree'
<1>1. UNCHANGED <<call, ledger, held, job>>
  BY DEF Activate, Expire, TurnMonth, ResetRead, ResetWrite
<1>2. /\ Serial'
      /\ \A d \in Docs : Busy(d)' \/ Settled(d)'
      /\ \A p \in Callers : ~Idle(p)' => CallSound(p)'
  BY <1>1 DEF BooksAgree, Serial, Busy, Idle, Settled, CallSound, ConsumeKey, ReleaseKey
<1>3. month \in Nat /\ month' \in Nat
  BY QuotaAssumption DEF QuotaAssumption, TypeOK, QuotaTypeOK
<1>4. Calendar'
  <2>1. ASSUME NEW m \in Months, Elapsed(m)
        PROVE  Elapsed(m)'
    BY <1>3, <2>1, QuotaAssumption
    DEF Elapsed, QuotaAssumption, Activate, Expire, TurnMonth, ResetRead, ResetWrite,
        TypeOK, QuotaTypeOK, Reset
  <2>2. \A h \in held : h[2] \in Months
    BY DEF TypeOK, QuotaTypeOK
  <2>3. \A p \in Callers : ~Idle(p) => call[p].period \in Months
    BY IdleCall DEF TypeOK, Call
  <2>4. \A m \in Months : Elapsed(m) => Elapsed(m)'
    BY <2>1
  <2>5. ASSUME NEW h \in held'
        PROVE  Elapsed(h[2])'
    BY <1>1, <2>2, <2>4, <2>5 DEF BooksAgree, Calendar, Elapsed
  <2>6. ASSUME NEW p \in Callers, ~Idle(p)', call'[p].pc \in ReserveSteps
        PROVE  Elapsed(call[p].period)'
    BY <1>1, <2>3, <2>4, <2>6 DEF BooksAgree, Calendar, Elapsed, Idle
  <2> QED BY <2>5, <2>6 DEF Calendar, ReserveSteps
<1>5. CASE ResetWrite
  <2>1. counter' = [counter EXCEPT ![month] = [NewCounter EXCEPT !.addon = reset.carry]]
    BY <1>5 DEF ResetWrite, SetCounter
  <2>2. Rows'
    BY <2>1 DEF BooksAgree, Rows, TypeOK, QuotaTypeOK, NewCounter, NoCounter
  <2>3. ASSUME NEW m \in Months
        PROVE  counter'[m].reserved >= Cardinality(OpenIn(m)')
    <3>1. CASE m = month
      <4>1. counter'[m].reserved = 0
        BY <2>1, <3>1 DEF TypeOK, QuotaTypeOK, NewCounter, NoCounter
      <4>2. OpenIn(m)' = {}
        BY <1>1, <1>3, <1>5, <3>1 DEF ResetWrite, BooksAgree, Calendar, Elapsed, OpenIn
      <4> QED BY <4>1, <4>2, FS_EmptySet
    <3>2. CASE m # month
      <4>1. counter'[m] = counter[m] /\ OpenIn(m)' = OpenIn(m)
        BY <1>1, <2>1, <3>2 DEF TypeOK, QuotaTypeOK, OpenIn
      <4> QED BY <4>1 DEF BooksAgree, ReservationsBacked
    <3> QED BY <3>1, <3>2
  <2> QED BY <1>2, <1>4, <2>2, <2>3 DEF BooksAgree, ReservationsBacked
<1>6. CASE \E k \in Packages : Activate(k)
  <2>0. PICK included \in {0, Plan} :
          counter' = [counter EXCEPT ![month] =
            AddAddon(IF counter[month].exists THEN counter[month]
                     ELSE [NewCounter EXCEPT !.included = included], PackageSize)]
    BY <1>6 DEF Activate, SetCounter
  <2>. DEFINE r == IF counter[month].exists THEN counter[month]
                   ELSE [NewCounter EXCEPT !.included = included]
  <2>1. counter' = [counter EXCEPT ![month] = AddAddon(r, PackageSize)]
    BY <2>0
  <2>2. ~counter[month].exists => counter[month].reserved = 0
    BY DEF BooksAgree, Rows, NoCounter, TypeOK, QuotaTypeOK
  <2>3. AddAddon(r, PackageSize).exists /\ AddAddon(r, PackageSize).reserved = counter[month].reserved
    BY <2>2 DEF AddAddon, NewCounter, NoCounter, TypeOK, QuotaTypeOK, Counter
  <2>4. Rows'
    BY <2>1, <2>3 DEF BooksAgree, Rows, TypeOK, QuotaTypeOK
  <2>5. \A m \in Months : counter'[m].reserved >= counter[m].reserved
    BY <2>1, <2>3 DEF TypeOK, QuotaTypeOK, Counter
  <2>6. ReservationsBacked'
    BY <1>1, <2>5, BackedSame DEF BooksAgree, TypeOK
  <2> QED BY <1>2, <1>4, <2>4, <2>6 DEF BooksAgree
<1>7. CASE (\E k \in Packages : Expire(k)) \/ TurnMonth \/ ResetRead
  <2>1. counter' = counter
    BY <1>7 DEF Expire, TurnMonth, ResetRead
  <2>2. Rows' /\ ReservationsBacked'
    BY <1>1, <2>1 DEF BooksAgree, Rows, ReservationsBacked, OpenIn
  <2> QED BY <1>2, <1>4, <2>2 DEF BooksAgree
<1> QED BY <1>5, <1>6, <1>7

\* the books agree when the system starts
LEMMA BooksInit == Init => BooksAgree
<1>. SUFFICES ASSUME Init PROVE BooksAgree
  OBVIOUS
<1>1. /\ \A p \in Callers : Idle(p)
      /\ held = {} /\ \A m \in Months : counter[m] = NoCounter
      /\ \A d \in Docs : job[d].state = "none"
  BY DEF Init, QuotaInit, Idle
<1>2. \A m \in Months : OpenIn(m) = {} /\ counter[m].reserved = 0
  BY <1>1 DEF OpenIn, NoCounter
<1>3. ReservationsBacked
  BY <1>2, FS_EmptySet DEF ReservationsBacked
<1> QED BY <1>1, <1>3 DEF BooksAgree, Serial, Rows, Calendar, Settled

\* With serial calls that nobody interrupts and none before the reset, every
\* open reservation is counted in reserved_count, for any number of documents,
\* callers, periods and packages: BooksAgree is the inductive invariant.
THEOREM Backed ==
  ASSUME "overlap" \notin Faults, "early" \notin Faults, MaxCrashes = 0
  PROVE  Spec => []ReservationsBacked
<1>1. Init => BooksAgree
  BY BooksInit
<1>2. TypeOK /\ TypeOK' /\ BooksAgree /\ [Next]_vars => BooksAgree'
  <2>. SUFFICES ASSUME TypeOK, TypeOK', BooksAgree, [Next]_vars PROVE BooksAgree'
    OBVIOUS
  <2>1. ASSUME NEW p \in Callers, Serve(p)
        PROVE  BooksAgree'
    BY <2>1, QuietStep, ReserveStep, CountStep, UnreserveStep, ReleaseCheckStep
    DEF Serve, QuotaStep
  <2>2. ASSUME NEW p \in Callers,
               \/ Granted(p) \/ Finished(p)
               \/ \E d \in Docs : AskReserve(p, d) \/ AskConsume(p, d) \/ AskRelease(p, d)
        PROVE  BooksAgree'
    BY <2>2, ClientBooks
  <2>3. ASSUME NEW p \in Callers, Crash(p)
        PROVE  FALSE
    BY <2>3 DEF Crash, TypeOK
  <2>4. ASSUME NEW k \in Packages, Pay(k) \/ Lapse(k)
        PROVE  BooksAgree'
    BY <2>4, SurroundingBooks DEF Pay, Lapse
  <2>5. CASE NextMonth
    BY <2>5, SurroundingBooks DEF NextMonth
  <2>6. CASE ResetQuota
    BY <2>6, SurroundingBooks DEF ResetQuota
  <2>7. CASE UNCHANGED vars
    BY <2>7 DEF vars, quotaVars, BooksAgree, Serial, Rows, Calendar, Elapsed, Busy, Idle,
       Settled, CallSound, ConsumeKey, ReleaseKey, ReservationsBacked, OpenIn
  <2> QED BY <2>1, <2>2, <2>3, <2>4, <2>5, <2>6, <2>7 DEF Next
<1>3. BooksAgree => ReservationsBacked
  BY DEF BooksAgree
<1> QED BY <1>1, <1>2, <1>3, Typing, PTL DEF Spec

-----------------------------------------------------------------------------
(* The plan's limit *)

Unpaid == \A k \in Packages : packages[k].status = "none"

\* without packages there is no credit anywhere, every row includes the plan,
\* and what is used and reserved stays inside it
RowInPlan(m) ==
  /\ counter[m].addon = 0
  /\ counter[m].exists => counter[m].included = Plan
  /\ ~counter[m].exists => counter[m] = NoCounter
  /\ counter[m].used + counter[m].reserved - Cardinality(Swapping(m)) <= Plan
PlanBooks ==
  Unpaid =>
    /\ reset.carry = 0
    /\ \A p \in Callers : call[p].pc \notin {"co_decrement", "co_addon"}
    /\ \A m \in Months : RowInPlan(m)

\* the consumes between their two updates are finitely many
LEMMA SwappingFinite ==
  ASSUME NEW m \in Months
  PROVE  IsFiniteSet(Swapping(m)) /\ Cardinality(Swapping(m)) \in Nat
BY QuotaAssumption, FS_Subset, FS_CardinalityType DEF QuotaAssumption, Swapping

\* without packages nothing remains to carry into the next period
LEMMA NothingRemains == Unpaid => Remaining = 0
<1>. SUFFICES ASSUME Unpaid PROVE Remaining = 0
  OBVIOUS
<1>1. {u \in Packages \X (1 .. PackageSize) :
         Valid(u[1]) /\ u[2] <= packages[u[1]].remaining} = {}
  BY DEF Unpaid, Valid
<1> QED BY <1>1, FS_EmptySet DEF Remaining

\* a period whose calls do not come or go from between the two updates of
\* consume, and whose sum does not grow, keeps to the plan
LEMMA PlanSame ==
  ASSUME TypeOK, TypeOK', NEW m \in Months,
         counter[m].used + counter[m].reserved - Cardinality(Swapping(m)) <= Plan,
         Swapping(m) \subseteq Swapping(m)',
         counter'[m].used + counter'[m].reserved <= counter[m].used + counter[m].reserved
  PROVE  counter'[m].used + counter'[m].reserved - Cardinality(Swapping(m)') <= Plan
<1>1. /\ counter[m].used \in Int /\ counter[m].reserved \in Int
      /\ counter'[m].used \in Int /\ counter'[m].reserved \in Int
  BY DEF TypeOK, QuotaTypeOK, Counter
<1>2. IsFiniteSet(Swapping(m)') /\ Cardinality(Swapping(m)') \in Nat
  BY QuotaAssumption, FS_Subset, FS_CardinalityType DEF QuotaAssumption, Swapping
<1>3. Cardinality(Swapping(m)) <= Cardinality(Swapping(m)')
  BY <1>2, FS_Subset
<1> QED BY <1>1, <1>2, <1>3, SwappingFinite, QuotaAssumption DEF QuotaAssumption

\* the commits of a call
LEMMA PlanStep ==
  ASSUME TypeOK, TypeOK', PlanBooks, NEW p \in Callers, QuotaStep(p)
  PROVE  PlanBooks'
<1>. DEFINE m == call[p].period
            c == counter[m]
<1>. SUFFICES ASSUME Unpaid' PROVE PlanBooks'
  BY DEF PlanBooks
<1>1. Unpaid /\ reset' = reset /\ \A k \in Packages : ~Valid(k)
  BY DEF QuotaStep, Unpaid, Valid, ReserveRead, ReserveLock, ConsumeCheck, ConsumeUsed,
     ConsumeReserved, ConsumePackage, ConsumeDecrement, ConsumeAddon, ConsumeLedger,
     ReleaseCheck, ReleaseReserved, ReleaseLedger, TypeOK, QuotaTypeOK, Package
<1>2. /\ reset.carry = 0
      /\ \A q \in Callers : call[q].pc \notin {"co_decrement", "co_addon"}
      /\ \A n \in Months : RowInPlan(n)
  BY <1>1 DEF PlanBooks
<1>3. ~ConsumeDecrement(p) /\ ~ConsumeAddon(p)
  BY <1>2 DEF ConsumeDecrement, ConsumeAddon
<1>4. call[p] \in Call /\ m \in Months /\ c \in Counter
  BY CallTypes DEF QuotaStep, ReserveRead, ReserveLock, ConsumeCheck, ConsumeUsed,
     ConsumeReserved, ConsumePackage, ConsumeDecrement, ConsumeAddon, ConsumeLedger,
     ReleaseCheck, ReleaseReserved, ReleaseLedger, TypeOK, QuotaTypeOK, Call
<1>5. /\ \A q \in Callers \ {p} : call'[q] = call[q]
      /\ call'[p].period = m
      /\ \A n \in Months \ {m} : counter'[n] = counter[n]
  BY <1>4 DEF QuotaStep, ReserveRead, ReserveLock, ConsumeCheck, ConsumeUsed,
     ConsumeReserved, ConsumePackage, ConsumeDecrement, ConsumeAddon, ConsumeLedger,
     ReleaseCheck, ReleaseReserved, ReleaseLedger, Goto, SetCounter, TypeOK, QuotaTypeOK, Call
<1>6. call'[p].pc \notin {"co_decrement", "co_addon"}
  <2>1. ConsumePackage(p) => call'[p].pc = "co_ledger"
    <3>1. Eligible = {} /\ c.addon = 0
      BY <1>1, <1>2, <1>4 DEF Eligible, RowInPlan
    <3> QED BY <1>4, <3>1 DEF ConsumePackage, Goto, TypeOK, QuotaTypeOK, Call
  <2> QED BY <1>3, <1>4, <2>1 DEF QuotaStep, ReserveRead, ReserveLock, ConsumeCheck, ConsumeUsed,
     ConsumeReserved, ConsumeLedger, ReleaseCheck, ReleaseReserved, ReleaseLedger, Goto,
     TypeOK, QuotaTypeOK, Call
<1>7. ASSUME NEW n \in Months, n # m
      PROVE  RowInPlan(n)'
  <2>1. Swapping(n)' = Swapping(n)
    BY <1>5, <1>7 DEF Swapping
  <2> QED BY <1>2, <1>5, <1>7, <2>1 DEF RowInPlan
<1>8. ASSUME NEW n \in Months, n = m
      PROVE  RowInPlan(n)'
  <2>. DEFINE S == Swapping(n)
  <2>1. /\ counter[n] = c /\ RowInPlan(n) /\ IsFiniteSet(S) /\ Cardinality(S) \in Nat
        /\ c.used \in Nat /\ c.reserved \in Int /\ Plan \in Nat
    BY <1>2, <1>4, <1>8, SwappingFinite, QuotaAssumption DEF QuotaAssumption, Counter
  <2>2. AvailableQuota(c) \in Int
    BY <1>4 DEF AvailableQuota, AvailableIncluded, Counter
  <2>3. CASE ReserveRead(p)
    <3>1. /\ counter'[n] = IF c.exists THEN c ELSE NewCounter
          /\ S \subseteq Swapping(n)'
      BY <1>4, <1>5, <1>8, <2>3 DEF ReserveRead, SetCounter, Swapping, TypeOK, QuotaTypeOK
    <3>2. counter'[n].used + counter'[n].reserved <= counter[n].used + counter[n].reserved
      BY <2>1, <3>1 DEF RowInPlan, NewCounter, NoCounter
    <3>3. counter'[n].used + counter'[n].reserved - Cardinality(S') <= Plan
      BY <2>1, <3>1, <3>2, PlanSame DEF RowInPlan
    <3> QED BY <2>1, <3>1, <3>3 DEF RowInPlan, NewCounter, NoCounter
  <2>4. CASE ReserveLock(p) /\ AvailableQuota(c) >= 1
    <3>1. /\ counter'[n] = [c EXCEPT !.reserved = @ + 1]
          /\ Swapping(n)' = S
      BY <1>4, <1>5, <1>8, <2>4, <2>2 DEF ReserveLock, Goto, SetCounter, Swapping,
         TypeOK, QuotaTypeOK, Call
    <3>2. c.exists
      BY <2>1, <2>4 DEF RowInPlan, AvailableQuota, AvailableIncluded, NoCounter
    <3>3. c.used + c.reserved + 1 <= Plan
      BY <2>1, <2>4, <3>2, <1>4 DEF RowInPlan, AvailableQuota, AvailableIncluded, Counter
    <3>4. /\ counter'[n].used = c.used /\ counter'[n].reserved = c.reserved + 1
          /\ counter'[n].exists = c.exists /\ counter'[n].included = c.included
          /\ counter'[n].addon = c.addon
      BY <1>4, <3>1 DEF Counter
    <3> QED BY <2>1, <3>1, <3>2, <3>3, <3>4 DEF RowInPlan
  <2>5. CASE ReserveLock(p) /\ AvailableQuota(c) < 1
    <3>1. counter'[n] = c /\ S \subseteq Swapping(n)'
      BY <1>4, <1>5, <1>8, <2>5, <2>2 DEF ReserveLock, Goto, SetCounter, Swapping,
         TypeOK, QuotaTypeOK, Call
    <3> QED BY <2>1, <3>1, PlanSame DEF RowInPlan
  <2>6. CASE ConsumeUsed(p)
    <3>1. /\ counter'[n] = AddUsed(c, 1)
          /\ Swapping(n)' = S \cup {p} /\ p \notin S
      BY <1>4, <1>5, <1>8, <2>6 DEF ConsumeUsed, Goto, SetCounter, Swapping, TypeOK, QuotaTypeOK, Call
    <3>2. Cardinality(Swapping(n)') = Cardinality(S) + 1
      BY <2>1, <3>1, FS_AddElement
    <3>3. /\ counter'[n].used <= c.used + 1 /\ counter'[n].used \in Nat
          /\ counter'[n].reserved = c.reserved
          /\ counter'[n].exists = c.exists /\ counter'[n].included = c.included
          /\ counter'[n].addon = c.addon /\ (~c.exists => counter'[n] = c)
      BY <1>4, <3>1 DEF AddUsed, Counter
    <3> QED BY <2>1, <3>2, <3>3 DEF RowInPlan
  <2>7. CASE ConsumeReserved(p)
    <3>1. /\ counter'[n] = AddReserved(c, -1)
          /\ Swapping(n)' = S \ {p} /\ p \in S
      BY <1>4, <1>5, <1>8, <2>7 DEF ConsumeReserved, Goto, SetCounter, Swapping, TypeOK, QuotaTypeOK, Call
    <3>2. Cardinality(Swapping(n)') = Cardinality(S) - 1
      BY <2>1, <3>1, FS_RemoveElement
    <3>3. /\ counter'[n].used = c.used
          /\ counter'[n].reserved = IF c.exists THEN c.reserved - 1 ELSE c.reserved
          /\ counter'[n].exists = c.exists /\ counter'[n].included = c.included
          /\ counter'[n].addon = c.addon /\ (~c.exists => counter'[n] = c)
      BY <1>4, <3>1 DEF AddReserved, Counter
    <3>4. Cardinality(S) - 1 \in Nat
      BY <2>1, <3>1, <3>2, FS_RemoveElement, FS_CardinalityType
    <3> QED BY <2>1, <3>2, <3>3, <3>4 DEF RowInPlan, NoCounter
  <2>8. CASE ReleaseReserved(p)
    <3>1. counter'[n] = AddReserved(c, -1) /\ S \subseteq Swapping(n)'
      BY <1>4, <1>5, <1>8, <2>8 DEF ReleaseReserved, Goto, SetCounter, Swapping, TypeOK, QuotaTypeOK, Call
    <3>2. /\ counter'[n].used = c.used /\ counter'[n].reserved <= c.reserved
          /\ counter'[n].exists = c.exists /\ counter'[n].included = c.included
          /\ counter'[n].addon = c.addon /\ (~c.exists => counter'[n] = c)
      BY <1>4, <3>1 DEF AddReserved, Counter
    <3>3. counter'[n].reserved \in Int
      BY DEF TypeOK, QuotaTypeOK, Counter
    <3> QED BY <2>1, <3>1, <3>2, <3>3, PlanSame DEF RowInPlan
  <2>9. CASE \/ ConsumeCheck(p) \/ ConsumePackage(p) \/ ConsumeLedger(p)
             \/ ReleaseCheck(p) \/ ReleaseLedger(p)
    <3>1. counter' = counter /\ S \subseteq Swapping(n)'
      BY <1>4, <1>5, <2>9 DEF ConsumeCheck, ConsumePackage, ConsumeLedger, ReleaseCheck,
         ReleaseLedger, Swapping
    <3> QED BY <2>1, <3>1, PlanSame DEF RowInPlan
  <2> QED BY <1>3, <2>2, <2>3, <2>4, <2>5, <2>6, <2>7, <2>8, <2>9 DEF QuotaStep
<1> QED BY <1>1, <1>2, <1>5, <1>6, <1>7, <1>8 DEF PlanBooks

\* a client starts and ends calls outside the two updates of consume
LEMMA PlanClient ==
  ASSUME TypeOK, TypeOK', PlanBooks, NEW p \in Callers,
         \/ Granted(p) \/ Finished(p)
         \/ \E d \in Docs : AskReserve(p, d) \/ AskConsume(p, d) \/ AskRelease(p, d)
  PROVE  PlanBooks'
<1>. SUFFICES ASSUME Unpaid' PROVE PlanBooks'
  BY DEF PlanBooks
<1>1. /\ UNCHANGED <<counter, packages, reset>>
      /\ \A q \in Callers \ {p} : call'[q] = call[q]
      /\ call[p].pc # "co_reserved"
      /\ call'[p].pc \in {"idle", "res_read", "co_check", "rel_check"}
  BY DEF Granted, Finished, AskReserve, AskConsume, AskRelease, EndCall, Idle, NoCall,
     ReserveCall, ConsumeCall, ReleaseCall, Start, TypeOK, QuotaTypeOK
<1>2. Unpaid
  BY <1>1 DEF Unpaid
<1>3. ASSUME NEW m \in Months
      PROVE  RowInPlan(m)'
  <2>1. Swapping(m)' = Swapping(m)
    BY <1>1 DEF Swapping
  <2> QED BY <1>1, <1>2, <2>1 DEF PlanBooks, RowInPlan
<1> QED BY <1>1, <1>2, <1>3 DEF PlanBooks

\* the calendar: a new period starts from a row of its own, without credit
LEMMA PlanSurrounding ==
  ASSUME TypeOK, TypeOK', PlanBooks,
         \/ \E k \in Packages : Activate(k) \/ Expire(k)
         \/ TurnMonth \/ ResetRead \/ ResetWrite
  PROVE  PlanBooks'
<1>. SUFFICES ASSUME Unpaid' PROVE PlanBooks'
  BY DEF PlanBooks
<1>0. packages \in [Packages -> Package]
  BY DEF TypeOK, QuotaTypeOK
<1>1. Unpaid /\ ~(\E k \in Packages : Activate(k))
  BY <1>0 DEF Unpaid, Activate, Expire, TurnMonth, ResetRead, ResetWrite, Package
<1>2. /\ reset.carry = 0 /\ reset'.carry = 0
      /\ call' = call
  BY <1>1, NothingRemains DEF PlanBooks, Expire, TurnMonth, ResetRead, ResetWrite, TypeOK,
     QuotaTypeOK, Reset
<1>3. \A m \in Months : Swapping(m)' = Swapping(m)
  BY <1>2 DEF Swapping
<1>4. CASE ResetWrite
  <2>1. counter' = [counter EXCEPT ![month] = [NewCounter EXCEPT !.addon = 0]]
    BY <1>2, <1>4 DEF ResetWrite, SetCounter
  <2>2. ASSUME NEW m \in Months
        PROVE  RowInPlan(m)'
    <3>1. CASE m = month
      <4>1. /\ counter'[m].exists /\ counter'[m].included = Plan /\ counter'[m].addon = 0
            /\ counter'[m].used = 0 /\ counter'[m].reserved = 0
        BY <2>1, <3>1 DEF NewCounter, NoCounter, TypeOK, QuotaTypeOK
      <4>2. Cardinality(Swapping(m)') \in Nat /\ Plan \in Nat
        BY <1>3, SwappingFinite, QuotaAssumption DEF QuotaAssumption
      <4> QED BY <4>1, <4>2 DEF RowInPlan
    <3>2. CASE m # month
      BY <1>1, <1>3, <2>1, <3>2 DEF PlanBooks, RowInPlan, TypeOK, QuotaTypeOK
    <3> QED BY <3>1, <3>2
  <2> QED BY <1>1, <1>2, <2>2 DEF PlanBooks
<1>5. CASE (\E k \in Packages : Expire(k)) \/ TurnMonth \/ ResetRead
  <2>1. counter' = counter
    BY <1>5 DEF Expire, TurnMonth, ResetRead
  <2> QED BY <1>1, <1>2, <1>3, <2>1 DEF PlanBooks, RowInPlan
<1> QED BY <1>1, <1>4, <1>5

\* the plan's books are right when the system starts
LEMMA PlanInit == Init => PlanBooks
<1>. SUFFICES ASSUME Init PROVE PlanBooks
  OBVIOUS
<1>1. /\ reset.carry = 0
      /\ \A p \in Callers : call[p].pc = "idle"
      /\ \A m \in Months : counter[m] = NoCounter
  BY DEF Init, QuotaInit, NoCall
<1>2. \A m \in Months : Cardinality(Swapping(m)) \in Nat
  BY SwappingFinite
<1>3. ASSUME NEW m \in Months
      PROVE  RowInPlan(m)
  <2>1. /\ ~counter[m].exists /\ counter[m].addon = 0
        /\ counter[m].used = 0 /\ counter[m].reserved = 0
    BY <1>1 DEF NoCounter
  <2> QED BY <1>1, <1>2, <2>1, QuotaAssumption DEF QuotaAssumption, RowInPlan
<1> QED BY <1>1, <1>3 DEF PlanBooks

\* An owner without credits stays within the plan as long as no call dies half
\* way, whatever overlaps, whenever the month turns and the reset runs: the
\* second availability test, under the row's lock, is enough.
THEOREM WithinPlan ==
  ASSUME MaxCrashes = 0
  PROVE  Spec => []PlanRespected
<1>1. Init => PlanBooks
  BY PlanInit
<1>2. TypeOK /\ TypeOK' /\ PlanBooks /\ [Next]_vars => PlanBooks'
  <2>. SUFFICES ASSUME TypeOK, TypeOK', PlanBooks, [Next]_vars PROVE PlanBooks'
    OBVIOUS
  <2>1. ASSUME NEW p \in Callers, Serve(p)
        PROVE  PlanBooks'
    BY <2>1, PlanStep DEF Serve
  <2>2. ASSUME NEW p \in Callers,
               \/ Granted(p) \/ Finished(p)
               \/ \E d \in Docs : AskReserve(p, d) \/ AskConsume(p, d) \/ AskRelease(p, d)
        PROVE  PlanBooks'
    BY <2>2, PlanClient
  <2>3. ASSUME NEW p \in Callers, Crash(p)
        PROVE  FALSE
    BY <2>3 DEF Crash, TypeOK
  <2>4. ASSUME NEW k \in Packages, Pay(k) \/ Lapse(k)
        PROVE  PlanBooks'
    BY <2>4, PlanSurrounding DEF Pay, Lapse
  <2>5. CASE NextMonth
    BY <2>5, PlanSurrounding DEF NextMonth
  <2>6. CASE ResetQuota
    BY <2>6, PlanSurrounding DEF ResetQuota
  <2>7. CASE UNCHANGED vars
    BY <2>7 DEF vars, quotaVars, PlanBooks, Unpaid, RowInPlan, Swapping
  <2> QED BY <2>1, <2>2, <2>3, <2>4, <2>5, <2>6, <2>7 DEF Next
<1>3. PlanBooks => PlanRespected
  BY DEF PlanBooks, Unpaid, RowInPlan, PlanRespected
<1> QED BY <1>1, <1>2, <1>3, Typing, PTL DEF Spec

-----------------------------------------------------------------------------
(* What is recorded is counted *)

\* what belongs to a reservation has a row to be counted in
Present ==
  /\ Rows
  /\ \A p \in Callers : call[p].pc \in {"granted"} \cup ConsumeSteps \cup ReleaseSteps
                          => counter[call[p].period].exists
  /\ \A d \in Docs : job[d].state # "none" => counter[job[d].period].exists

\* nobody speaks of a period the cron job has still to reset
Timely ==
  /\ \A p \in Callers : ~Idle(p) => Elapsed(call[p].period)
  /\ \A d \in Docs : job[d].state # "none" => Elapsed(job[d].period)
  /\ \A m \in Months, d \in Docs : ConsumeKey(m, d) \in ledger => Elapsed(m)

Entered(m) == {d \in Docs : ConsumeKey(m, d) \in ledger}
AtLeast ==
  \A m \in Months : counter[m].used >= Cardinality(Entered(m)) + Cardinality(Unrecorded(m))

\* the effect of a call's step on calls
LEMMA StepShape ==
  ASSUME TypeOK, TypeOK', NEW p \in Callers, QuotaStep(p)
  PROVE  /\ call[p] \in Call /\ ~Idle(p) /\ call'[p] \in Call /\ ~Idle(p)'
         /\ call'[p].doc = call[p].doc /\ call'[p].period = call[p].period
         /\ \A q \in Callers \ {p} : call'[q] = call[q]
         /\ UNCHANGED <<month, reset>>
<1>1. call[p] \in Call /\ ~Idle(p) /\ call[p].pc \in ReserveSteps \cup ConsumeSteps \cup ReleaseSteps
  BY IdleCall DEF QuotaStep, ReserveRead, ReserveLock, ConsumeCheck, ConsumeUsed,
     ConsumeReserved, ConsumePackage, ConsumeDecrement, ConsumeAddon, ConsumeLedger,
     ReleaseCheck, ReleaseReserved, ReleaseLedger, TypeOK, ReserveSteps, ConsumeSteps, ReleaseSteps
<1>2. \A q \in Callers \ {p} : call'[q] = call[q]
  BY DEF QuotaStep, ReserveRead, ReserveLock, ConsumeCheck, ConsumeUsed,
     ConsumeReserved, ConsumePackage, ConsumeDecrement, ConsumeAddon, ConsumeLedger,
     ReleaseCheck, ReleaseReserved, ReleaseLedger, Goto, TypeOK, QuotaTypeOK
<1>3. /\ call'[p].doc = call[p].doc /\ call'[p].period = call[p].period
      /\ call'[p].pc # "idle"
  BY <1>1 DEF QuotaStep, ReserveRead, ReserveLock, ConsumeCheck, ConsumeUsed,
     ConsumeReserved, ConsumePackage, ConsumeDecrement, ConsumeAddon, ConsumeLedger,
     ReleaseCheck, ReleaseReserved, ReleaseLedger, Goto, TypeOK, QuotaTypeOK, Call
<1>4. ~Idle(p)' /\ call'[p] \in Call
  BY <1>3 DEF Idle, NoCall, TypeOK, QuotaTypeOK
<1>5. UNCHANGED <<month, reset>>
  BY DEF QuotaStep, ReserveRead, ReserveLock, ConsumeCheck, ConsumeUsed,
     ConsumeReserved, ConsumePackage, ConsumeDecrement, ConsumeAddon, ConsumeLedger,
     ReleaseCheck, ReleaseReserved, ReleaseLedger
<1> QED BY <1>1, <1>2, <1>3, <1>4, <1>5

\* the effect of a call's step on the counters
LEMMA StepCounter ==
  ASSUME TypeOK, TypeOK', Rows, NEW p \in Callers, QuotaStep(p)
  PROVE  LET m == call[p].period
         IN  /\ \A n \in Months \ {m} : counter'[n] = counter[n]
             /\ counter[m].exists => counter'[m].exists
             /\ ~counter[m].exists => counter'[m] \in {NoCounter, NewCounter}
             /\ counter'[m].used = IF counter[m].exists /\ call[p].pc = "co_used"
                                   THEN counter[m].used + 1 ELSE counter[m].used
             /\ call'[p].pc = "granted" => counter'[m].exists
<1>. DEFINE m == call[p].period
            c == counter[m]
<1>1. m \in Months /\ c \in Counter /\ call[p] \in Call
  BY StepShape DEF Call, TypeOK, QuotaTypeOK
<1>2. ~c.exists => c = NoCounter
  BY <1>1 DEF Rows
<1>3. AvailableQuota(c) \in Int /\ (~c.exists => AvailableQuota(c) = 0)
  BY <1>1, <1>2 DEF AvailableQuota, AvailableIncluded, Counter, NoCounter
<1>4. CASE ReserveRead(p)
  <2>1. counter' = [counter EXCEPT ![m] = IF c.exists THEN c ELSE NewCounter]
    BY <1>4 DEF ReserveRead, SetCounter
  <2>2. call[p].pc = "res_read" /\ call'[p].pc # "granted"
    BY <1>1, <1>4 DEF ReserveRead, TypeOK, QuotaTypeOK
  <2> QED BY <1>1, <1>2, <2>1, <2>2 DEF TypeOK, QuotaTypeOK, NewCounter, NoCounter
<1>5. CASE ReserveLock(p)
  <2>1. \/ AvailableQuota(c) >= 1 /\ counter' = [counter EXCEPT ![m] = [c EXCEPT !.reserved = @ + 1]]
        \/ counter' = counter /\ call'[p].pc = "exceeded"
    BY <1>1, <1>5 DEF ReserveLock, SetCounter, Goto, TypeOK, QuotaTypeOK, Call
  <2>2. CASE AvailableQuota(c) >= 1 /\ counter' = [counter EXCEPT ![m] = [c EXCEPT !.reserved = @ + 1]]
    <3>1. c.exists
      BY <1>3, <2>2
    <3>2. counter'[m] = [c EXCEPT !.reserved = @ + 1]
      BY <1>1, <2>2 DEF TypeOK, QuotaTypeOK
    <3>3. counter'[m].exists /\ counter'[m].used = c.used
      BY <1>1, <3>1, <3>2 DEF Counter
    <3>4. call[p].pc = "res_lock"
      BY <1>5 DEF ReserveLock
    <3> QED BY <1>1, <2>2, <3>1, <3>3, <3>4 DEF TypeOK, QuotaTypeOK
  <2>3. CASE counter' = counter /\ call'[p].pc = "exceeded"
    BY <1>1, <1>2, <1>5, <2>3 DEF ReserveLock
  <2> QED BY <2>1, <2>2, <2>3
<1>6. CASE ConsumeUsed(p)
  <2>1. counter' = [counter EXCEPT ![m] = AddUsed(c, 1)] /\ call[p].pc = "co_used" /\ call'[p].pc = "co_reserved"
    BY <1>1, <1>6 DEF ConsumeUsed, SetCounter, Goto, TypeOK, QuotaTypeOK, Call
  <2>2. /\ AddUsed(c, 1).exists = c.exists
        /\ AddUsed(c, 1).used = IF c.exists THEN c.used + 1 ELSE c.used
        /\ ~c.exists => AddUsed(c, 1) = c
    BY <1>1 DEF AddUsed, Counter
  <2> QED BY <1>1, <1>2, <2>1, <2>2 DEF TypeOK, QuotaTypeOK
<1>7. CASE ConsumeReserved(p) \/ ReleaseReserved(p) \/ ConsumeAddon(p)
  <2>1. /\ \E r \in {AddReserved(c, -1), AddAddon(c, -1)} : counter' = [counter EXCEPT ![m] = r]
        /\ call[p].pc # "co_used" /\ call'[p].pc # "granted"
    BY <1>1, <1>7 DEF ConsumeReserved, ReleaseReserved, ConsumeAddon, SetCounter, Goto, TypeOK, QuotaTypeOK, Call
  <2>2. \A r \in {AddReserved(c, -1), AddAddon(c, -1)} :
          r.exists = c.exists /\ r.used = c.used /\ (~c.exists => r = c)
    BY <1>1 DEF AddReserved, AddAddon, Counter
  <2> QED BY <1>1, <1>2, <2>1, <2>2 DEF TypeOK, QuotaTypeOK
<1>8. CASE \/ ConsumeCheck(p) \/ ConsumePackage(p) \/ ConsumeDecrement(p) \/ ConsumeLedger(p)
           \/ ReleaseCheck(p) \/ ReleaseLedger(p)
  <2>1. counter' = counter /\ call[p].pc # "co_used" /\ call'[p].pc # "granted"
    BY <1>1, <1>8 DEF ConsumeCheck, ConsumePackage, ConsumeDecrement, ConsumeLedger, ReleaseCheck,
       ReleaseLedger, Goto, TypeOK, QuotaTypeOK, Call
  <2> QED BY <1>1, <1>2, <2>1
<1> QED BY <1>4, <1>5, <1>6, <1>7, <1>8 DEF QuotaStep

\* which step comes before which
LEMMA StepPlace ==
  ASSUME TypeOK, TypeOK', NEW p \in Callers, QuotaStep(p)
  PROVE  LET a == call[p].pc
             b == call'[p].pc
         IN  /\ b \in ReserveSteps \cup {"exceeded", "granted"} => a \in ReserveSteps
             /\ b \in ConsumeSteps => a \in ConsumeSteps
             /\ b \in ReleaseSteps => a \in ReleaseSteps
             /\ a \in ReserveSteps => b \in {"res_lock", "exceeded", "granted"}
             /\ a = "co_check" =>
                  b = (IF ConsumeKey(call[p].period, call[p].doc) \in ledger THEN "closed" ELSE "co_used")
             /\ a = "co_used" => b = "co_reserved"
             /\ a = "co_reserved" => b \in {"co_package", "co_ledger"}
             /\ a = "co_package" => b \in {"co_decrement", "co_addon", "co_ledger"}
             /\ a = "co_decrement" => b = "co_addon"
             /\ a = "co_addon" => b = "co_ledger"
             /\ a = "co_ledger" => b = "closed"
             /\ a \in ReleaseSteps => b \in {"rel_reserved", "rel_ledger", "closed"}
             /\ a \in ReserveSteps \cup ConsumeSteps \cup ReleaseSteps
             /\ ledger' = IF a = "co_ledger" THEN ledger \cup {ConsumeKey(call[p].period, call[p].doc)}
                          ELSE IF a = "rel_ledger" THEN ledger \cup {ReleaseKey(call[p].period, call[p].doc)}
                          ELSE ledger
<1>1. call[p] \in Call /\ p \in DOMAIN call
  BY StepShape DEF TypeOK, QuotaTypeOK
<1>2. CASE ReserveRead(p) \/ ReserveLock(p)
  BY <1>1, <1>2 DEF ReserveRead, ReserveLock, Goto, Call, ReserveSteps, ConsumeSteps, ReleaseSteps
<1>3. CASE ConsumeCheck(p) \/ ConsumeUsed(p) \/ ConsumeReserved(p)
  BY <1>1, <1>3 DEF ConsumeCheck, ConsumeUsed, ConsumeReserved, Goto, Call, ReserveSteps, ConsumeSteps, ReleaseSteps
<1>4. CASE ConsumePackage(p)
  <2>1. /\ call[p].pc = "co_package" /\ ledger' = ledger
        /\ \/ \E k \in Eligible : call' = [call EXCEPT ![p].pc = "co_decrement", ![p].pkg = k]
           \/ call' = [call EXCEPT ![p].pc = "co_addon"]
           \/ call' = [call EXCEPT ![p].pc = "co_ledger"]
    BY <1>4 DEF ConsumePackage, Goto
  <2>2. call'[p].pc \in {"co_decrement", "co_addon", "co_ledger"}
    BY <1>1, <2>1 DEF Call
  <2> QED BY <2>1, <2>2 DEF ReserveSteps, ConsumeSteps, ReleaseSteps
<1>6. CASE ConsumeDecrement(p) \/ ConsumeAddon(p) \/ ConsumeLedger(p)
  BY <1>1, <1>6 DEF ConsumeDecrement, ConsumeAddon, ConsumeLedger, Goto, Call,
     ReserveSteps, ConsumeSteps, ReleaseSteps
<1>5. CASE ReleaseCheck(p) \/ ReleaseReserved(p) \/ ReleaseLedger(p)
  BY <1>1, <1>5 DEF ReleaseCheck, ReleaseReserved, ReleaseLedger, Goto, Call,
     ReserveSteps, ConsumeSteps, ReleaseSteps
<1> QED BY <1>2, <1>3, <1>4, <1>5, <1>6 DEF QuotaStep

\* the effect of a client's step on calls, jobs and the rest
LEMMA ClientShape ==
  ASSUME TypeOK, TypeOK', NEW p \in Callers,
         \/ Granted(p) \/ Finished(p) \/ Crash(p)
         \/ \E d \in Docs : AskReserve(p, d) \/ AskConsume(p, d) \/ AskRelease(p, d)
  PROVE  /\ UNCHANGED <<month, counter, packages, ledger, held, reset>>
         /\ \A q \in Callers \ {p} : call'[q] = call[q]
         /\ call'[p].pc \in {"idle", "res_read", "co_check", "rel_check"}
         /\ Idle(p) \/ Idle(p)'
BY IdleCall DEF Granted, Finished, Crash, AskReserve, AskConsume, AskRelease, EndCall, Idle, NoCall,
   ReserveCall, ConsumeCall, ReleaseCall, Start, TypeOK, QuotaTypeOK

\* a client asks for what its job is about
LEMMA ClientJob ==
  ASSUME TypeOK, TypeOK', NEW p \in Callers,
         \/ Granted(p) \/ Finished(p) \/ Crash(p)
         \/ \E d \in Docs : AskReserve(p, d) \/ AskConsume(p, d) \/ AskRelease(p, d)
  PROVE  /\ \A d \in Docs : \/ job'[d].state = "none" /\ job[d].state = "none"
                            \/ job'[d].state # "none" /\ job[d].state # "none" /\ job'[d].period = job[d].period
                            \/ /\ call[p].pc = "granted" /\ d = call[p].doc
                               /\ job'[d].state = "open" /\ job'[d].period = call[p].period
         /\ ~Idle(p)' =>
              /\ call'[p].doc \in Docs
              /\ \/ /\ call'[p].pc = "res_read" /\ call'[p].period = month /\ PeriodOpen
                 \/ /\ call'[p].pc \in {"co_check", "rel_check"}
                    /\ job[call'[p].doc].state # "none" /\ call'[p].period = job[call'[p].doc].period
<1>0. \A d \in Docs, m \in Months, ad \in BOOLEAN :
        /\ ReserveCall(d).doc = d /\ ReserveCall(d).pc = "res_read" /\ ReserveCall(d).period = month
        /\ ConsumeCall(d, m, ad).doc = d /\ ConsumeCall(d, m, ad).pc = "co_check"
        /\ ConsumeCall(d, m, ad).period = m
        /\ ReleaseCall(d, m).doc = d /\ ReleaseCall(d, m).pc = "rel_check" /\ ReleaseCall(d, m).period = m
  BY DEF ReserveCall, ConsumeCall, ReleaseCall, Start
<1>9. \A d \in Docs : job[d].period \in Months /\ job[d].addon \in BOOLEAN
  BY DEF TypeOK, Job
<1>1. CASE Granted(p)
  <2>1. call[p] \in Call /\ Idle(p)'
    BY <1>1, IdleCall DEF Granted, EndCall, Idle, TypeOK, QuotaTypeOK
  <2>2. PICK e \in Docs : e = call[p].doc
    BY <2>1 DEF Call
  <2>5. job'[e] = [state |-> "open", period |-> call[p].period, addon |-> call[p].addon, tries |-> job[e].tries + 1]
    BY <1>1, <2>2 DEF Granted, TypeOK
  <2>6. job'[e].state = "open" /\ job'[e].period = call[p].period
    BY <2>5
  <2>7. \A d \in Docs \ {e} : job'[d] = job[d]
    BY <1>1, <2>2 DEF Granted, TypeOK
  <2>3. call[p].pc = "granted"
    BY <1>1 DEF Granted
  <2>4. ASSUME NEW d \in Docs
        PROVE  \/ job'[d] = job[d]
               \/ d = call[p].doc /\ job'[d].state = "open" /\ job'[d].period = call[p].period
    BY <2>2, <2>6, <2>7
  <2> QED BY <2>1, <2>3, <2>4
<1>2. CASE Finished(p) \/ Crash(p)
  BY <1>2 DEF Finished, Crash, EndCall, Idle, TypeOK, QuotaTypeOK
<1>3. ASSUME NEW d \in Docs, AskReserve(p, d)
      PROVE  job' = job /\ call'[p] = ReserveCall(d) /\ PeriodOpen
  BY <1>3 DEF AskReserve, TypeOK, QuotaTypeOK
<1>4. ASSUME NEW d \in Docs, AskConsume(p, d)
      PROVE  /\ call'[p] = ConsumeCall(d, job[d].period, job[d].addon) /\ job[d].state # "none"
             /\ job'[d].state = "consumed" /\ job'[d].period = job[d].period
             /\ \A e \in Docs \ {d} : job'[e] = job[e]
  BY <1>4 DEF AskConsume, TypeOK, QuotaTypeOK, Job
<1>5. ASSUME NEW d \in Docs, AskRelease(p, d)
      PROVE  /\ call'[p] = ReleaseCall(d, job[d].period) /\ job[d].state # "none"
             /\ job'[d].state = "released" /\ job'[d].period = job[d].period
             /\ \A e \in Docs \ {d} : job'[e] = job[e]
  BY <1>5 DEF AskRelease, TypeOK, QuotaTypeOK, Job
<1>6. CASE \E d \in Docs : AskReserve(p, d)
  <2>1. PICK d \in Docs : AskReserve(p, d)
    BY <1>6
  <2>2. call'[p].doc = d /\ call'[p].pc = "res_read" /\ call'[p].period = month
    BY <1>0, <1>9, <1>3, <2>1
  <2> QED BY <1>3, <2>1, <2>2
<1>7. CASE \E d \in Docs : AskConsume(p, d)
  <2>1. PICK d \in Docs : AskConsume(p, d)
    BY <1>7
  <2>2. call'[p].doc = d /\ call'[p].pc = "co_check" /\ call'[p].period = job[d].period
    BY <1>0, <1>9, <1>4, <2>1
  <2>3. \A e \in Docs : e = d \/ job'[e] = job[e]
    BY <1>4, <2>1
  <2> QED BY <1>4, <2>1, <2>2, <2>3
<1>8. CASE \E d \in Docs : AskRelease(p, d)
  <2>1. PICK d \in Docs : AskRelease(p, d)
    BY <1>8
  <2>2. call'[p].doc = d /\ call'[p].pc = "rel_check" /\ call'[p].period = job[d].period
    BY <1>0, <1>9, <1>5, <2>1
  <2>3. \A e \in Docs : e = d \/ job'[e] = job[e]
    BY <1>5, <2>1
  <2> QED BY <1>5, <2>1, <2>2, <2>3
<1> QED BY <1>1, <1>2, <1>6, <1>7, <1>8

\* payments, the calendar and the reset leave calls, ledger and jobs alone
LEMMA AroundShape ==
  ASSUME TypeOK, TypeOK', Rows,
         \/ \E k \in Packages : Pay(k) \/ Lapse(k)
         \/ NextMonth \/ ResetQuota
  PROVE  /\ UNCHANGED <<call, ledger, held, job, crashes>>
         /\ \A m \in Months : /\ counter[m].exists => counter'[m].exists
                              /\ ~counter'[m].exists => counter'[m] = NoCounter
                              /\ \/ counter'[m].used = counter[m].used
                                 \/ reset.pc = "carried" /\ m = month /\ counter'[m].used = 0
         /\ \A m \in Months : Elapsed(m) => Elapsed(m)'
         /\ month <= month'
<1>1. UNCHANGED <<call, ledger, held, job, crashes>>
  BY DEF Pay, Lapse, NextMonth, ResetQuota, Activate, Expire, TurnMonth, ResetRead, ResetWrite
<1>2. /\ \A m \in Months : Elapsed(m) => Elapsed(m)'
      /\ month <= month'
  BY QuotaAssumption
  DEF Elapsed, QuotaAssumption, Pay, Lapse, NextMonth, ResetQuota, Activate, Expire, TurnMonth,
      ResetRead, ResetWrite, TypeOK, QuotaTypeOK, Reset
<1>3. CASE \E k \in Packages : Pay(k)
  <2>1. PICK included \in {0, Plan} :
          counter' = [counter EXCEPT ![month] =
            AddAddon(IF counter[month].exists THEN counter[month]
                     ELSE [NewCounter EXCEPT !.included = included], PackageSize)]
    BY <1>3 DEF Pay, Activate, SetCounter
  <2>. DEFINE r == IF counter[month].exists THEN counter[month]
                   ELSE [NewCounter EXCEPT !.included = included]
  <2>2. ~counter[month].exists => counter[month].used = 0
    BY DEF Rows, NoCounter, TypeOK, QuotaTypeOK
  <2>3. AddAddon(r, PackageSize).exists /\ AddAddon(r, PackageSize).used = counter[month].used
    BY <2>2 DEF AddAddon, NewCounter, NoCounter, TypeOK, QuotaTypeOK, Counter
  <2>4. \A m \in Months : counter'[m] = IF m = month THEN AddAddon(r, PackageSize) ELSE counter[m]
    BY <2>1 DEF TypeOK, QuotaTypeOK
  <2> HIDE DEF r
  <2>5. \A m \in Months : ~counter'[m].exists => counter'[m] = NoCounter
    BY <2>3, <2>4 DEF Rows
  <2> QED BY <1>1, <1>2, <2>3, <2>4, <2>5
<1>4. CASE ResetQuota /\ ResetWrite
  <2>1. \A m \in Months : counter'[m] =
           IF m = month THEN [NewCounter EXCEPT !.addon = reset.carry] ELSE counter[m]
    BY <1>4 DEF ResetWrite, SetCounter, TypeOK, QuotaTypeOK
  <2>2. reset.pc = "carried"
    BY <1>4 DEF ResetWrite
  <2>3. /\ [NewCounter EXCEPT !.addon = reset.carry].exists
        /\ [NewCounter EXCEPT !.addon = reset.carry].used = 0
    BY DEF NewCounter, NoCounter
  <2> QED BY <1>1, <1>2, <2>1, <2>2, <2>3 DEF Rows
<1>5. CASE (\E k \in Packages : Lapse(k)) \/ NextMonth \/ (ResetQuota /\ ResetRead)
  <2>1. counter' = counter
    BY <1>5 DEF Lapse, NextMonth, ResetQuota, Expire, TurnMonth, ResetRead
  <2> QED BY <1>1, <1>2, <2>1 DEF Rows
<1> QED BY <1>3, <1>4, <1>5 DEF ResetQuota

ClientStep(p) ==
  \/ Granted(p) \/ Finished(p) \/ Crash(p)
  \/ \E d \in Docs : AskReserve(p, d) \/ AskConsume(p, d) \/ AskRelease(p, d)
Around ==
  \/ \E k \in Packages : Pay(k) \/ Lapse(k)
  \/ NextMonth \/ ResetQuota

\* keys tell kinds, periods and documents apart
LEMMA KeysApart ==
  \A m, n, d, e : /\ ConsumeKey(m, d) = ConsumeKey(n, e) <=> m = n /\ d = e
                  /\ ReleaseKey(m, d) = ReleaseKey(n, e) <=> m = n /\ d = e
                  /\ ConsumeKey(m, d) # ReleaseKey(n, e)
BY DEF ConsumeKey, ReleaseKey

LEMMA PresentStep ==
  ASSUME TypeOK, TypeOK', Present, [Next]_vars
  PROVE  Present'
<1>1. ASSUME NEW p \in Callers, Serve(p)
      PROVE  Present'
  <2>. DEFINE m == call[p].period
  <2>0. QuotaStep(p) /\ job' = job /\ m \in Months /\ Rows
    BY <1>1, StepShape DEF Serve, Present, Call
  <2>1. \A n \in Months : /\ counter[n].exists => counter'[n].exists
                          /\ ~counter'[n].exists => counter'[n] = NoCounter
    BY <2>0, StepCounter DEF Rows, NewCounter, NoCounter
  <2>2. ASSUME NEW q \in Callers, call'[q].pc \in {"granted"} \cup ConsumeSteps \cup ReleaseSteps
        PROVE  counter'[call'[q].period].exists
    <3>1. CASE q = p
      <4>1. call'[p].period = m /\ (call'[p].pc = "granted" => counter'[m].exists)
        BY <2>0, StepShape, StepCounter
      <4>2. call'[p].pc \in ConsumeSteps \cup ReleaseSteps => call[p].pc \in ConsumeSteps \cup ReleaseSteps
        BY <2>0, StepPlace
      <4> QED BY <2>0, <2>1, <2>2, <3>1, <4>1, <4>2 DEF Present
    <3>2. CASE q # p
      <4>1. call'[q] = call[q]
        BY <2>0, <3>2, StepShape
      <4>2. call[q] \in Call /\ counter[call[q].period].exists
        BY <2>2, <4>1, CallTypes DEF Present, TypeOK, ConsumeSteps, ReleaseSteps
      <4> QED BY <2>1, <4>1, <4>2 DEF Call
    <3> QED BY <3>1, <3>2
  <2>3. \A d \in Docs : job[d].period \in Months
    BY DEF TypeOK, Job
  <2> QED BY <2>0, <2>1, <2>2, <2>3 DEF Present, Rows
<1>2. ASSUME NEW p \in Callers, ClientStep(p)
      PROVE  Present'
  <2>1. counter' = counter /\ \A q \in Callers \ {p} : call'[q] = call[q]
    BY <1>2, ClientShape DEF ClientStep
  <2>2. \A d \in Docs : job'[d].state # "none" => counter[job'[d].period].exists
    BY <1>2, ClientJob DEF ClientStep, Present
  <2>3. call'[p].pc \in {"granted"} \cup ConsumeSteps \cup ReleaseSteps => counter[call'[p].period].exists
    <3>1. CASE Idle(p)'
      BY <3>1 DEF Idle, NoCall, ConsumeSteps, ReleaseSteps
    <3>2. CASE ~Idle(p)'
      BY <1>2, <3>2, ClientJob DEF ClientStep, Present, ConsumeSteps, ReleaseSteps
    <3> QED BY <3>1, <3>2
  <2> QED BY <2>1, <2>2, <2>3 DEF Present, Rows
<1>3. ASSUME Around
      PROVE  Present'
  <2>1. /\ UNCHANGED <<call, job>>
        /\ \A m \in Months : /\ counter[m].exists => counter'[m].exists
                             /\ ~counter'[m].exists => counter'[m] = NoCounter
    BY <1>3, AroundShape DEF Around, Present
  <2>2. \A q \in Callers : call[q].pc \in {"granted"} \cup ConsumeSteps \cup ReleaseSteps
                             => call[q].period \in Months
    BY CallTypes DEF TypeOK, ConsumeSteps, ReleaseSteps, Call
  <2>3. \A d \in Docs : job[d].period \in Months
    BY DEF TypeOK, Job
  <2> QED BY <2>1, <2>2, <2>3 DEF Present, Rows
<1>4. CASE UNCHANGED vars
  BY <1>4 DEF vars, quotaVars, Present, Rows
<1> QED BY <1>1, <1>2, <1>3, <1>4 DEF Next, ClientStep, Around

LEMMA TimelyStep ==
  ASSUME TypeOK, TypeOK', Rows, Timely, "early" \notin Faults, [Next]_vars
  PROVE  Timely'
<1>1. ASSUME NEW p \in Callers, Serve(p)
      PROVE  Timely'
  <2>0. QuotaStep(p) /\ job' = job /\ UNCHANGED <<month, reset>> /\ call[p] \in Call /\ ~Idle(p)
    BY <1>1, StepShape DEF Serve
  <2>1. \A m : Elapsed(m)' <=> Elapsed(m)
    BY <2>0 DEF Elapsed
  <2>2. ASSUME NEW q \in Callers, ~Idle(q)'
        PROVE  Elapsed(call'[q].period)
    BY <2>0, <2>2, StepShape DEF Timely, Idle
  <2>3. ASSUME NEW m \in Months, NEW d \in Docs, ConsumeKey(m, d) \in ledger'
        PROVE  Elapsed(m)
    <3>1. ConsumeKey(m, d) \in ledger \/ m = call[p].period
      BY <2>0, <2>3, StepPlace, KeysApart
    <3> QED BY <2>0, <3>1 DEF Timely
  <2>4. \A d \in Docs : job'[d].state # "none" => Elapsed(job'[d].period)
    BY <2>0 DEF Timely
  <2>5. \A q \in Callers : ~Idle(q)' => Elapsed(call[q].period)'
    BY <2>0, <2>2 DEF Elapsed
  <2>6. \A d \in Docs : (job[d].state # "none")' => Elapsed(job[d].period)'
    BY <2>0, <2>4 DEF Elapsed
  <2>7. \A m \in Months, d \in Docs : ConsumeKey(m, d)' \in ledger' => Elapsed(m)'
    BY <2>1, <2>3 DEF ConsumeKey
  <2> QED BY <2>5, <2>6, <2>7 DEF Timely, Elapsed, ConsumeKey
<1>2. ASSUME NEW p \in Callers, ClientStep(p)
      PROVE  Timely'
  <2>1. UNCHANGED <<month, reset, ledger>> /\ \A q \in Callers \ {p} : call'[q] = call[q]
    BY <1>2, ClientShape DEF ClientStep
  <2>2. \A d \in Docs : job'[d].state # "none" => Elapsed(job'[d].period)
    <3>1. call[p].pc = "granted" => ~Idle(p)
      BY DEF Idle, NoCall
    <3> QED BY <1>2, <3>1, ClientJob DEF ClientStep, Timely
  <2>3. ~Idle(p)' => Elapsed(call'[p].period)
    <3>1. PeriodOpen => Elapsed(month)
      BY QuotaAssumption DEF PeriodOpen, Elapsed, TypeOK, QuotaTypeOK, QuotaAssumption
    <3> QED BY <1>2, <3>1, ClientJob DEF ClientStep, Timely
  <2>4. \A q \in Callers : ~Idle(q)' => Elapsed(call'[q].period)
    BY <2>1, <2>3 DEF Timely, Idle
  <2> QED BY <2>1, <2>2, <2>4 DEF Timely, Elapsed, ConsumeKey
<1>3. ASSUME Around
      PROVE  Timely'
  <2>1. /\ UNCHANGED <<call, job, ledger>>
        /\ \A m \in Months : Elapsed(m) => Elapsed(m)'
    BY <1>3, AroundShape DEF Around
  <2>2. \A q \in Callers : ~Idle(q) => call[q].period \in Months
    BY IdleCall DEF TypeOK, Call
  <2>3. \A d \in Docs : job[d].period \in Months
    BY DEF TypeOK, Job
  <2>4. \A q \in Callers : ~Idle(q)' => Elapsed(call[q].period)'
    BY <2>1, <2>2 DEF Timely, Idle, Elapsed
  <2>5. \A d \in Docs : job'[d].state # "none" => Elapsed(job[d].period)'
    BY <2>1, <2>3 DEF Timely, Elapsed
  <2>6. \A m \in Months, d \in Docs : ConsumeKey(m, d)' \in ledger' => Elapsed(m)'
    BY <2>1 DEF Timely, ConsumeKey
  <2> QED BY <2>1, <2>4, <2>5, <2>6 DEF Timely, Elapsed, ConsumeKey
<1>4. CASE UNCHANGED vars
  BY <1>4 DEF vars, quotaVars, Timely, Elapsed, ConsumeKey, Idle
<1> QED BY <1>1, <1>2, <1>3, <1>4 DEF Next, ClientStep, Around

\* what a step does to the emissions counted, entered and on their way in a period
Untouched(m) == Entered(m)' = Entered(m) /\ Unrecorded(m)' = Unrecorded(m)
Counts(p, m) ==
  /\ call[p].pc = "co_used" /\ call[p].period = m
  /\ counter'[m].used = counter[m].used + 1
  /\ Entered(m)' = Entered(m) /\ Unrecorded(m)' = Unrecorded(m) \cup {p} /\ p \notin Unrecorded(m)
Records(p, m) ==
  /\ call[p].pc = "co_ledger" /\ call[p].period = m /\ call[p].doc \in Docs
  /\ counter'[m].used = counter[m].used
  /\ Entered(m)' = Entered(m) \cup {call[p].doc}
  /\ Unrecorded(m)' = Unrecorded(m) \ {p} /\ p \in Unrecorded(m)
Dies(p, m) ==
  /\ crashes < MaxCrashes
  /\ counter'[m].used = counter[m].used
  /\ Entered(m)' = Entered(m) /\ Unrecorded(m)' = Unrecorded(m) \ {p}

LEMMA CountingStep ==
  ASSUME TypeOK, TypeOK', Present, NEW m \in Months, [Next]_vars
  PROVE  \/ Untouched(m) /\ counter'[m].used = counter[m].used
         \/ \E p \in Callers : Counts(p, m) \/ Records(p, m) \/ Dies(p, m)
         \/ reset.pc = "carried" /\ m = month /\ Untouched(m) /\ counter'[m].used = 0
<1>1. ASSUME NEW p \in Callers, Serve(p)
      PROVE  (Untouched(m) /\ counter'[m].used = counter[m].used) \/ Counts(p, m) \/ Records(p, m)
  <2>. DEFINE n == call[p].period
              S == {"co_reserved", "co_package", "co_decrement", "co_addon", "co_ledger"}
  <2>0. /\ QuotaStep(p) /\ n \in Months /\ call[p].doc \in Docs /\ Rows /\ call'[p].period = n
        /\ \A q \in Callers \ {p} : call'[q] = call[q]
    BY <1>1, StepShape DEF Serve, Present, Call
  <2>1. CASE call[p].pc = "co_used" /\ n = m
    <3>1. counter[m].exists
      BY <2>0, <2>1 DEF Present, ConsumeSteps
    <3>2. counter'[m].used = counter[m].used + 1
      BY <2>0, <2>1, <3>1, StepCounter
    <3>3. call'[p].pc = "co_reserved" /\ ledger' = ledger
      BY <2>0, <2>1, StepPlace
    <3>4. Unrecorded(m)' = Unrecorded(m) \cup {p} /\ p \notin Unrecorded(m)
      BY <2>0, <2>1, <3>3 DEF Unrecorded
    <3> QED BY <2>1, <3>2, <3>3, <3>4 DEF Counts, Entered, ConsumeKey
  <2>2. CASE call[p].pc = "co_ledger" /\ n = m
    <3>1. counter'[m].used = counter[m].used
      BY <2>0, <2>2, StepCounter
    <3>2. call'[p].pc = "closed" /\ ledger' = ledger \cup {ConsumeKey(m, call[p].doc)}
      BY <2>0, <2>2, StepPlace
    <3>3. Unrecorded(m)' = Unrecorded(m) \ {p} /\ p \in Unrecorded(m)
      BY <2>0, <2>2, <3>2 DEF Unrecorded
    <3>4. Entered(m)' = Entered(m) \cup {call[p].doc}
      BY <2>0, <3>2, KeysApart DEF Entered, ConsumeKey
    <3> QED BY <2>0, <2>2, <3>1, <3>3, <3>4 DEF Records
  <2>3. CASE ~(call[p].pc \in {"co_used", "co_ledger"} /\ n = m)
    <3>1. counter'[m].used = counter[m].used
      BY <2>0, <2>3, StepCounter
    <3>2. n = m => (call[p].pc \in S <=> call'[p].pc \in S)
      BY <2>0, <2>3, StepPlace DEF ReserveSteps, ConsumeSteps, ReleaseSteps
    <3>3. Unrecorded(m)' = Unrecorded(m)
      BY <2>0, <3>2 DEF Unrecorded
    <3>4. \A d \in Docs : ConsumeKey(m, d) \in ledger' <=> ConsumeKey(m, d) \in ledger
      BY <2>0, <2>3, StepPlace, KeysApart
    <3>5. Entered(m)' = Entered(m)
      BY <3>4 DEF Entered, ConsumeKey
    <3> QED BY <3>1, <3>3, <3>5 DEF Untouched
  <2> QED BY <2>1, <2>2, <2>3
<1>2. ASSUME NEW p \in Callers, ClientStep(p)
      PROVE  (Untouched(m) /\ counter'[m].used = counter[m].used) \/ Dies(p, m)
  <2>1. /\ UNCHANGED <<counter, ledger>> /\ \A q \in Callers \ {p} : call'[q] = call[q]
        /\ call'[p].pc \in {"idle", "res_read", "co_check", "rel_check"}
    BY <1>2, ClientShape DEF ClientStep
  <2>2. Unrecorded(m)' = Unrecorded(m) \ {p} /\ Entered(m)' = Entered(m)
    BY <2>1 DEF Unrecorded, Entered, ConsumeKey
  <2>3. CASE Crash(p)
    BY <2>1, <2>2, <2>3 DEF Crash, Dies
  <2>4. CASE ~Crash(p)
    <3>1. p \notin Unrecorded(m)
      BY <1>2, <2>4 DEF ClientStep, Unrecorded, Granted, Finished, AskReserve, AskConsume, AskRelease, Idle, NoCall
    <3> QED BY <2>1, <2>2, <3>1 DEF Untouched
  <2> QED BY <2>3, <2>4
<1>3. ASSUME Around
      PROVE  /\ Untouched(m)
             /\ \/ counter'[m].used = counter[m].used
                \/ reset.pc = "carried" /\ m = month /\ counter'[m].used = 0
  <2>1. /\ UNCHANGED <<call, ledger>>
        /\ \/ counter'[m].used = counter[m].used
           \/ reset.pc = "carried" /\ m = month /\ counter'[m].used = 0
    BY <1>3, AroundShape DEF Around, Present
  <2> QED BY <2>1 DEF Untouched, Entered, Unrecorded, ConsumeKey
<1>4. CASE UNCHANGED vars
  BY <1>4 DEF vars, quotaVars, Untouched, Entered, Unrecorded, ConsumeKey
<1> QED BY <1>1, <1>2, <1>3, <1>4 DEF Next, ClientStep, Around

\* the sets counted are finite
LEMMA CountingFinite ==
  ASSUME NEW m \in Months
  PROVE  /\ IsFiniteSet(Entered(m)) /\ Cardinality(Entered(m)) \in Nat
         /\ IsFiniteSet(Unrecorded(m)) /\ Cardinality(Unrecorded(m)) \in Nat
BY QuotaAssumption, FS_Subset, FS_CardinalityType DEF QuotaAssumption, Entered, Unrecorded

\* before the reset of a period nothing is entered or on its way in it
LEMMA NothingYet ==
  ASSUME TypeOK, Timely, reset.pc = "carried"
  PROVE  Entered(month) = {} /\ Unrecorded(month) = {}
<1>1. ~Elapsed(month)
  BY QuotaAssumption DEF Elapsed, TypeOK, QuotaTypeOK, QuotaAssumption
<1>2. month \in Months
  BY DEF TypeOK, QuotaTypeOK
<1>3. Entered(month) = {}
  BY <1>1, <1>2 DEF Timely, Entered
<1>4. Unrecorded(month) = {}
  BY <1>1 DEF Timely, Unrecorded, Idle, NoCall
<1> QED BY <1>3, <1>4

LEMMA AtLeastStep ==
  ASSUME TypeOK, TypeOK', Present, Timely, AtLeast, [Next]_vars
  PROVE  AtLeast'
<1>. SUFFICES ASSUME NEW m \in Months
              PROVE  counter'[m].used >= Cardinality(Entered(m)') + Cardinality(Unrecorded(m)')
  BY DEF AtLeast
<1>. DEFINE e == Cardinality(Entered(m))
            u == Cardinality(Unrecorded(m))
<1>1. /\ IsFiniteSet(Entered(m)) /\ e \in Nat /\ IsFiniteSet(Unrecorded(m)) /\ u \in Nat
      /\ counter[m].used \in Nat /\ counter'[m].used \in Nat /\ counter[m].used >= e + u
  BY CountingFinite DEF AtLeast, TypeOK, QuotaTypeOK, Counter
<1>2. CASE Untouched(m) /\ counter'[m].used = counter[m].used
  BY <1>1, <1>2 DEF Untouched
<1>3. ASSUME NEW p \in Callers, Counts(p, m)
      PROVE  counter'[m].used >= Cardinality(Entered(m)') + Cardinality(Unrecorded(m)')
  <2>1. Cardinality(Unrecorded(m)') = u + 1
    BY <1>1, <1>3, FS_AddElement DEF Counts
  <2> QED BY <1>1, <1>3, <2>1 DEF Counts
<1>4. ASSUME NEW p \in Callers, Records(p, m)
      PROVE  counter'[m].used >= Cardinality(Entered(m)') + Cardinality(Unrecorded(m)')
  <2>1. Cardinality(Unrecorded(m)') = u - 1
    BY <1>1, <1>4, FS_RemoveElement DEF Records
  <2>2. Cardinality(Entered(m)') = IF call[p].doc \in Entered(m) THEN e ELSE e + 1
    BY <1>1, <1>4, FS_AddElement DEF Records
  <2>3. Cardinality(Entered(m)') <= e + 1 /\ Cardinality(Entered(m)') \in Nat
    BY <1>1, <2>2
  <2> QED BY <1>1, <1>4, <2>1, <2>3 DEF Records
<1>5. ASSUME NEW p \in Callers, Dies(p, m)
      PROVE  counter'[m].used >= Cardinality(Entered(m)') + Cardinality(Unrecorded(m)')
  <2>1. Cardinality(Unrecorded(m)') <= u /\ Cardinality(Unrecorded(m)') \in Nat
    <3>1. Unrecorded(m) \ {p} \subseteq Unrecorded(m)
      OBVIOUS
    <3>2. IsFiniteSet(Unrecorded(m) \ {p}) /\ Cardinality(Unrecorded(m) \ {p}) <= u
      BY <1>1, <3>1, FS_Subset
    <3> QED BY <1>5, <3>2, FS_CardinalityType DEF Dies
  <2> QED BY <1>1, <1>5, <2>1 DEF Dies
<1>6. CASE reset.pc = "carried" /\ m = month /\ Untouched(m) /\ counter'[m].used = 0
  <2>1. Cardinality(Entered(m)') = 0 /\ Cardinality(Unrecorded(m)') = 0
    BY <1>6, NothingYet, FS_EmptySet DEF Untouched
  <2> QED BY <1>6, <2>1
<1> QED BY <1>2, <1>3, <1>4, <1>5, <1>6, CountingStep

-----------------------------------------------------------------------------
(* What is counted is recorded once *)

\* who is to count an emission, or has counted it, has not recorded it
Unentered ==
  \A p \in Callers : call[p].pc \in ConsumeSteps \ {"co_check"}
                       => ConsumeKey(call[p].period, call[p].doc) \notin ledger
AtMost ==
  \A m \in Months : counter[m].used <= Cardinality(Entered(m)) + Cardinality(Unrecorded(m))

LEMMA SerialStep ==
  ASSUME TypeOK, TypeOK', Serial, "overlap" \notin Faults, [Next]_vars
  PROVE  Serial'
<1>1. ASSUME NEW p \in Callers, Serve(p)
      PROVE  Serial'
  <2>1. QuotaStep(p)
    BY <1>1 DEF Serve
  <2>2. /\ ~Idle(p) /\ call'[p].doc = call[p].doc
        /\ \A q \in Callers \ {p} : call'[q] = call[q]
    BY <2>1, StepShape
  <2> QED BY <2>2 DEF Serial, Idle
<1>2. ASSUME NEW p \in Callers, ClientStep(p)
      PROVE  Serial'
  <2>1. \A q \in Callers \ {p} : call'[q] = call[q]
    BY <1>2, ClientShape DEF ClientStep
  <2>2. CASE Idle(p)'
    BY <2>1, <2>2 DEF Serial, Idle
  <2>3. CASE ~Idle(p)'
    <3>1. PICK d \in Docs : AskReserve(p, d) \/ AskConsume(p, d) \/ AskRelease(p, d)
      BY <1>2, <2>3 DEF ClientStep, Granted, Finished, Crash, EndCall, Idle, TypeOK, QuotaTypeOK
    <3>2. ~Busy(d)
      BY <3>1 DEF AskReserve, AskConsume, AskRelease, MayCall
    <3>3. call'[p].doc = d
      BY <3>1 DEF AskReserve, AskConsume, AskRelease, ReserveCall, ConsumeCall, ReleaseCall, Start,
         TypeOK, QuotaTypeOK
    <3> QED BY <2>1, <3>2, <3>3 DEF Serial, Idle, Busy
  <2> QED BY <2>2, <2>3
<1>3. CASE Around \/ UNCHANGED vars
  <2>1. call' = call
    BY <1>3 DEF Around, Pay, Lapse, NextMonth, ResetQuota, Activate, Expire, TurnMonth, ResetRead,
       ResetWrite, vars, quotaVars
  <2> QED BY <2>1 DEF Serial, Idle
<1> QED BY <1>1, <1>2, <1>3 DEF Next, ClientStep, Around

LEMMA UnenteredStep ==
  ASSUME TypeOK, TypeOK', Serial, Unentered, [Next]_vars
  PROVE  Unentered'
<1>1. ASSUME NEW p \in Callers, Serve(p)
      PROVE  Unentered'
  <2>0. /\ QuotaStep(p) /\ ~Idle(p) /\ call[p] \in Call
        /\ call'[p].period = call[p].period /\ call'[p].doc = call[p].doc
        /\ \A q \in Callers \ {p} : call'[q] = call[q]
    BY <1>1, StepShape DEF Serve
  <2>1. ASSUME NEW q \in Callers, call'[q].pc \in ConsumeSteps \ {"co_check"}
        PROVE  ConsumeKey(call'[q].period, call'[q].doc) \notin ledger'
    <3>1. CASE q = p
      <4>1. /\ call[p].pc \in ConsumeSteps \ {"co_ledger"}
            /\ call[p].pc = "co_check" => ConsumeKey(call[p].period, call[p].doc) \notin ledger
        BY <2>0, <2>1, <3>1, StepPlace DEF ConsumeSteps
      <4>2. ledger' = ledger
        BY <2>0, <4>1, StepPlace DEF ConsumeSteps
      <4> QED BY <2>0, <3>1, <4>1, <4>2 DEF Unentered
    <3>2. CASE q # p
      <4>1. call'[q] = call[q] /\ ConsumeKey(call[q].period, call[q].doc) \notin ledger /\ ~Idle(q)
        BY <2>0, <2>1, <3>2 DEF Unentered, Idle, NoCall, ConsumeSteps
      <4>2. call[q].doc # call[p].doc
        BY <2>0, <3>2, <4>1 DEF Serial
      <4> QED BY <2>0, <4>1, <4>2, StepPlace, KeysApart
    <3> QED BY <3>1, <3>2
  <2> QED BY <2>1 DEF Unentered, ConsumeKey
<1>2. ASSUME NEW p \in Callers, ClientStep(p)
      PROVE  Unentered'
  <2>1. /\ ledger' = ledger /\ \A q \in Callers \ {p} : call'[q] = call[q]
        /\ call'[p].pc \in {"idle", "res_read", "co_check", "rel_check"}
    BY <1>2, ClientShape DEF ClientStep
  <2> QED BY <2>1 DEF Unentered, ConsumeKey, ConsumeSteps
<1>3. CASE Around \/ UNCHANGED vars
  <2>1. UNCHANGED <<call, ledger>>
    BY <1>3 DEF Around, Pay, Lapse, NextMonth, ResetQuota, Activate, Expire, TurnMonth, ResetRead,
       ResetWrite, vars, quotaVars
  <2> QED BY <2>1 DEF Unentered, ConsumeKey
<1> QED BY <1>1, <1>2, <1>3 DEF Next, ClientStep, Around

LEMMA AtMostStep ==
  ASSUME TypeOK, TypeOK', Present, Unentered, AtMost, MaxCrashes = 0, [Next]_vars
  PROVE  AtMost'
<1>. SUFFICES ASSUME NEW m \in Months
              PROVE  counter'[m].used <= Cardinality(Entered(m)') + Cardinality(Unrecorded(m)')
  BY DEF AtMost
<1>. DEFINE e == Cardinality(Entered(m))
            u == Cardinality(Unrecorded(m))
<1>1. /\ IsFiniteSet(Entered(m)) /\ e \in Nat /\ IsFiniteSet(Unrecorded(m)) /\ u \in Nat
      /\ counter[m].used \in Nat /\ counter'[m].used \in Nat /\ counter[m].used <= e + u
  BY CountingFinite DEF AtMost, TypeOK, QuotaTypeOK, Counter
<1>2. CASE Untouched(m) /\ counter'[m].used = counter[m].used
  BY <1>1, <1>2 DEF Untouched
<1>3. ASSUME NEW p \in Callers, Counts(p, m)
      PROVE  counter'[m].used <= Cardinality(Entered(m)') + Cardinality(Unrecorded(m)')
  <2>1. Cardinality(Unrecorded(m)') = u + 1
    BY <1>1, <1>3, FS_AddElement DEF Counts
  <2> QED BY <1>1, <1>3, <2>1 DEF Counts
<1>4. ASSUME NEW p \in Callers, Records(p, m)
      PROVE  counter'[m].used <= Cardinality(Entered(m)') + Cardinality(Unrecorded(m)')
  <2>1. Cardinality(Unrecorded(m)') = u - 1
    BY <1>1, <1>4, FS_RemoveElement DEF Records
  <2>2. call[p].doc \notin Entered(m)
    BY <1>4 DEF Records, Unentered, Entered, ConsumeSteps
  <2>3. Cardinality(Entered(m)') = e + 1
    BY <1>1, <1>4, <2>2, FS_AddElement DEF Records
  <2> QED BY <1>1, <1>4, <2>1, <2>3 DEF Records
<1>5. ASSUME NEW p \in Callers, Dies(p, m)
      PROVE  FALSE
  BY <1>5 DEF Dies, TypeOK
<1>6. CASE reset.pc = "carried" /\ m = month /\ Untouched(m) /\ counter'[m].used = 0
  BY <1>1, <1>6 DEF Untouched
<1> QED BY <1>2, <1>3, <1>4, <1>5, <1>6, CountingStep

LEMMA CountingInit ==
  ASSUME Init
  PROVE  Present /\ Timely /\ AtLeast /\ Serial /\ Unentered /\ AtMost
<1>1. /\ \A p \in Callers : Idle(p) /\ call[p].pc = "idle"
      /\ ledger = {} /\ \A m \in Months : counter[m] = NoCounter
      /\ \A d \in Docs : job[d].state = "none"
  BY DEF Init, QuotaInit, Idle, NoCall
<1>2. \A m \in Months : Entered(m) = {} /\ Unrecorded(m) = {} /\ counter[m].used = 0
  BY <1>1 DEF Entered, Unrecorded, NoCounter
<1>3. \A m \in Months : Cardinality(Entered(m)) = 0 /\ Cardinality(Unrecorded(m)) = 0
  BY <1>2, FS_EmptySet
<1>4. AtLeast /\ AtMost
  BY <1>2, <1>3 DEF AtLeast, AtMost
<1> QED BY <1>1, <1>4 DEF Present, Rows, Timely, Serial, Unentered, ConsumeSteps, ReleaseSteps

\* Whatever overlaps and however often a call dies half way and is repeated, no
\* emission that the ledger records is missing from used_count, for any number of
\* documents, callers and periods: what is to be recorded is counted first, in a
\* row that is there, and no reset comes between.
THEOREM NothingUncounted ==
  ASSUME "early" \notin Faults
  PROVE  Spec => []NeverUncounted
<1>. DEFINE Inv == Present /\ Timely /\ AtLeast
<1>1. Init => Inv
  BY CountingInit
<1>2. TypeOK /\ TypeOK' /\ Inv /\ [Next]_vars => Inv'
  BY PresentStep, TimelyStep, AtLeastStep DEF Present
<1>3. TypeOK /\ Inv => NeverUncounted
  <2>. SUFFICES ASSUME TypeOK, Inv, NEW m \in Months
                PROVE  counter[m].used >= Cardinality(Entered(m))
    BY DEF NeverUncounted, Entered
  <2>1. counter[m].used \in Nat
    BY DEF TypeOK, QuotaTypeOK, Counter
  <2> QED BY <2>1, CountingFinite DEF AtLeast
<1> QED BY <1>1, <1>2, <1>3, Typing, PTL DEF Spec

\* With serial calls that nobody interrupts used_count is the number of documents
\* recorded as consumed, however often their outcome is reported: consume looks in
\* the ledger before it counts, and nobody records the same document meanwhile.
THEOREM UsedOnce ==
  ASSUME "overlap" \notin Faults, "early" \notin Faults, MaxCrashes = 0
  PROVE  Spec => []UsedOncePerDocument
<1>. DEFINE Inv == Present /\ Timely /\ AtLeast /\ Serial /\ Unentered /\ AtMost
<1>1. Init => Inv
  BY CountingInit
<1>2. TypeOK /\ TypeOK' /\ Inv /\ [Next]_vars => Inv'
  BY PresentStep, TimelyStep, AtLeastStep, SerialStep, UnenteredStep, AtMostStep DEF Present
<1>3. TypeOK /\ Inv => UsedOncePerDocument
  <2>. SUFFICES ASSUME TypeOK, Inv, NEW m \in Months
                PROVE  counter[m].used = Cardinality(Entered(m)) + Cardinality(Unrecorded(m))
    BY DEF UsedOncePerDocument, Entered
  <2>1. counter[m].used \in Nat
    BY DEF TypeOK, QuotaTypeOK, Counter
  <2> QED BY <2>1, CountingFinite DEF AtLeast, AtMost
<1> QED BY <1>1, <1>2, <1>3, Typing, PTL DEF Spec

-----------------------------------------------------------------------------
(* What is released is returned *)

\* what a step of p does to the units reserved
Takes(p) ==
  /\ call[p].pc = "res_lock" /\ call'[p].pc = "granted"
  /\ held' = held \cup {<<call[p].doc, call[p].period>>}
  /\ counter'[call[p].period].reserved = counter[call[p].period].reserved + 1
Gives(p) ==
  /\ call[p].pc \in {"co_reserved", "rel_reserved"} /\ call'[p].pc # "granted"
  /\ held' = held \ {<<call[p].doc, call[p].period>>}
  /\ counter'[call[p].period].reserved =
       IF counter[call[p].period].exists THEN counter[call[p].period].reserved - 1 ELSE 0
Keeps(p) ==
  /\ call[p].pc \notin {"co_reserved", "rel_reserved"}
  /\ call'[p].pc \notin {"granted", "rel_ledger"}
  /\ \/ held' = held
     \/ /\ held' = held \ {<<call[p].doc, call[p].period>>}
        /\ call[p].pc = "rel_check"
  /\ counter'[call[p].period].reserved = counter[call[p].period].reserved

LEMMA StepUnits ==
  ASSUME TypeOK, TypeOK', Rows, NEW p \in Callers, QuotaStep(p)
  PROVE  Takes(p) \/ Gives(p) \/ Keeps(p)
<1>. DEFINE m == call[p].period
            c == counter[m]
<1>1. m \in Months /\ c \in Counter /\ call[p] \in Call /\ p \in DOMAIN call
  BY StepShape DEF Call, TypeOK, QuotaTypeOK
<1>2. ~c.exists => c = NoCounter
  BY <1>1 DEF Rows
<1>3. CASE ReserveRead(p)
  <2>1. counter'[m] = IF c.exists THEN c ELSE NewCounter
    BY <1>1, <1>3 DEF ReserveRead, SetCounter, TypeOK, QuotaTypeOK
  <2>2. counter'[m].reserved = c.reserved
    BY <1>2, <2>1 DEF NewCounter, NoCounter
  <2>3. call[p].pc = "res_read" /\ call'[p].pc # "granted" /\ held' = held
    <3>1. call' = [call EXCEPT ![p] = [call[p] EXCEPT
             !.pc = IF AvailableQuota(IF c.exists THEN c ELSE NewCounter) = 0 THEN "exceeded" ELSE "res_lock",
             !.addon = (AvailableIncluded(IF c.exists THEN c ELSE NewCounter) = 0)]]
      BY <1>3 DEF ReserveRead
    <3>2. call'[p].pc = IF AvailableQuota(IF c.exists THEN c ELSE NewCounter) = 0 THEN "exceeded" ELSE "res_lock"
      BY <1>1, <3>1 DEF Call
    <3> QED BY <1>3, <3>2 DEF ReserveRead
  <2>4. call'[p].pc # "rel_ledger"
    BY <2>3, StepPlace DEF ReserveSteps
  <2> QED BY <2>2, <2>3, <2>4 DEF Keeps
<1>4. CASE ReserveLock(p)
  <2>1. \/ counter'[m] = [c EXCEPT !.reserved = @ + 1] /\ call'[p].pc = "granted"
           /\ held' = held \cup {<<call[p].doc, m>>}
        \/ counter' = counter /\ held' = held /\ call'[p].pc = "exceeded"
    BY <1>1, <1>4 DEF ReserveLock, SetCounter, Goto, TypeOK, QuotaTypeOK, Call
  <2>2. [c EXCEPT !.reserved = @ + 1].reserved = c.reserved + 1
    BY <1>1 DEF Counter
  <2>3. call[p].pc = "res_lock"
    BY <1>4 DEF ReserveLock
  <2> QED BY <2>1, <2>2, <2>3 DEF Takes, Keeps
<1>5. CASE ConsumeReserved(p) \/ ReleaseReserved(p)
  <2>1. /\ counter'[m] = AddReserved(c, -1) /\ held' = held \ {<<call[p].doc, m>>}
        /\ call[p].pc \in {"co_reserved", "rel_reserved"} /\ call'[p].pc # "granted"
    BY <1>1, <1>5 DEF ConsumeReserved, ReleaseReserved, SetCounter, Goto, TypeOK, QuotaTypeOK, Call
  <2>2. AddReserved(c, -1).reserved = IF c.exists THEN c.reserved - 1 ELSE 0
    BY <1>1, <1>2 DEF AddReserved, Counter, NoCounter
  <2> QED BY <2>1, <2>2 DEF Gives
<1>6. CASE ConsumeUsed(p) \/ ConsumeAddon(p)
  <2>1. \E r \in {AddUsed(c, 1), AddAddon(c, -1)} : counter'[m] = r
    BY <1>1, <1>6 DEF ConsumeUsed, ConsumeAddon, SetCounter, TypeOK, QuotaTypeOK
  <2>2. AddUsed(c, 1).reserved = c.reserved /\ AddAddon(c, -1).reserved = c.reserved
    BY <1>1 DEF AddUsed, AddAddon, Counter
  <2>3. /\ call[p].pc \in {"co_used", "co_addon"} /\ call'[p].pc \in {"co_reserved", "co_ledger"}
        /\ held' = held
    BY <1>1, <1>6 DEF ConsumeUsed, ConsumeAddon, Goto, Call
  <2> QED BY <2>1, <2>2, <2>3 DEF Keeps
<1>7. CASE ReleaseCheck(p)
  <2>1. /\ counter' = counter /\ call[p].pc = "rel_check"
        /\ IF ReleaseKey(m, call[p].doc) \in ledger
           THEN held' = held \ {<<call[p].doc, m>>} /\ call'[p].pc = "closed"
           ELSE held' = held /\ call'[p].pc = "rel_reserved"
    BY <1>1, <1>7 DEF ReleaseCheck, Goto, Call
  <2> QED BY <2>1 DEF Keeps
<1>9. CASE ReleaseLedger(p)
  BY <1>1, <1>9 DEF ReleaseLedger, Goto, Call, Keeps
<1>8. CASE ConsumeCheck(p) \/ ConsumePackage(p) \/ ConsumeDecrement(p) \/ ConsumeLedger(p)
  <2>1. /\ counter' = counter /\ held' = held
        /\ call[p].pc \in {"co_check", "co_package", "co_decrement", "co_ledger"}
    BY <1>8 DEF ConsumeCheck, ConsumePackage, ConsumeDecrement, ConsumeLedger
  <2>2. call'[p].pc \in ConsumeSteps \cup {"closed"}
    BY <2>1, StepPlace DEF ConsumeSteps
  <2> QED BY <2>1, <2>2 DEF Keeps, ConsumeSteps
<1> QED BY <1>3, <1>4, <1>5, <1>6, <1>7, <1>8, <1>9 DEF QuotaStep

\* payments and the reset reserve nothing
LEMMA AroundUnits ==
  ASSUME TypeOK, TypeOK', Rows, Around
  PROVE  held' = held /\ \A m \in Months : counter'[m].reserved \in {counter[m].reserved, 0}
<1>1. CASE \E k \in Packages : Pay(k)
  <2>1. PICK included \in {0, Plan} :
          counter' = [counter EXCEPT ![month] =
            AddAddon(IF counter[month].exists THEN counter[month]
                     ELSE [NewCounter EXCEPT !.included = included], PackageSize)]
    BY <1>1 DEF Pay, Activate, SetCounter
  <2>. DEFINE r == IF counter[month].exists THEN counter[month]
                   ELSE [NewCounter EXCEPT !.included = included]
  <2>2. r.reserved \in {counter[month].reserved, 0}
    BY DEF NewCounter, NoCounter
  <2>3. AddAddon(r, PackageSize).reserved = r.reserved
    BY DEF AddAddon, NewCounter, NoCounter, TypeOK, QuotaTypeOK, Counter
  <2>4. \A m \in Months : counter'[m] = IF m = month THEN AddAddon(r, PackageSize) ELSE counter[m]
    BY <2>1 DEF TypeOK, QuotaTypeOK
  <2> HIDE DEF r
  <2> QED BY <1>1, <2>2, <2>3, <2>4 DEF Pay, Activate
<1>2. CASE ResetQuota /\ ResetWrite
  <2>1. \A m \in Months : counter'[m] =
           IF m = month THEN [NewCounter EXCEPT !.addon = reset.carry] ELSE counter[m]
    BY <1>2 DEF ResetWrite, SetCounter, TypeOK, QuotaTypeOK
  <2>2. [NewCounter EXCEPT !.addon = reset.carry].reserved = 0
    BY DEF NewCounter, NoCounter
  <2> QED BY <1>2, <2>1, <2>2 DEF ResetWrite
<1>3. CASE (\E k \in Packages : Lapse(k)) \/ NextMonth \/ (ResetQuota /\ ResetRead)
  BY <1>3 DEF Lapse, NextMonth, ResetQuota, Expire, TurnMonth, ResetRead
<1> QED BY <1>1, <1>2, <1>3 DEF Around, ResetQuota

\* a unit counted is open or stranded, whichever step comes next
LEMMA ReturnedStep ==
  ASSUME TypeOK, TypeOK', Rows, ReservationsReturned, [Next]_vars
  PROVE  ReservationsReturned'
<1>. SUFFICES ASSUME NEW n \in Months
              PROVE  counter'[n].reserved <= Cardinality(OpenIn(n)') + stranded'[n]
  BY DEF ReservationsReturned
<1>1. /\ counter[n].reserved \in Int /\ counter'[n].reserved \in Int
      /\ IsFiniteSet(OpenIn(n)) /\ Cardinality(OpenIn(n)) \in Nat
      /\ counter[n].reserved <= Cardinality(OpenIn(n)) + stranded[n]
      /\ ~counter[n].exists => counter[n].reserved = 0
      /\ stranded[n] \in Nat /\ stranded'[n] \in Nat
  BY OpenFinite DEF ReservationsReturned, TypeOK, QuotaTypeOK, Counter, Rows, NoCounter
<1>2. ASSUME OpenIn(n)' = OpenIn(n), stranded'[n] >= stranded[n],
             counter'[n].reserved \in {counter[n].reserved, 0}
      PROVE  counter'[n].reserved <= Cardinality(OpenIn(n)') + stranded'[n]
  BY <1>1, <1>2
<1>3. ASSUME NEW p \in Callers, Serve(p)
      PROVE  counter'[n].reserved <= Cardinality(OpenIn(n)') + stranded'[n]
  <2>. DEFINE d == call[p].doc
              m == call[p].period
              again == call[p].pc = "res_lock" /\ call'[p].pc = "granted" /\ <<d, m>> \in held
              mistaken == call[p].pc = "rel_check" /\ <<d, m>> \in held /\ <<d, m>> \notin held'
  <2>1. QuotaStep(p) /\ d \in Docs /\ m \in Months
    BY <1>3, StepShape DEF Serve, Call
  <2>2. stranded' = [stranded EXCEPT ![m] = IF again \/ mistaken THEN @ + 1 ELSE @]
    BY <1>3 DEF Serve
  <2>3. /\ stranded'[n] >= stranded[n]
        /\ n = m /\ (again \/ mistaken) => stranded'[n] = stranded[n] + 1
    BY <1>1, <2>1, <2>2 DEF TypeOK
  <2>4. CASE n # m
    <3>1. counter'[n] = counter[n]
      BY <2>1, <2>4, StepCounter
    <3>2. OpenIn(n)' = OpenIn(n)
      BY <2>1, <2>4, StepUnits DEF Takes, Gives, Keeps, OpenIn
    <3> QED BY <1>2, <2>3, <3>1, <3>2
  <2>5. CASE n = m /\ Takes(p)
    <3>1. OpenIn(n)' = OpenIn(n) \cup {d}
      BY <2>1, <2>5 DEF Takes, OpenIn
    <3>2. CASE d \in OpenIn(n)
      <4>1. OpenIn(n)' = OpenIn(n) /\ again
        BY <2>5, <3>1, <3>2 DEF OpenIn, Takes
      <4>2. counter'[n].reserved = counter[n].reserved + 1
        BY <2>5 DEF Takes
      <4> QED BY <1>1, <2>3, <2>5, <4>1, <4>2
    <3>3. CASE d \notin OpenIn(n)
      <4>1. Cardinality(OpenIn(n)') = Cardinality(OpenIn(n)) + 1
        BY <1>1, <3>1, <3>3, FS_AddElement
      <4>2. counter'[n].reserved = counter[n].reserved + 1
        BY <2>5 DEF Takes
      <4> QED BY <1>1, <2>3, <4>1, <4>2
    <3> QED BY <3>2, <3>3
  <2>6. ASSUME OpenIn(n)' = OpenIn(n) \ {d}
        PROVE  /\ Cardinality(OpenIn(n)') \in Nat
               /\ Cardinality(OpenIn(n)') >= Cardinality(OpenIn(n)) - 1
    <3>1. Cardinality(OpenIn(n)') = IF d \in OpenIn(n) THEN Cardinality(OpenIn(n)) - 1 ELSE Cardinality(OpenIn(n))
      <4>. DEFINE open == OpenIn(n)
                  left == OpenIn(n) \ {d}
      <4>1. Cardinality(left) = IF d \in open THEN Cardinality(open) - 1 ELSE Cardinality(open)
        BY <1>1, FS_RemoveElement
      <4> QED BY <2>6, <4>1
    <3>2. Cardinality(OpenIn(n)') \in Nat
      BY <1>1, <2>6, FS_Subset, FS_CardinalityType
    <3> QED BY <1>1, <3>1, <3>2
  <2>7. CASE n = m /\ Gives(p)
    <3>1. OpenIn(n)' = OpenIn(n) \ {d}
      BY <2>1, <2>7 DEF Gives, OpenIn
    <3>2. counter'[n].reserved = IF counter[n].exists THEN counter[n].reserved - 1 ELSE 0
      BY <2>7 DEF Gives
    <3>3. /\ Cardinality(OpenIn(n)') \in Nat
          /\ Cardinality(OpenIn(n)') >= Cardinality(OpenIn(n)) - 1
      BY <2>6, <2>7, <3>1
    <3> QED BY <1>1, <2>3, <3>2, <3>3
  <2>8. CASE n = m /\ Keeps(p)
    <3>1. counter'[n].reserved = counter[n].reserved
      BY <2>8 DEF Keeps
    <3>2. CASE OpenIn(n)' = OpenIn(n)
      BY <1>2, <2>3, <3>1, <3>2
    <3>3. CASE OpenIn(n)' # OpenIn(n)
      <4>1. held' = held \ {<<d, m>>} /\ call[p].pc = "rel_check" /\ held' # held
        BY <2>8, <3>3 DEF Keeps, OpenIn
      <4>2. mistaken
        BY <4>1
      <4>3. OpenIn(n)' = OpenIn(n) \ {d}
        BY <2>1, <2>8, <4>1 DEF OpenIn
      <4>4. /\ Cardinality(OpenIn(n)') \in Nat
            /\ Cardinality(OpenIn(n)') >= Cardinality(OpenIn(n)) - 1
        BY <2>6, <2>8, <4>3
      <4> QED BY <1>1, <2>3, <2>8, <3>1, <4>2, <4>4
    <3> QED BY <3>2, <3>3
  <2> QED BY <2>1, <2>4, <2>5, <2>7, <2>8, StepUnits
<1>4. ASSUME NEW p \in Callers, ClientStep(p)
      PROVE  counter'[n].reserved <= Cardinality(OpenIn(n)') + stranded'[n]
  <2>1. UNCHANGED <<counter, held>>
    BY <1>4, ClientShape DEF ClientStep
  <2>2. stranded' = stranded
    BY <1>4 DEF ClientStep, Granted, Finished, Crash, AskReserve, AskConsume, AskRelease
  <2> QED BY <1>1, <1>2, <2>1, <2>2 DEF OpenIn
<1>5. CASE Around
  <2>1. stranded' = stranded
    BY <1>5 DEF Around, Pay, Lapse, NextMonth, ResetQuota
  <2> QED BY <1>1, <1>2, <1>5, <2>1, AroundUnits DEF OpenIn
<1>6. CASE UNCHANGED vars
  BY <1>1, <1>2, <1>6 DEF OpenIn, vars, quotaVars
<1> QED BY <1>3, <1>4, <1>5, <1>6 DEF Next, ClientStep, Around

\* release and consume give back every unit they should, whatever overlaps,
\* however often a call dies and a document reserves, and whenever the month turns,
\* for any number of documents, callers and periods: reserved_count holds nothing
\* beyond the open reservations but those made twice for a document and those whose
\* release finds the key of an earlier one in the ledger.
THEOREM UnitsReturned == Spec => []ReservationsReturned
<1>. DEFINE Inv == Present /\ ReservationsReturned
<1>1. Init => Inv
  <2>. SUFFICES ASSUME Init PROVE Inv
    OBVIOUS
  <2>1. \A m \in Months : counter[m].reserved = 0 /\ stranded[m] = 0
    BY DEF Init, QuotaInit, NoCounter
  <2>2. \A m \in Months : Cardinality(OpenIn(m)) \in Nat
    <3>1. held = {}
      BY DEF Init, QuotaInit
    <3>2. \A m \in Months : OpenIn(m) = {}
      BY <3>1 DEF OpenIn
    <3> QED BY <3>2, FS_EmptySet
  <2> QED BY <2>1, <2>2, CountingInit DEF ReservationsReturned
<1>2. TypeOK /\ TypeOK' /\ Inv /\ [Next]_vars => Inv'
  BY PresentStep, ReturnedStep DEF Present
<1>3. Inv => ReservationsReturned
  OBVIOUS
<1> QED BY <1>1, <1>2, <1>3, Typing, PTL DEF Spec

-----------------------------------------------------------------------------
(* No credit is made up *)

Units ==
  {u \in Packages \X (1 .. PackageSize) : Valid(u[1]) /\ u[2] <= packages[u[1]].remaining}

LEMMA UnitsFinite ==
  /\ IsFiniteSet(Units) /\ Remaining = Cardinality(Units) /\ Remaining \in Nat
  /\ IsFiniteSet(Units') /\ Remaining' = Cardinality(Units') /\ Remaining' \in Nat
<1>1. IsFiniteSet(1 .. PackageSize)
  BY QuotaAssumption, FS_Interval DEF QuotaAssumption
<1>2. IsFiniteSet(Packages \X (1 .. PackageSize))
  BY <1>1, QuotaAssumption, FS_Product DEF QuotaAssumption
<1>3. IsFiniteSet(Units) /\ IsFiniteSet(Units')
  BY <1>2, FS_Subset DEF Units
<1>4. Remaining = Cardinality(Units) /\ Remaining' = Cardinality(Units')
  BY DEF Remaining, Units
<1> QED BY <1>3, <1>4, FS_CardinalityType

\* one emission less in one package
LEMMA OneLess ==
  ASSUME TypeOK, NEW k \in Packages, Valid(k), packages[k].remaining > 0,
         packages' = [packages EXCEPT ![k].remaining = IF @ > 0 THEN @ - 1 ELSE @]
  PROVE  Remaining' = Remaining - 1
<1>. DEFINE r == packages[k].remaining
<1>1. /\ packages \in [Packages -> Package] /\ r \in 1 .. PackageSize
      /\ PackageSize \in Nat /\ packages[k] \in Package
  BY QuotaAssumption DEF QuotaAssumption, TypeOK, QuotaTypeOK, Package
<1>2. packages' = [packages EXCEPT ![k] = [packages[k] EXCEPT !.remaining = r - 1]]
  BY <1>1
<1>3. /\ packages'[k].remaining = r - 1 /\ packages'[k].status = packages[k].status
      /\ packages'[k].expired = packages[k].expired
      /\ \A j \in Packages \ {k} : packages'[j] = packages[j]
  BY <1>1, <1>2 DEF Package
<1>4. /\ Valid(k)' /\ \A j \in Packages \ {k} : Valid(j)' <=> Valid(j)
  BY <1>3 DEF Valid
<1>5. \A u \in Packages \X (1 .. PackageSize) :
        (Valid(u[1])' /\ u[2] <= packages'[u[1]].remaining)
        <=> (Valid(u[1]) /\ u[2] <= packages[u[1]].remaining) /\ u # <<k, r>>
  <2>. SUFFICES ASSUME NEW j \in Packages, NEW i \in 1 .. PackageSize
                PROVE  (Valid(j)' /\ i <= packages'[j].remaining)
                       <=> (Valid(j) /\ i <= packages[j].remaining) /\ ~(j = k /\ i = r)
    OBVIOUS
  <2>1. CASE j = k
    BY <1>1, <1>3, <1>4, <2>1
  <2>2. CASE j # k
    BY <1>3, <1>4, <2>2
  <2> QED BY <2>1, <2>2
<1>6. Units' = Units \ {<<k, r>>} /\ <<k, r>> \in Units
  BY <1>1, <1>5 DEF Units
<1>7. Cardinality(Units') = Cardinality(Units) - 1
  BY <1>6, UnitsFinite, FS_RemoveElement
<1> QED BY <1>7, UnitsFinite DEF Remaining, Units

\* a package more
LEMMA PackageMore ==
  ASSUME TypeOK, NEW k \in Packages, packages[k].status = "none",
         packages' = [packages EXCEPT ![k] =
                        [status |-> "paid", remaining |-> PackageSize, expired |-> FALSE]]
  PROVE  Remaining' = Remaining + PackageSize
<1>. DEFINE new == {k} \X (1 .. PackageSize)
<1>1. packages \in [Packages -> Package] /\ PackageSize \in Nat
  BY QuotaAssumption DEF QuotaAssumption, TypeOK, QuotaTypeOK
<1>2. packages'[k] = [status |-> "paid", remaining |-> PackageSize, expired |-> FALSE]
  BY <1>1
<1>3. /\ packages'[k].status = "paid" /\ packages'[k].remaining = PackageSize
      /\ ~packages'[k].expired
      /\ \A j \in Packages \ {k} : packages'[j] = packages[j]
  BY <1>1, <1>2
<1>4. /\ Valid(k)' /\ ~Valid(k) /\ \A j \in Packages \ {k} : Valid(j)' <=> Valid(j)
  BY <1>3 DEF Valid
<1>5. \A u \in Packages \X (1 .. PackageSize) :
        (Valid(u[1])' /\ u[2] <= packages'[u[1]].remaining)
        <=> (Valid(u[1]) /\ u[2] <= packages[u[1]].remaining) \/ u \in new
  <2>. SUFFICES ASSUME NEW j \in Packages, NEW i \in 1 .. PackageSize
                PROVE  (Valid(j)' /\ i <= packages'[j].remaining)
                       <=> (Valid(j) /\ i <= packages[j].remaining) \/ j = k
    OBVIOUS
  <2>1. CASE j = k
    BY <1>1, <1>3, <1>4, <2>1
  <2>2. CASE j # k
    BY <1>3, <1>4, <2>2
  <2> QED BY <2>1, <2>2
<1>6. Units' = Units \cup new /\ Units \cap new = {}
  BY <1>4, <1>5 DEF Units
<1>7. IsFiniteSet(new) /\ Cardinality(new) = PackageSize
  <2>1. IsFiniteSet(1 .. PackageSize) /\ Cardinality(1 .. PackageSize) = PackageSize
    BY QuotaAssumption, FS_Interval DEF QuotaAssumption
  <2>2. IsFiniteSet({k}) /\ Cardinality({k}) = 1
    BY FS_Singleton
  <2>3. IsFiniteSet(new) /\ Cardinality(new) = 1 * PackageSize
    BY <2>1, <2>2, FS_Product
  <2> QED BY <1>1, <2>3
<1>8. Cardinality(Units \cap new) = 0
  BY <1>6, FS_EmptySet
<1>. HIDE DEF new
<1>9. Cardinality(Units') = Cardinality(Units) + Cardinality(new) - Cardinality(Units \cap new)
  BY <1>6, <1>7, UnitsFinite, FS_Union
<1>10. Remaining' = Cardinality(Units')
  BY DEF Remaining, Units
<1> QED BY <1>1, <1>7, <1>8, <1>9, <1>10, UnitsFinite

\* a consume takes at most one emission, whatever became of the package meanwhile
LEMMA AtMostOneLess ==
  ASSUME TypeOK, NEW k \in Packages,
         packages' = [packages EXCEPT ![k].remaining = IF @ > 0 THEN @ - 1 ELSE @]
  PROVE  Remaining' >= Remaining - 1
<1>. DEFINE r == packages[k].remaining
<1>1. /\ packages \in [Packages -> Package] /\ r \in Nat /\ packages[k] \in Package
  BY QuotaAssumption DEF QuotaAssumption, TypeOK, QuotaTypeOK, Package
<1>2. CASE Valid(k) /\ r > 0
  <2>1. Remaining' = Remaining - 1
    BY <1>2, OneLess
  <2> QED BY <2>1, UnitsFinite
<1>3. CASE ~(Valid(k) /\ r > 0)
  <2>1. packages' = [packages EXCEPT ![k] = [packages[k] EXCEPT !.remaining = IF r > 0 THEN r - 1 ELSE r]]
    BY <1>1
  <2>2. /\ packages'[k].status = packages[k].status /\ packages'[k].expired = packages[k].expired
        /\ packages'[k].remaining = IF r > 0 THEN r - 1 ELSE r
        /\ \A j \in Packages \ {k} : packages'[j] = packages[j]
    BY <1>1, <2>1 DEF Package
  <2>3. \A j \in Packages : Valid(j)' <=> Valid(j)
    BY <2>2 DEF Valid
  <2>4. \A j \in Packages, i \in 1 .. PackageSize :
          (Valid(j)' /\ i <= packages'[j].remaining) <=> (Valid(j) /\ i <= packages[j].remaining)
    <3>. SUFFICES ASSUME NEW j \in Packages, NEW i \in 1 .. PackageSize
                  PROVE  (Valid(j)' /\ i <= packages'[j].remaining) <=> (Valid(j) /\ i <= packages[j].remaining)
      OBVIOUS
    <3>1. CASE j = k
      BY <1>1, <1>3, <2>2, <2>3, <3>1
    <3>2. CASE j # k
      BY <2>2, <2>3, <3>2
    <3> QED BY <3>1, <3>2
  <2>5. Units' = Units
    BY <2>4 DEF Units
  <2>6. Remaining' = Remaining
    BY <2>5, UnitsFinite
  <2> QED BY <2>6, UnitsFinite
<1> QED BY <1>2, <1>3

\* a package that expires takes with it what was left in it
LEMMA ExpiredLess ==
  ASSUME TypeOK, NEW k \in Packages, packages' = [packages EXCEPT ![k].expired = TRUE]
  PROVE  Remaining' >= Remaining - packages[k].remaining
<1>. DEFINE r == packages[k].remaining
            gone == {k} \X (1 .. r)
<1>1. packages \in [Packages -> Package] /\ r \in Nat
  BY QuotaAssumption DEF QuotaAssumption, TypeOK, QuotaTypeOK, Package
<1>2. \A j \in Packages \ {k} : packages'[j] = packages[j]
  BY <1>1
<1>3. Units \subseteq Units' \cup gone
  <2>. SUFFICES ASSUME NEW j \in Packages, NEW i \in 1 .. PackageSize,
                       Valid(j), i <= packages[j].remaining
                PROVE  <<j, i>> \in Units' \cup gone
    BY DEF Units
  <2>1. CASE j = k
    BY <1>1, <2>1
  <2>2. CASE j # k
    BY <1>2, <2>2 DEF Units, Valid
  <2> QED BY <2>1, <2>2
<1>4. IsFiniteSet(gone) /\ Cardinality(gone) = r
  <2>1. IsFiniteSet(1 .. r) /\ Cardinality(1 .. r) = r
    BY <1>1, FS_Interval
  <2>2. IsFiniteSet({k}) /\ Cardinality({k}) = 1
    BY FS_Singleton
  <2>3. IsFiniteSet(gone) /\ Cardinality(gone) = 1 * r
    BY <2>1, <2>2, FS_Product
  <2> QED BY <1>1, <2>3
<1>. HIDE DEF gone
<1>6. IsFiniteSet(Units' \cup gone) /\ Cardinality(Units' \cup gone) =
        Cardinality(Units') + Cardinality(gone) - Cardinality(Units' \cap gone)
  BY <1>4, UnitsFinite, FS_Union
<1>7. Cardinality(Units' \cap gone) \in Nat
  BY UnitsFinite, FS_Subset, FS_CardinalityType
<1>8. Cardinality(Units) <= Cardinality(Units' \cup gone)
  BY <1>3, <1>6, FS_Subset
<1> QED BY <1>1, <1>4, <1>6, <1>7, <1>8, UnitsFinite

\* what a step of p does to packages and credit
LEMMA StepCredit ==
  ASSUME TypeOK, TypeOK', Rows, NEW p \in Callers, QuotaStep(p)
  PROVE  LET m == call[p].period
         IN  /\ counter'[m].addon = IF counter[m].exists /\ call[p].pc = "co_addon"
                                    THEN counter[m].addon - 1 ELSE counter[m].addon
             /\ call[p].pc # "co_decrement" => packages' = packages
             /\ call[p].pc = "co_decrement" =>
                  packages' = [packages EXCEPT ![call[p].pkg].remaining = IF @ > 0 THEN @ - 1 ELSE @]
             /\ call[p].pc = "co_package" =>
                  \/ call'[p].pc = "co_decrement" /\ call'[p].pkg \in Eligible
                  \/ /\ Eligible = {}
                     /\ call'[p].pc = IF counter[m].addon > 0 THEN "co_addon" ELSE "co_ledger"
<1>. DEFINE m == call[p].period
            c == counter[m]
<1>1. m \in Months /\ c \in Counter /\ call[p] \in Call /\ p \in DOMAIN call
  BY StepShape DEF Call, TypeOK, QuotaTypeOK
<1>2. ~c.exists => c = NoCounter
  BY <1>1 DEF Rows
<1>3. CASE ReserveRead(p)
  <2>1. counter'[m] = IF c.exists THEN c ELSE NewCounter
    BY <1>1, <1>3 DEF ReserveRead, SetCounter, TypeOK, QuotaTypeOK
  <2>2. counter'[m].addon = c.addon
    BY <1>2, <2>1 DEF NewCounter, NoCounter
  <2>3. call[p].pc = "res_read" /\ packages' = packages
    BY <1>3 DEF ReserveRead
  <2> QED BY <2>2, <2>3
<1>4. CASE ReserveLock(p)
  <2>1. counter'[m] = [c EXCEPT !.reserved = @ + 1] \/ counter' = counter
    BY <1>1, <1>4 DEF ReserveLock, SetCounter, TypeOK, QuotaTypeOK
  <2>2. [c EXCEPT !.reserved = @ + 1].addon = c.addon
    BY <1>1 DEF Counter
  <2>3. call[p].pc = "res_lock" /\ packages' = packages
    BY <1>4 DEF ReserveLock
  <2> QED BY <2>1, <2>2, <2>3
<1>5. CASE ConsumeReserved(p) \/ ReleaseReserved(p) \/ ConsumeUsed(p)
  <2>1. \E r \in {AddReserved(c, -1), AddUsed(c, 1)} : counter'[m] = r
    BY <1>1, <1>5 DEF ConsumeReserved, ReleaseReserved, ConsumeUsed, SetCounter, TypeOK, QuotaTypeOK
  <2>2. AddReserved(c, -1).addon = c.addon /\ AddUsed(c, 1).addon = c.addon
    BY <1>1 DEF AddReserved, AddUsed, Counter
  <2>3. call[p].pc \in {"co_reserved", "rel_reserved", "co_used"} /\ packages' = packages
    BY <1>5 DEF ConsumeReserved, ReleaseReserved, ConsumeUsed
  <2> QED BY <2>1, <2>2, <2>3
<1>6. CASE ConsumeAddon(p)
  <2>1. counter'[m] = AddAddon(c, -1)
    BY <1>1, <1>6 DEF ConsumeAddon, SetCounter, TypeOK, QuotaTypeOK
  <2>2. AddAddon(c, -1).addon = IF c.exists THEN c.addon - 1 ELSE c.addon
    BY <1>1 DEF AddAddon, Counter
  <2>3. call[p].pc = "co_addon" /\ packages' = packages
    BY <1>6 DEF ConsumeAddon
  <2> QED BY <2>1, <2>2, <2>3
<1>7. CASE ConsumePackage(p)
  <2>1. counter' = counter /\ packages' = packages /\ call[p].pc = "co_package"
    BY <1>7 DEF ConsumePackage
  <2>2. \/ \E k \in Eligible : call' = [call EXCEPT ![p].pc = "co_decrement", ![p].pkg = k]
        \/ /\ Eligible = {}
           /\ call' = [call EXCEPT ![p].pc = IF c.addon > 0 THEN "co_addon" ELSE "co_ledger"]
    BY <1>7 DEF ConsumePackage, Goto
  <2>3. ASSUME NEW k \in Eligible, call' = [call EXCEPT ![p].pc = "co_decrement", ![p].pkg = k]
        PROVE  call'[p].pc = "co_decrement" /\ call'[p].pkg = k
    <3>1. call' = [call EXCEPT ![p] = [call[p] EXCEPT !.pc = "co_decrement", !.pkg = k]]
      BY <2>3
    <3> QED BY <1>1, <3>1 DEF Call
  <2>4. ASSUME Eligible = {}, call' = [call EXCEPT ![p].pc = IF c.addon > 0 THEN "co_addon" ELSE "co_ledger"]
        PROVE  call'[p].pc = IF c.addon > 0 THEN "co_addon" ELSE "co_ledger"
    <3>1. call' = [call EXCEPT ![p] = [call[p] EXCEPT !.pc = IF c.addon > 0 THEN "co_addon" ELSE "co_ledger"]]
      BY <2>4
    <3> QED BY <1>1, <3>1 DEF Call
  <2> QED BY <2>1, <2>2, <2>3, <2>4
<1>8. CASE ConsumeDecrement(p)
  BY <1>8 DEF ConsumeDecrement
<1>9. CASE ConsumeCheck(p) \/ ConsumeLedger(p) \/ ReleaseCheck(p) \/ ReleaseLedger(p)
  <2>1. /\ counter' = counter /\ packages' = packages
        /\ call[p].pc \in {"co_check", "co_ledger", "rel_check", "rel_ledger"}
    BY <1>9 DEF ConsumeCheck, ConsumeLedger, ReleaseCheck, ReleaseLedger
  <2> QED BY <2>1
<1> QED BY <1>3, <1>4, <1>5, <1>6, <1>7, <1>8, <1>9 DEF QuotaStep

\* The counter shows no more than the packages hold, what is in transit and what
\* went adrift since the reset read its sum; the sum it is about to write neither.
Backing ==
  /\ CreditsBacked
  /\ reset.pc = "carried" => reset.carry <= Remaining + adrift
  /\ \A p \in Callers : call[p].pc = "co_decrement" => call[p].pkg \in Packages

\* the consumes between their two debits are finitely many
LEMMA TransitFinite ==
  /\ IsFiniteSet(InTransit) /\ Cardinality(InTransit) \in Nat
  /\ InTransit \subseteq InTransit' => Cardinality(InTransit) <= Cardinality(InTransit')
  /\ Cardinality(InTransit') \in Nat
<1>1. IsFiniteSet(InTransit) /\ IsFiniteSet(InTransit')
  BY QuotaAssumption, FS_Subset DEF QuotaAssumption, InTransit
<1> QED BY <1>1, FS_Subset, FS_CardinalityType

\* a step of the service: a package and the counter are debited one after the other
LEMMA ServeBacking ==
  ASSUME TypeOK, TypeOK', Present, Backing, NEW p \in Callers, Serve(p)
  PROVE  Backing'
<1>. DEFINE m == call[p].period
            shown == counter[month].addon
            astray == m # month \/ reset.pc # "idle"
<1>0. packages' = packages => Remaining' = Remaining
  BY DEF Remaining, Valid
<1>1. /\ QuotaStep(p) /\ Rows /\ m \in Months /\ UNCHANGED <<month, reset>>
      /\ call[p] \in Call /\ p \in DOMAIN call /\ call'[p].period = m
      /\ \A q \in Callers \ {p} : call'[q] = call[q]
  BY StepShape DEF Serve, Present, Call, TypeOK, QuotaTypeOK
<1>2. /\ Remaining \in Nat /\ Remaining' \in Nat /\ adrift \in Nat
      /\ month \in Months /\ shown \in Int /\ shown' \in Int /\ reset.carry \in Nat
  <2>1. counter[month] \in Counter /\ counter'[month'] \in Counter
    BY DEF TypeOK, QuotaTypeOK
  <2> QED BY <2>1, UnitsFinite DEF TypeOK, QuotaTypeOK, Counter, Reset
<1>3. /\ \A n \in Months \ {m} : counter'[n] = counter[n]
      /\ counter'[m].addon = IF counter[m].exists /\ call[p].pc = "co_addon"
                             THEN counter[m].addon - 1 ELSE counter[m].addon
  BY <1>1, StepCounter, StepCredit
<1>4. \A q \in Callers \ {p} : q \in InTransit <=> q \in InTransit'
  BY <1>1 DEF InTransit
<1>5. adrift' = IF call[p].pc = "co_decrement" /\ astray THEN adrift + 1 ELSE adrift
  BY DEF Serve
<1>6. \A q \in Callers : call'[q].pc = "co_decrement" => call'[q].pkg \in Packages
  <2>1. call'[p].pc = "co_decrement" => call[p].pc = "co_package"
    BY <1>1, StepPlace DEF ReserveSteps, ConsumeSteps, ReleaseSteps
  <2>2. call'[p].pc = "co_decrement" => call'[p].pkg \in Packages
    BY <1>1, <2>1, StepCredit DEF Eligible
  <2> QED BY <1>1, <2>2 DEF Backing
<1>7. CASE call[p].pc = "co_decrement"
  <2>1. /\ call[p].pkg \in Packages
        /\ packages' = [packages EXCEPT ![call[p].pkg].remaining = IF @ > 0 THEN @ - 1 ELSE @]
    BY <1>1, <1>7, StepCredit DEF Backing
  <2>2. Remaining' >= Remaining - 1
    BY <2>1, AtMostOneLess
  <2>3. shown' = shown
    BY <1>1, <1>2, <1>3, <1>7
  <2>4. p \notin InTransit
    BY <1>7 DEF InTransit
  <2>5. CASE astray
    <3>1. InTransit \subseteq InTransit'
      BY <1>4, <2>4 DEF InTransit
    <3>2. Cardinality(InTransit) <= Cardinality(InTransit')
      BY <3>1, TransitFinite
    <3>3. adrift' = adrift + 1
      BY <1>5, <1>7, <2>5
    <3> QED BY <1>1, <1>2, <1>6, <2>2, <2>3, <3>2, <3>3, TransitFinite DEF Backing, CreditsBacked
  <2>6. CASE ~astray
    <3>1. call'[p].pc = "co_addon" /\ call'[p].pkg = call[p].pkg
      BY <1>1, <1>7 DEF QuotaStep, ReserveRead, ReserveLock, ConsumeCheck, ConsumeUsed, ConsumeReserved,
         ConsumePackage, ConsumeDecrement, ConsumeAddon, ConsumeLedger, ReleaseCheck, ReleaseReserved,
         ReleaseLedger, Goto, Call
    <3>2. call[p].pkg # 0
      BY <2>1, QuotaAssumption DEF QuotaAssumption
    <3>3. InTransit' = InTransit \cup {p}
      BY <1>1, <1>4, <2>6, <3>1, <3>2 DEF InTransit
    <3>4. Cardinality(InTransit') = Cardinality(InTransit) + 1
      BY <2>4, <3>3, TransitFinite, FS_AddElement
    <3> QED BY <1>1, <1>2, <1>5, <1>6, <1>7, <2>2, <2>3, <2>6, <3>4, TransitFinite DEF Backing, CreditsBacked
  <2> QED BY <2>5, <2>6
<1>8. CASE call[p].pc = "co_addon"
  <2>1. Remaining' = Remaining /\ adrift' = adrift /\ counter[m].exists
    BY <1>0, <1>1, <1>5, <1>8, StepCredit DEF Present, ConsumeSteps
  <2>2. call'[p].pc # "co_addon"
    BY <1>1, <1>8, StepPlace
  <2>3. CASE p \in InTransit
    <3>1. InTransit' = InTransit \ {p}
      BY <1>4, <2>2 DEF InTransit
    <3>2. Cardinality(InTransit') = Cardinality(InTransit) - 1
      BY <2>3, <3>1, TransitFinite, FS_RemoveElement
    <3>3. shown' = shown - 1
      BY <1>1, <1>3, <1>8, <2>1, <2>3 DEF InTransit
    <3> QED BY <1>1, <1>2, <1>6, <2>1, <3>2, <3>3, TransitFinite DEF Backing, CreditsBacked
  <2>4. CASE p \notin InTransit
    <3>1. InTransit \subseteq InTransit'
      BY <1>4, <2>4 DEF InTransit
    <3>2. Cardinality(InTransit) <= Cardinality(InTransit')
      BY <3>1, TransitFinite
    <3>3. shown' <= shown
      BY <1>1, <1>2, <1>3
    <3> QED BY <1>1, <1>2, <1>6, <2>1, <3>2, <3>3, TransitFinite DEF Backing, CreditsBacked
  <2> QED BY <2>3, <2>4
<1>9. CASE call[p].pc \notin {"co_decrement", "co_addon"}
  <2>1. Remaining' = Remaining /\ adrift' = adrift /\ shown' = shown
    BY <1>0, <1>1, <1>2, <1>3, <1>5, <1>9, StepCredit
  <2>2. InTransit \subseteq InTransit'
    BY <1>4, <1>9 DEF InTransit
  <2>3. Cardinality(InTransit) <= Cardinality(InTransit')
    BY <2>2, TransitFinite
  <2> QED BY <1>1, <1>2, <1>6, <2>1, <2>3, TransitFinite DEF Backing, CreditsBacked
<1> QED BY <1>7, <1>8, <1>9

\* a client starts and ends calls; only one that dies leaves a unit behind
LEMMA ClientBacking ==
  ASSUME TypeOK, TypeOK', Backing, NEW p \in Callers, ClientStep(p)
  PROVE  Backing'
<1>1. /\ UNCHANGED <<month, counter, packages, reset>>
      /\ \A q \in Callers \ {p} : call'[q] = call[q]
      /\ call'[p].pc \in {"idle", "res_read", "co_check", "rel_check"}
  BY ClientShape DEF ClientStep
<1>2. Remaining' = Remaining /\ Remaining \in Nat /\ adrift \in Nat /\ reset.carry \in Nat
      /\ counter[month].addon \in Int
  BY <1>1, UnitsFinite DEF Remaining, Valid, TypeOK, QuotaTypeOK, Counter, Reset
<1>3. \A q \in Callers : call'[q].pc = "co_decrement" => call'[q].pkg \in Packages
  BY <1>1 DEF Backing
<1>4. CASE p \in InTransit
  <2>1. adrift' = adrift + 1
    <3>1. call[p].pc = "co_addon"
      BY <1>4 DEF InTransit
    <3> QED BY <1>4, <3>1 DEF ClientStep, Granted, Finished, Crash, AskReserve, AskConsume, AskRelease,
               Idle, NoCall
  <2>2. InTransit' = InTransit \ {p}
    BY <1>1 DEF InTransit
  <2>3. Cardinality(InTransit') = Cardinality(InTransit) - 1
    BY <1>4, <2>2, TransitFinite, FS_RemoveElement
  <2> QED BY <1>1, <1>2, <1>3, <2>1, <2>3, TransitFinite DEF Backing, CreditsBacked
<1>5. CASE p \notin InTransit
  <2>1. adrift' = adrift
    BY <1>5 DEF ClientStep, Granted, Finished, Crash, AskReserve, AskConsume, AskRelease
  <2>2. InTransit \subseteq InTransit'
    BY <1>1, <1>5 DEF InTransit
  <2>3. Cardinality(InTransit) <= Cardinality(InTransit')
    BY <2>2, TransitFinite
  <2> QED BY <1>1, <1>2, <1>3, <2>1, <2>3, TransitFinite DEF Backing, CreditsBacked
<1> QED BY <1>4, <1>5

\* payments raise both sides, an expiry is adrift, the reset starts afresh
LEMMA AroundBacking ==
  ASSUME TypeOK, TypeOK', Present, Backing, Around
  PROVE  Backing'
<1>0. packages' = packages => Remaining' = Remaining
  BY DEF Remaining, Valid
<1>1. /\ call' = call /\ Remaining \in Nat /\ adrift \in Nat /\ reset.carry \in Nat
      /\ month \in Months /\ counter[month].addon \in Int /\ Rows
      /\ PackageSize \in Nat
  BY AroundShape, UnitsFinite, QuotaAssumption
  DEF Around, Present, TypeOK, QuotaTypeOK, Counter, Reset, QuotaAssumption
<1>2. \A q \in Callers : call'[q].pc = "co_decrement" => call'[q].pkg \in Packages
  BY <1>1 DEF Backing
<1>3. month' = month => InTransit' = InTransit
  BY <1>1 DEF InTransit
<1>4. ASSUME NEW k \in Packages, Pay(k)
      PROVE  Backing'
  <2>1. /\ packages[k].status = "none" /\ UNCHANGED <<month, reset, adrift>>
        /\ packages' = [packages EXCEPT ![k] =
                          [status |-> "paid", remaining |-> PackageSize, expired |-> FALSE]]
    BY <1>4 DEF Pay, Activate
  <2>2. Remaining' = Remaining + PackageSize
    BY <2>1, PackageMore
  <2>3. counter'[month].addon = counter[month].addon + PackageSize
    <3>1. PICK included \in {0, Plan} :
            counter' = [counter EXCEPT ![month] =
              AddAddon(IF counter[month].exists THEN counter[month]
                       ELSE [NewCounter EXCEPT !.included = included], PackageSize)]
      BY <1>4 DEF Pay, Activate, SetCounter
    <3>. DEFINE r == IF counter[month].exists THEN counter[month]
                     ELSE [NewCounter EXCEPT !.included = included]
    <3>2. r.exists /\ r.addon = counter[month].addon
      BY <1>1 DEF Rows, NewCounter, NoCounter
    <3>3. AddAddon(r, PackageSize).addon = r.addon + PackageSize
      BY <3>2 DEF AddAddon, NewCounter, NoCounter, TypeOK, QuotaTypeOK, Counter
    <3>4. counter'[month] = AddAddon(r, PackageSize)
      BY <1>1, <3>1 DEF TypeOK, QuotaTypeOK
    <3> HIDE DEF r
    <3> QED BY <3>2, <3>3, <3>4
  <2> QED BY <1>1, <1>2, <1>3, <2>1, <2>2, <2>3, TransitFinite DEF Backing, CreditsBacked
<1>5. ASSUME NEW k \in Packages, Lapse(k)
      PROVE  Backing'
  <2>1. /\ UNCHANGED <<month, counter, reset>> /\ adrift' = adrift + packages[k].remaining
        /\ packages' = [packages EXCEPT ![k].expired = TRUE]
    BY <1>5 DEF Lapse, Expire
  <2>2. packages[k].remaining \in Nat
    BY QuotaAssumption DEF QuotaAssumption, TypeOK, QuotaTypeOK, Package
  <2>3. Remaining' >= Remaining - packages[k].remaining /\ Remaining' \in Nat
    BY <2>1, ExpiredLess, UnitsFinite
  <2> QED BY <1>1, <1>2, <1>3, <2>1, <2>2, <2>3, TransitFinite DEF Backing, CreditsBacked
<1>6. CASE NextMonth
  <2>1. reset'.pc = "due"
    BY <1>6 DEF NextMonth, TurnMonth, TypeOK, QuotaTypeOK, Reset
  <2> QED BY <1>2, <2>1 DEF Backing, CreditsBacked
<1>7. CASE ResetQuota /\ ResetRead
  <2>1. reset'.pc = "carried" /\ reset'.carry = Remaining /\ packages' = packages /\ adrift' \in Nat
    BY <1>7 DEF ResetRead, TypeOK
  <2>2. Remaining' = Remaining
    BY <1>0, <2>1
  <2>3. Remaining \in Nat /\ adrift' \in Nat
    BY <1>1, <2>1
  <2>4. Remaining <= Remaining + adrift'
    <3>1. \A a, b \in Nat : a <= a + b
      OBVIOUS
    <3> QED BY <2>3, <3>1
  <2> QED BY <1>2, <2>1, <2>2, <2>4 DEF Backing, CreditsBacked
<1>8. CASE ResetQuota /\ ResetWrite
  <2>1. /\ reset.pc = "carried" /\ reset'.pc = "idle" /\ UNCHANGED <<month, packages, adrift>>
        /\ counter'[month] = [NewCounter EXCEPT !.addon = reset.carry]
    BY <1>1, <1>8 DEF ResetQuota, ResetRead, ResetWrite, SetCounter, TypeOK, QuotaTypeOK, Reset
  <2>2. counter'[month].addon = reset.carry
    BY <2>1 DEF NewCounter, NoCounter
  <2> QED BY <1>0, <1>1, <1>2, <1>3, <2>1, <2>2, TransitFinite DEF Backing, CreditsBacked
<1> QED BY <1>4, <1>5, <1>6, <1>7, <1>8 DEF Around, ResetQuota

\* No credit is made up, for any number of callers, documents, periods and
\* packages, whatever overlaps, dies, expires or comes before the reset: what
\* consume takes from a package it takes from the counter, the reset carries over
\* no more than it read, and what the counter shows beyond the packages is in
\* transit, or left one of them unseen by the counter.
THEOREM CreditShown == Spec => []CreditsBacked
<1>. DEFINE Inv == Present /\ Backing
<1>1. Init => Inv
  <2>. SUFFICES ASSUME Init PROVE Inv
    OBVIOUS
  <2>1. /\ \A p \in Callers : call[p].pc = "idle"
        /\ counter[month].addon = 0 /\ reset.pc = "idle" /\ adrift = 0
    BY QuotaAssumption DEF QuotaAssumption, Init, QuotaInit, NoCall, NoCounter
  <2>2. counter[month].addon <= Remaining + Cardinality(InTransit) + adrift
    BY <2>1, UnitsFinite, TransitFinite
  <2> QED BY <2>1, <2>2, CountingInit DEF Backing, CreditsBacked
<1>2. TypeOK /\ TypeOK' /\ Inv /\ [Next]_vars => Inv'
  <2>. SUFFICES ASSUME TypeOK, TypeOK', Inv, [Next]_vars PROVE Inv'
    OBVIOUS
  <2>1. Present'
    BY PresentStep
  <2>2. CASE UNCHANGED vars
    <3>1. Remaining' = Remaining /\ InTransit' = InTransit
      BY <2>2 DEF Remaining, Valid, InTransit, vars, quotaVars
    <3>2. UNCHANGED <<counter, month, reset, adrift, call>>
      BY <2>2 DEF vars, quotaVars
    <3> QED BY <2>1, <3>1, <3>2 DEF Backing, CreditsBacked
  <2>3. CASE Next
    BY <2>1, <2>3, ServeBacking, ClientBacking, AroundBacking DEF Next, ClientStep, Around
  <2> QED BY <2>2, <2>3
<1>3. Inv => CreditsBacked
  BY DEF Backing
<1> QED BY <1>1, <1>2, <1>3, Typing, PTL DEF Spec

=============================================================================
