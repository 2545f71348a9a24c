--------------------------- MODULE FiscalPartsProofs ---------------------------
(***************************************************************************)
(* What holds of four smaller parts of the fiscal side, which share no     *)
(* state: the abstract life cycle of notes, which FiscalEmission           *)
(* implements in the run that checks ImplementsNotes; the request made     *)
(* from approved rules; the settings of a market; and numbers declared     *)
(* void.  Each has its invariant, the step that keeps it and the theorems  *)
(* that follow.                                                            *)
(***************************************************************************)
EXTENDS NfceNotes, FiscalPayload, FiscalSetup, Inutilization, FiniteSetTheorems, TLAPS

-----------------------------------------------------------------------------
(* The life cycle of a note *)

\* phases and units stay in their sets
LEMMA NotesTyping == Spec => []TypeOK
<1>1. Init => TypeOK
  BY DEF Init, TypeOK
<1>2. TypeOK /\ [Next]_vars => TypeOK'
  BY DEF TypeOK, Next, vars, Request, Discard, Reserve, Authorize, Refuse, Cancel, Charge,
     Return, Move, Pass
<1> QED BY <1>1, <1>2, PTL DEF Spec

\* An authorized note has been paid for with a unit that is never given back,
\* and no unit is spent on anything else (Finalize, consume, release).
THEOREM NotesPaid == Spec => []Paid
<1>1. Init => Paid
  BY DEF Init, Paid
<1>2. TypeOK /\ Paid /\ [Next]_vars => Paid'
  BY DEF TypeOK, Paid, Next, vars, Request, Discard, Reserve, Authorize, Refuse, Cancel, Charge,
     Return, Move, Pass
<1> QED BY <1>1, <1>2, NotesTyping, PTL DEF Spec

\* The units reserved and spent never exceed the plan (check_and_reserve).
THEOREM NotesWithinPlan ==
  ASSUME IsFiniteSet(Docs), Plan \in Nat
  PROVE  Spec => []WithinPlan
<1>1. Init => WithinPlan
  <2>1. Init => Out = {}
    BY DEF Init, Out
  <2> QED BY <2>1, FS_EmptySet DEF WithinPlan
<1>2. TypeOK /\ WithinPlan /\ [Next]_vars => WithinPlan'
  <2>. SUFFICES ASSUME TypeOK, WithinPlan, [Next]_vars PROVE WithinPlan'
    OBVIOUS
  <2>1. IsFiniteSet(Out) /\ Cardinality(Out) \in Nat
    BY FS_Subset, FS_CardinalityType DEF Out
  <2>2. ASSUME NEW d \in Docs, Reserve(d)
        PROVE  WithinPlan'
    <3>1. Out' = Out \cup {d}
      BY <2>2 DEF Reserve, Pass, Out, TypeOK
    <3>2. Cardinality(Out \cup {d}) =
            IF d \in Out THEN Cardinality(Out) ELSE Cardinality(Out) + 1
      BY <2>1, FS_AddElement
    <3>3. Cardinality(Out) < Plan
      BY <2>2 DEF Reserve
    <3> QED BY <2>1, <3>1, <3>2, <3>3 DEF WithinPlan
  <2>3. ASSUME NEW d \in Docs,
               Request(d) \/ Discard(d) \/ Authorize(d) \/ Refuse(d) \/ Cancel(d) \/ Charge(d) \/ Return(d)
        PROVE  WithinPlan'
    <3>1. Out' \subseteq Out
      BY <2>3 DEF Request, Discard, Authorize, Refuse, Cancel, Charge, Return, Move, Pass, Out, TypeOK
    <3>2. Cardinality(Out') <= Cardinality(Out) /\ Cardinality(Out') \in Nat
      BY <2>1, <3>1, FS_Subset, FS_CardinalityType
    <3> QED BY <2>1, <3>2 DEF WithinPlan
  <2>4. CASE UNCHANGED vars
    BY <2>4 DEF vars, WithinPlan, Out
  <2> QED BY <2>2, <2>3, <2>4 DEF Next
<1> QED BY <1>1, <1>2, NotesTyping, PTL DEF Spec

-----------------------------------------------------------------------------
(* The request *)

\* the configuration; a sale with what is frozen on its lines
Configs == [mode : Enforcements, switch : BOOLEAN, environment : Environments]
Receipts == [mode : Enforcements, frozen : [Lines -> LineEvidence \cup {Absent}]]

\* types of the variables
PayloadTypes ==
  /\ reviewed \subseteq Lines /\ written \in [Lines -> Written \cup {Absent}]
  /\ config \in Configs /\ asking \in Configs \cup {Absent}
  /\ receipt \in Receipts \cup {Absent} /\ document \in Documents \cup {Absent}
  /\ sending \in Payloads \cup {Absent} /\ posted \subseteq Payloads

\* what is frozen on a line says what was approved for it
Approved(e, l) ==
  /\ l \in reviewed /\ e.group = written[l].group
  /\ Nearest(e.amount, written[l].amount, 1000) /\ Nearest(e.rate, written[l].rate, 10)
  /\ written[l].group \in Retained => Nearest(e.retained, written[l].retained, 1000)
Sold ==
  /\ \A l \in reviewed : written[l] \in Written \ {Absent} /\ Approvable(written[l])
  /\ receipt # Absent =>
       /\ \A l \in Lines : receipt.frozen[l] # Absent =>
            /\ Buildable(receipt.frozen[l]) /\ Approved(receipt.frozen[l], l)
            /\ Wire(receipt.frozen[l]) = receipt.frozen[l]
       /\ receipt.mode = "block" => \A l \in Lines : receipt.frozen[l] # Absent
  /\ asking # Absent \/ document # Absent => receipt # Absent

\* a request is persisted once, before anything is posted
Persisted ==
  /\ document = Absent => posted = {} /\ sending = Absent
  /\ document # Absent /\ document.payload # Absent =>
       /\ document.payload.version = "v2" /\ document.payload.environment = document.environment
       /\ \A l \in Lines : Approved(document.payload.lines[l], l)
       /\ posted \subseteq {document.payload} /\ sending \in {document.payload, Absent}
  /\ document # Absent /\ document.payload = Absent =>
       \A x \in posted \cup ({sending} \ {Absent}) : x.version = "legacy"

\* a note asked for in block mode of a sale in block mode has its request
Emitted ==
  receipt # Absent /\ document # Absent /\ receipt.mode = "block" /\ document.born = "block" =>
    document.payload # Absent /\ document.status \notin {"invalid", "manual_action"}

\* the invariant
PayloadInv == PayloadTypes /\ Sold /\ Persisted /\ Emitted

\* rounding half up to two and four places is at most half a place off, and
\* rounding again changes nothing
LEMMA QuantizedNearest ==
  /\ \A x \in Nat : Money(x) \in Int /\ Nearest(Money(x), x, 1000)
  /\ \A x \in Nat : Rate(x) \in Int /\ Nearest(Rate(x), x, 10)
BY DEF Money, Rate, Quantized, Nearest

LEMMA QuantizedOnce ==
  /\ \A x \in Nat : Money(Money(x)) = Money(x)
  /\ \A x \in Nat : Rate(Rate(x)) = Rate(x)
  /\ Money(0) = 0
BY DEF Money, Rate, Quantized

\* a snapshot says what was approved, comes out of the serializer unchanged,
\* and is built into a request if its rule was fit to be published
LEMMA SnapshotRight ==
  ASSUME NEW w \in Written
  PROVE  /\ Snapshot(w) \in LineEvidence /\ Wire(Snapshot(w)) = Snapshot(w)
         /\ Approvable(w) => Buildable(Snapshot(w))
         /\ Snapshot(w).group = w.group
         /\ Nearest(Snapshot(w).amount, w.amount, 1000) /\ Nearest(Snapshot(w).rate, w.rate, 10)
         /\ w.group \in Retained => Nearest(Snapshot(w).retained, w.retained, 1000)
<1> DEFINE e == Snapshot(w)
<1>1. /\ w.group \in Groups /\ w.retained \in Nat /\ w.amount \in Nat /\ w.rate \in Nat
      /\ w.catalog \in BOOLEAN /\ w.checksum \in BOOLEAN
  BY PayloadAssumption
<1>2. /\ Money(w.retained) \in Int /\ Money(w.amount) \in Int /\ Rate(w.rate) \in Int
      /\ Nearest(Money(w.retained), w.retained, 1000)
      /\ Nearest(Money(w.amount), w.amount, 1000) /\ Nearest(Rate(w.rate), w.rate, 10)
      /\ Money(Money(w.amount)) = Money(w.amount) /\ Rate(Rate(w.rate)) = Rate(w.rate)
      /\ Money(0) = 0
  BY <1>1, QuantizedNearest, QuantizedOnce
<1>3. e \in LineEvidence
  BY <1>1, <1>2 DEF Snapshot, LineEvidence
<1>4. /\ e.group = w.group /\ e.amount = Money(w.amount) /\ e.rate = Rate(w.rate)
      /\ w.group \in Retained => e.retained = Money(w.retained)
      /\ e.own_base = 0 /\ e.current_st = 0
  BY DEF Snapshot
<1>5. (e.catalog <=> w.catalog) /\ (e.checksum <=> w.checksum)
  BY DEF Snapshot
<1>6. Wire(e) = e
  BY <1>2, <1>3, <1>4 DEF Wire, LineEvidence
<1>7. Approvable(w) => Buildable(e)
  <2>1. ASSUME Approvable(w) PROVE e.group \in Homologated /\ (e.group \in Retained => e.catalog /\ e.checksum)
    BY <1>4, <1>5, <2>1 DEF Approvable, Calculable
  <2>2. e # Absent
    BY <1>3, PayloadAssumption
  <2> QED
    BY <1>4, <2>1, <2>2 DEF Buildable
<1> QED
  BY <1>2, <1>3, <1>4, <1>6, <1>7

LEMMA PayloadStep ==
  ASSUME PayloadInv, [PayloadNext]_payloadVars
  PROVE  PayloadInv'
<1> USE PayloadAssumption DEF PayloadInv
<1>1. ASSUME NEW l \in Lines, NEW w \in Written, WriteRule(l, w) PROVE PayloadInv'
  <2>1. \A k \in Lines : k \in reviewed => written'[k] = written[k]
    BY <1>1 DEF WriteRule, PayloadTypes, Sold
  <2> QED
    BY <1>1, <2>1 DEF WriteRule, PayloadTypes, Sold, Persisted, Emitted, Approved
<1>2. ASSUME NEW l \in Lines, ReviewRule(l) PROVE PayloadInv'
  BY <1>2 DEF ReviewRule, PayloadTypes, Sold, Persisted, Emitted, Approved
<1>3. CASE SellLines
  <2> DEFINE mode == Enforced(config)
             frozen == [l \in Lines |-> IF mode # "off" /\ l \in reviewed /\ Calculable(written[l])
                                        THEN Snapshot(written[l]) ELSE Absent]
  <2>1. /\ receipt' = [mode |-> mode, frozen |-> frozen]
        /\ mode = "block" => \A l \in Lines : frozen[l] # Absent
        /\ receipt = Absent
        /\ UNCHANGED <<written, reviewed, config, document, asking, sending, posted>>
    BY <1>3 DEF SellLines
  <2>2. ASSUME NEW l \in Lines
        PROVE  /\ frozen[l] \in LineEvidence \cup {Absent}
               /\ frozen[l] # Absent =>
                    Buildable(frozen[l]) /\ Approved(frozen[l], l) /\ Wire(frozen[l]) = frozen[l]
    BY SnapshotRight DEF Sold, PayloadTypes, Approved
  <2>3. mode \in Enforcements
    BY DEF Enforced, PayloadTypes, Configs, Enforcements
  <2> HIDE DEF mode, frozen
  <2>4. receipt' \in Receipts /\ receipt'.mode = mode /\ receipt'.frozen = frozen
    <3>1. frozen \in [Lines -> LineEvidence \cup {Absent}]
      BY <2>2 DEF frozen
    <3> QED
      BY <2>1, <2>3, <3>1 DEF Receipts
  <2>5. asking = Absent /\ document = Absent
    BY <2>1 DEF Sold
  <2>6. PayloadTypes'
    BY <2>1, <2>4 DEF PayloadTypes
  <2>7. Sold'
    BY <2>1, <2>2, <2>4, <2>5 DEF Sold, Approved
  <2> QED
    BY <2>1, <2>5, <2>6, <2>7 DEF Persisted, Emitted
<1>4. ASSUME NEW c \in Configs, Change(c) PROVE PayloadInv'
  BY <1>4 DEF Change, PayloadTypes, Sold, Persisted, Emitted, Approved
<1>5. ASSUME NEW m \in {"warn", "block"}, Enforce(m) PROVE PayloadInv'
  BY <1>4, <1>5 DEF Enforce, PayloadTypes, Configs, Enforcements
<1>6. ASSUME NEW on \in BOOLEAN, Deploy(on) PROVE PayloadInv'
  <2>1. [config EXCEPT !.switch = on] \in Configs
    BY DEF PayloadTypes, Configs
  <2> QED
    BY <1>4, <1>6, <2>1 DEF Deploy
<1>7. ASSUME NEW e \in Environments, Reconfigure(e) PROVE PayloadInv'
  BY <1>4, <1>7 DEF Reconfigure, PayloadTypes, Configs
<1>8. CASE AskRead
  BY <1>8 DEF AskRead, PayloadTypes, Sold, Persisted, Emitted, Approved
<1>9. CASE AskCreate
  <2>1. /\ asking \in Configs /\ document = Absent /\ receipt \in Receipts /\ asking' = Absent
        /\ UNCHANGED <<written, reviewed, config, receipt, sending, posted>>
        /\ sending = Absent /\ posted = {} /\ receipt # Absent
    BY <1>9 DEF AskCreate, Answered, PayloadTypes, Sold, Persisted
  <2>2. Enforced(asking) \in Enforcements /\ asking.environment \in Environments
    BY <2>1 DEF Enforced, Configs, Enforcements
  <2>3. ASSUME NEW status \in {"queued", "invalid"}, NEW payload \in Payloads \cup {Absent},
               document' = NewDocument(asking, status, payload)
        PROVE  /\ document' \in Documents /\ document' # Absent /\ document'.payload = payload
               /\ document'.status = status /\ document'.born = Enforced(asking)
               /\ document'.environment = asking.environment
    BY <2>2, <2>3 DEF NewDocument, Documents
  <2>4. ASSUME Enforced(asking) = "block", \A l \in Lines : Buildable(receipt.frozen[l]),
               document' = NewDocument(asking, "queued", Contract(asking))
        PROVE  PayloadInv'
    <3> DEFINE payload == Contract(asking)
    <3>1. ASSUME NEW l \in Lines
          PROVE  Wire(receipt.frozen[l]) \in LineEvidence /\ Approved(Wire(receipt.frozen[l]), l)
      <4>1. receipt.frozen[l] # Absent /\ receipt.frozen[l] \in LineEvidence /\ receipt # Absent
        BY <2>1, <2>4 DEF Buildable, Receipts, Sold
      <4>2. Wire(receipt.frozen[l]) = receipt.frozen[l] /\ Approved(receipt.frozen[l], l)
        BY <4>1 DEF Sold
      <4> QED
        BY <4>1, <4>2
    <3>2. /\ payload.lines = [l \in Lines |-> Wire(receipt.frozen[l])]
          /\ payload.version = "v2" /\ payload.environment = asking.environment
      BY DEF Contract
    <3>3. payload \in [version : {"v2"}, environment : Environments, lines : [Lines -> LineEvidence]]
      BY <2>2, <3>1 DEF Contract
    <3>4. payload \in Payloads /\ payload # Absent
      BY <3>3 DEF Payloads
    <3>5. \A l \in Lines : Approved(payload.lines[l], l)
      BY <3>1, <3>2
    <3> HIDE DEF payload
    <3>6. /\ document' \in Documents /\ document' # Absent /\ document'.payload = payload
          /\ document'.status = "queued" /\ document'.environment = asking.environment
      BY <2>3, <2>4, <3>4 DEF payload
    <3>7. PayloadTypes' /\ Sold'
      BY <2>1, <3>6 DEF PayloadTypes, Sold, Approved
    <3>8. Persisted' /\ Emitted'
      BY <2>1, <3>2, <3>4, <3>5, <3>6 DEF Persisted, Emitted, Approved
    <3> QED
      BY <3>7, <3>8
  <2>5. ASSUME NEW status \in {"queued", "invalid"}, document' = NewDocument(asking, status, Absent),
               Enforced(asking) = "block" => \E l \in Lines : ~Buildable(receipt.frozen[l])
        PROVE  PayloadInv'
    <3>1. /\ document' \in Documents /\ document' # Absent /\ document'.payload = Absent
          /\ document'.born = Enforced(asking)
      BY <2>3, <2>5
    <3>2. receipt # Absent
      BY <2>1 DEF Sold
    <3>3. ~(receipt.mode = "block" /\ Enforced(asking) = "block")
      BY <2>5, <3>2 DEF Sold
    <3> QED
      BY <2>1, <3>1, <3>3 DEF PayloadTypes, Sold, Persisted, Emitted, Approved
  <2> QED
    BY <1>9, <2>4, <2>5 DEF AskCreate
<1>10. CASE AskAgain
  BY <1>10 DEF AskAgain, Answered, PayloadTypes, Documents, Sold, Persisted, Emitted, Approved
<1>11. CASE JobTakes
  <2>1. /\ document \in Documents /\ document # Absent /\ sending = Absent /\ config \in Configs
        /\ UNCHANGED <<written, reviewed, config, receipt, asking, posted>>
    BY <1>11 DEF JobTakes, PayloadTypes
  <2>2. PICK status \in {"manual_action", "processing"} :
          /\ document' = [document EXCEPT !.status = status]
          /\ status = "manual_action" => document.payload = Absent
          /\ sending' \in {Absent, Selected(config)}
    BY <1>11, <2>1 DEF JobTakes
  <2>3. /\ document' \in Documents /\ document' # Absent /\ document'.status = status
        /\ document'.payload = document.payload /\ document'.born = document.born
        /\ document'.environment = document.environment
    BY <2>1, <2>2 DEF Documents
  <2>4. /\ Selected(config) \in Payloads
        /\ document.payload # Absent => Selected(config) = document.payload
        /\ document.payload = Absent => Selected(config).version = "legacy"
    BY <2>1 DEF Selected, OlderPayload, Payloads, Documents, Configs
  <2>5. PayloadTypes' /\ Sold'
    BY <2>1, <2>2, <2>3, <2>4 DEF PayloadTypes, Sold, Approved
  <2>6. Persisted' /\ Emitted'
    BY <2>1, <2>2, <2>3, <2>4 DEF Persisted, Emitted, Approved
  <2> QED
    BY <2>5, <2>6
<1>12. ASSUME NEW answer \in Answers, JobPosts(answer) PROVE PayloadInv'
  BY <1>12 DEF JobPosts, Answers, PayloadTypes, Payloads, Documents, Sold, Persisted, Emitted, Approved
<1>13. CASE UNCHANGED payloadVars
  BY <1>13 DEF payloadVars, PayloadTypes, Sold, Persisted, Emitted, Approved
<1> QED
  BY <1>1, <1>2, <1>3, <1>5, <1>6, <1>7, <1>8, <1>9, <1>10, <1>11, <1>12, <1>13 DEF PayloadNext

\* both properties follow
LEMMA PayloadEnough ==
  ASSUME PayloadInv
  PROVE  OneRequest /\ ReviewedIsEmitted
<1> USE DEF PayloadInv
<1>1. ReviewedIsEmitted
  BY DEF ReviewedIsEmitted, Emitted
<1>2. document # Absent /\ document.payload # Absent =>
        posted \subseteq {document.payload} /\ document.payload.environment = document.environment
  BY DEF Persisted
<1>3. ASSUME NEW x \in posted, x.version = "v2", NEW l \in Lines
      PROVE  Approved(x.lines[l], l)
  BY <1>3 DEF Persisted
<1> QED
  BY <1>1, <1>2, <1>3 DEF OneRequest, Approved

LEMMA PayloadBegins ==
  ASSUME PayloadInit
  PROVE  PayloadInv
BY PayloadAssumption
DEF PayloadInit, PayloadInv, PayloadTypes, Configs, Enforcements, Sold, Persisted, Emitted

\* A document whose request was persisted posts that request and no other, to
\* the environment the document names, and what it says of each line is what
\* was approved, rounded once: for any rules, lines, environments and changes.
THEOREM OneRequestPosted == PayloadSpec => []OneRequest
<1>1. PayloadInv /\ [PayloadNext]_payloadVars => PayloadInv'
  BY PayloadStep
<1> QED
  BY <1>1, PayloadBegins, PayloadEnough, PTL DEF PayloadSpec

\* A sale that block mode let through and whose note is asked for in block mode
\* is never refused by Marketfy itself, for any rules, lines and changes.
THEOREM ReviewEmits == PayloadSpec => []ReviewedIsEmitted
<1>1. PayloadInv /\ [PayloadNext]_payloadVars => PayloadInv'
  BY PayloadStep
<1> QED
  BY <1>1, PayloadBegins, PayloadEnough, PTL DEF PayloadSpec

-----------------------------------------------------------------------------
(* The settings of a market *)

\* what a request has in hand
UserHas ==
  {Idling} \cup [op : {"write"}, copy : Settings, torn : BOOLEAN]
    \cup [op : {"update"}, copy : Settings, torn : BOOLEAN, fresh : Settings \cup {Missing}]
    \cup [op : {"issuer", "cert", "sync"}] \cup [op : {"config"}, id : Markets \X Codes]

SetupTypes ==
  /\ settings \in Settings \cup {Missing} /\ hand \in [Users -> UserHas] /\ mixed \in BOOLEAN

\* whatever says validated, and no save has mixed, has what a validation passed
HasPassed(row) == row.status = "validated" => Vital(row) \in passed
AllPassed ==
  /\ settings # Missing /\ ~mixed => HasPassed(settings)
  /\ \A u \in Users : hand[u].op \in {"write", "update"} /\ ~hand[u].torn => HasPassed(hand[u].copy)

\* the same of what a validation tests, and of its outcome
SameRow(a, b) ==
  /\ a.environment = b.environment /\ a.certificate = b.certificate /\ a.csc = b.csc
  /\ a.status = b.status

\* a row a save has selected, or the onboarding asks about, stays
Onboards == \A u \in Users :
  \/ hand[u].op \in {"issuer", "cert", "sync", "config"}
  \/ hand[u].op = "update" /\ hand[u].fresh # Missing
  => settings # Missing

\* the invariant
SetupInv == SetupTypes /\ AllPassed /\ Onboards

\* what is updated from a row not overtaken is the copy, where it matters
LEMMA UpdatedRow ==
  ASSUME NEW copy \in Settings, NEW fresh \in Settings, settings \in Settings
  PROVE  /\ Updated(copy, fresh) \in Settings
         /\ ~Overtaken(fresh) => SameRow(Updated(copy, fresh), copy)
<1> DEFINE new == Updated(copy, fresh)
           F == {"environment", "enabled", "certificate", "csc", "site", "status", "issuer",
                 "cert", "config"}
<1>1. DOMAIN copy = F
  BY DEF Settings
<1>2. new = [c \in F |-> IF c \in Onboarded \/ copy[c] = fresh[c] THEN settings[c] ELSE copy[c]]
  BY <1>1 DEF Updated
<1>3. \A c \in F : new[c] = settings[c] \/ new[c] = copy[c]
  BY <1>2
<1>4. \A c \in F \ Onboarded : new[c] = IF copy[c] = fresh[c] THEN settings[c] ELSE copy[c]
  BY <1>2
<1> HIDE DEF new
<1>5. new \in Settings
  <2>1. /\ new["environment"] \in Markets /\ new["certificate"] \in Certificates \cup {Missing}
        /\ new["csc"] \in Codes \cup {Missing} /\ new["site"] \in Sites \cup {Missing}
    BY <1>3 DEF Settings
  <2>2. /\ new["status"] \in {"not_validated", "validated", "failed", "needs_validation"}
        /\ new["issuer"] \in {Missing, "issuer"} /\ new["cert"] \in {Missing, "certificate"}
        /\ new["config"] \in {Missing} \cup (Markets \X Codes)
    BY <1>3 DEF Settings
  <2>3. new["enabled"] \in BOOLEAN
    BY <1>3 DEF Settings
  <2>4. new = [environment |-> new["environment"], enabled |-> new["enabled"],
               certificate |-> new["certificate"], csc |-> new["csc"], site |-> new["site"],
               status |-> new["status"], issuer |-> new["issuer"], cert |-> new["cert"],
               config |-> new["config"]]
    BY <1>2 DEF new
  <2> QED
    BY <2>1, <2>2, <2>3, <2>4 DEF Settings
<1>6. ~Overtaken(fresh) => SameRow(new, copy)
  BY <1>4 DEF SameRow, Onboarded, Overtaken, Vital
<1> QED
  BY <1>5, <1>6 DEF new

LEMMA SetupStep ==
  ASSUME SetupInv, [SetupNext]_setupVars
  PROVE  SetupInv'
<1> USE SetupAssumption DEF SetupInv
<1>1. ASSUME NEW u \in Users, NEW copy \in Settings, NEW torn \in BOOLEAN, Writes(u, copy, torn),
             passed \subseteq passed', ~torn /\ copy.status = "validated" => Vital(copy) \in passed'
      PROVE  SetupInv'
  BY <1>1 DEF Writes, Takes, Idling, UserHas, SetupTypes, HasPassed, AllPassed, Onboards
<1>2. ASSUME NEW u \in Users, NEW form \in Forms, SaveConfig(u, form) PROVE SetupInv'
  <2> DEFINE row == IF settings = Missing THEN Blank ELSE settings
  <2>1. row \in Settings /\ (~mixed => HasPassed(row))
    BY DEF Blank, Settings, Markets, SetupTypes, AllPassed, HasPassed
  <2>2. /\ form.environment \in Markets /\ form.certificate \in Certificates \cup {Missing}
        /\ form.csc \in Codes \cup {Missing} /\ form.site \in Sites \cup {Missing}
    OBVIOUS
  <2> HIDE DEF row
  <2>3. Filled(row, form) \in Settings
    <3> DEFINE own == Given(form.certificate, row.certificate)
               code == Given(form.csc, row.csc)
               where == Given(form.site, row.site)
    <3>1. /\ own \in Certificates \cup {Missing} /\ code \in Codes \cup {Missing}
          /\ where \in Sites \cup {Missing}
      BY <2>1, <2>2 DEF Given, Settings
    <3>2. Filled(row, form) = [row EXCEPT !.environment = form.environment,
             !.certificate = own, !.csc = code, !.site = where]
      BY DEF Filled
    <3> HIDE DEF own, code, where
    <3> QED
      BY <2>1, <2>2, <3>1, <3>2 DEF Settings
  <2>4. Demoted(Filled(row, form)) \in Settings /\ Demoted(Filled(row, form)).status # "validated"
    BY <2>3 DEF Demoted, Settings
  <2>5. form.environment = row.environment /\ form.certificate = Missing /\ form.csc = Missing =>
          Vital(Filled(row, form)) = Vital(row) /\ Filled(row, form).status = row.status
    BY <2>1 DEF Filled, Given, Vital, Settings
  <2>6. Edited(row, form) \in Settings /\ (~mixed => HasPassed(Edited(row, form)))
    BY <2>1, <2>3, <2>4, <2>5 DEF Edited, HasPassed
  <2> QED
    BY <1>1, <1>2, <2>6 DEF SaveConfig, HasPassed, row, SetupTypes
<1>3. ASSUME NEW u \in Users, ValidateConfig(u) PROVE SetupInv'
  <2> DEFINE copy == [settings EXCEPT !.status = IF Sound(settings) THEN "validated" ELSE "failed"]
  <2>1. settings \in Settings
    BY <1>3 DEF ValidateConfig, SetupTypes
  <2>2. /\ copy \in Settings /\ Vital(copy) = Vital(settings)
        /\ copy.status = "validated" => Sound(settings)
    BY <2>1 DEF Settings, Vital
  <2> QED
    BY <1>1, <1>3, <2>2 DEF ValidateConfig
<1>4. ASSUME NEW u \in Users, EnableFiscal(u) PROVE SetupInv'
  <2> DEFINE copy == [settings EXCEPT !.enabled = TRUE]
  <2>1. settings \in Settings
    BY <1>4 DEF EnableFiscal, SetupTypes
  <2>2. copy \in Settings /\ Vital(copy) = Vital(settings) /\ copy.status = settings.status
    BY <2>1 DEF Settings, Vital
  <2> QED
    BY <1>1, <1>4, <2>1, <2>2 DEF EnableFiscal, AllPassed, HasPassed, SetupTypes
<1>5. ASSUME NEW u \in Users, Transition(u) PROVE SetupInv'
  BY <1>1, <1>5 DEF Transition, SetupTypes, AllPassed, HasPassed
<1>6. ASSUME NEW u \in Users, Fetch(u) PROVE SetupInv'
  BY <1>6 DEF Fetch, UserHas, Idling, SetupTypes, HasPassed, AllPassed, Onboards
<1>7. ASSUME NEW u \in Users, Save(u) PROVE SetupInv'
  <2> DEFINE held == hand[u]
  <2>1. /\ held.op = "update" /\ held.copy \in Settings /\ held.torn \in BOOLEAN
        /\ ~held.torn => HasPassed(held.copy)
        /\ held.fresh \in Settings \cup {Missing}
        /\ held.fresh # Missing => settings # Missing
    BY <1>7 DEF Save, SetupTypes, UserHas, Idling, AllPassed, Onboards
  <2>2. /\ hand' = [hand EXCEPT ![u] = Idling] /\ UNCHANGED passed
        /\ settings' = IF held.fresh # Missing THEN Updated(held.copy, held.fresh)
                       ELSE IF settings = Missing THEN held.copy ELSE settings
        /\ mixed' = IF held.fresh # Missing THEN held.torn \/ Overtaken(held.fresh)
                    ELSE IF settings = Missing THEN held.torn ELSE mixed
    BY <1>7 DEF Save
  <2> HIDE DEF held
  <2>3. settings' \in Settings /\ mixed' \in BOOLEAN /\ (~mixed' => HasPassed(settings'))
    <3>1. CASE held.fresh = Missing
      BY <2>1, <2>2, <3>1 DEF SetupTypes, AllPassed
    <3>2. CASE held.fresh # Missing
      <4>1. /\ settings' = Updated(held.copy, held.fresh) /\ settings' \in Settings
            /\ ~Overtaken(held.fresh) => SameRow(settings', held.copy)
        BY <2>1, <2>2, <3>2, UpdatedRow DEF SetupTypes
      <4>2. mixed' = (held.torn \/ Overtaken(held.fresh))
        BY <2>2, <3>2
      <4>3. Overtaken(held.fresh) \in BOOLEAN
        BY DEF Overtaken
      <4>4. SameRow(settings', held.copy) =>
              Vital(settings') = Vital(held.copy) /\ settings'.status = held.copy.status
        BY DEF SameRow, Vital
      <4> QED
        BY <2>1, <4>1, <4>2, <4>3, <4>4 DEF HasPassed
    <3> QED
      BY <3>1, <3>2
  <2>5. SetupTypes'
    BY <2>2, <2>3 DEF SetupTypes, UserHas
  <2>6. AllPassed'
    BY <2>1, <2>2, <2>3 DEF SetupTypes, Idling, AllPassed, HasPassed, Vital
  <2>7. Onboards'
    BY <2>2, <2>3, SetupAssumption DEF SetupTypes, Idling, Onboards
  <2> QED
    BY <2>5, <2>6, <2>7
<1>8. ASSUME NEW u \in Users, Stop(u) PROVE SetupInv'
  BY <1>8 DEF Stop, UserHas, Idling, SetupTypes, HasPassed, AllPassed, Onboards
<1>9. ASSUME NEW k \in Certificates, Expires(k) PROVE SetupInv'
  BY <1>9 DEF Expires, SetupTypes, HasPassed, AllPassed, Onboards
<1>10. ASSUME NEW u \in Users, SyncIssuer(u) \/ SyncCert(u) PROVE SetupInv'
  BY <1>10 DEF SyncIssuer, SyncCert, Takes, UserHas, Idling, SetupTypes, HasPassed, AllPassed, Onboards
<1>11. ASSUME NEW u \in Users, SyncConfig(u) PROVE SetupInv'
  <2>1. PICK h \in UserHas : /\ h.op \in {"idle", "config"} /\ hand' = [hand EXCEPT ![u] = h]
                            /\ UNCHANGED <<settings, passed, mixed>> /\ hand[u].op = "sync"
    <3>1. settings \in Settings /\ hand[u].op = "sync"
      BY <1>11 DEF SyncConfig, SetupTypes, Onboards
    <3>2. settings.csc # Missing =>
            [op |-> "config", id |-> <<settings.environment, settings.csc>>] \in UserHas
      BY <3>1 DEF UserHas, Settings
    <3>3. Idling \in UserHas /\ Idling.op = "idle"
      BY DEF UserHas, Idling
    <3>4. UNCHANGED <<settings, passed, mixed>> /\
          hand' = [hand EXCEPT ![u] =
            IF settings.issuer = Missing \/ settings.config # Missing \/ settings.csc = Missing
            THEN Idling ELSE [op |-> "config", id |-> <<settings.environment, settings.csc>>]]
      BY <1>11 DEF SyncConfig
    <3>5. CASE settings.issuer = Missing \/ settings.config # Missing \/ settings.csc = Missing
      BY <3>1, <3>3, <3>4, <3>5
    <3>6. CASE ~(settings.issuer = Missing \/ settings.config # Missing \/ settings.csc = Missing)
      BY <3>1, <3>2, <3>4, <3>6
    <3> QED
      BY <3>5, <3>6
  <2> QED
    BY <2>1 DEF SetupTypes, HasPassed, AllPassed, Onboards
<1>12. ASSUME NEW u \in Users, NEW next \in {Idling, [op |-> "sync"]}, hand' = [hand EXCEPT ![u] = next],
              settings # Missing, settings' \in Settings, SameRow(settings', settings),
              UNCHANGED <<passed, mixed>>, hand[u].op \in {"issuer", "cert", "config"}
       PROVE  SetupInv'
  <2>1. Vital(settings') = Vital(settings) /\ settings'.status = settings.status
    BY <1>12 DEF SameRow, Vital
  <2>2. SetupTypes'
    BY <1>12 DEF SetupTypes, UserHas
  <2>3. AllPassed'
    BY <1>12, <2>1 DEF SetupTypes, Idling, AllPassed, HasPassed, Vital
  <2>4. Onboards'
    BY <1>12 DEF SetupTypes, Idling, Onboards
  <2> QED
    BY <2>2, <2>3, <2>4
<1>13. ASSUME NEW u \in Users, IssuerCreated(u) PROVE SetupInv'
  <2>1. hand[u].op = "issuer" /\ settings \in Settings /\ settings # Missing
    BY <1>13 DEF IssuerCreated, Onboards, SetupTypes
  <2>2. /\ [settings EXCEPT !["issuer"] = "issuer"] \in Settings
        /\ SameRow([settings EXCEPT !["issuer"] = "issuer"], settings)
    BY <2>1 DEF Settings, SameRow
  <2> QED
    BY <1>12, <1>13, <2>1, <2>2 DEF IssuerCreated, Records
<1>14. ASSUME NEW u \in Users, CertActive(u) PROVE SetupInv'
  <2>1. hand[u].op = "cert" /\ settings \in Settings /\ settings # Missing
    BY <1>14 DEF CertActive, Onboards, SetupTypes
  <2>2. /\ [settings EXCEPT !["cert"] = "certificate"] \in Settings
        /\ SameRow([settings EXCEPT !["cert"] = "certificate"], settings)
    BY <2>1 DEF Settings, SameRow
  <2> QED
    BY <1>12, <1>14, <2>1, <2>2 DEF CertActive, Records
<1>15. ASSUME NEW u \in Users, ConfigSet(u) PROVE SetupInv'
  <2> DEFINE id == hand[u].id
  <2>1. /\ hand[u].op = "config" /\ settings \in Settings /\ settings # Missing
        /\ id \in Markets \X Codes
    BY <1>15 DEF ConfigSet, Onboards, SetupTypes, UserHas, Idling
  <2> HIDE DEF id
  <2>2. /\ [settings EXCEPT !["config"] = id] \in Settings
        /\ SameRow([settings EXCEPT !["config"] = id], settings)
    BY <2>1 DEF Settings, SameRow
  <2> QED
    BY <1>12, <1>15, <2>1, <2>2 DEF ConfigSet, Records, id
<1>16. CASE UNCHANGED setupVars
  BY <1>16 DEF setupVars, SetupTypes, HasPassed, AllPassed, Onboards
<1> QED
  BY <1>2, <1>3, <1>4, <1>5, <1>6, <1>7, <1>8, <1>9, <1>10, <1>11, <1>13, <1>14, <1>15, <1>16 DEF SetupNext

\* A configuration that says validated has the environment, the certificate
\* and the CSC some validation passed together, for any number of requests
\* that save, validate, enable and onboard at the same time; the exception is
\* a row that a save has mixed, its SELECT and its UPDATE cut by another
\* commit, until a validation is saved over it.
THEOREM SetupValidated == SetupSpec => []ValidatedAsIs
<1>1. SetupInit => SetupInv
  <2>1. Idling \in UserHas /\ Idling.op = "idle"
    BY DEF UserHas, Idling
  <2>2. SetupInit => SetupTypes /\ \A u \in Users : hand[u].op = "idle"
    BY <2>1 DEF SetupInit, SetupTypes
  <2> QED
    BY <2>2 DEF SetupInit, SetupInv, AllPassed, Onboards
<1>2. SetupInv /\ [SetupNext]_setupVars => SetupInv'
  BY SetupStep
<1>3. SetupInv => ValidatedAsIs
  BY DEF SetupInv, AllPassed, HasPassed, ValidatedAsIs
<1> QED
  BY <1>1, <1>2, <1>3, PTL DEF SetupSpec

-----------------------------------------------------------------------------
(* Numbers declared void *)

\* what a request has in hand
ClerkHas ==
  {AtEase} \cup [pc : {"create", "send"}, range : Ranges, site : Sefaz]
    \cup [pc : {"save"}, range : Ranges, site : Sefaz, outcome : {"authorized", "failed"}]

NumberingTypes ==
  /\ site \in Sefaz /\ told \subseteq Ranges \X Sefaz /\ disputed \subseteq Ranges
  /\ voided \in [Ranges -> VoidRows \cup {NoRequest}]
  /\ filed \in [Ranges -> FiledRows \cup {NoRequest}]
  /\ clerk \in [Clerks -> ClerkHas]

Busy(c) == clerk[c].pc # "ease"

\* who has a row to send or to save finds it
Rowed == \A c \in Clerks : clerk[c].pc \in {"send", "save"} => voided[clerk[c].range] # NoRequest

\* requests for a range overlap only if it is disputed
OneClerk == \A c, d \in Clerks :
  Busy(c) /\ Busy(d) /\ clerk[c].range = clerk[d].range => c = d \/ clerk[c].range \in disputed

\* the environment stays once a range was asked for, unless it is disputed
OneSite ==
  /\ \A k \in Ranges \ disputed : voided[k] # NoRequest => voided[k].site = site
  /\ \A k \in Ranges \ disputed :
       filed[k] # NoRequest => voided[k] # NoRequest /\ filed[k].site = site
  /\ \A c \in Clerks : Busy(c) /\ clerk[c].range \notin disputed => clerk[c].site = site

Filed(k) == filed[k] # NoRequest /\ filed[k].status # "refused"

\* nobody asks for a range that is void, and who is to save that it is void has
\* it filed
Undecided ==
  \A c \in Clerks :
    LET r == clerk[c]
    IN  Busy(c) /\ r.range \notin disputed =>
          /\ r.pc \in {"send", "save"} /\ voided[r.range].status = "authorized" =>
               r.pc = "save" /\ r.outcome = "authorized"
          /\ r.pc = "create" => voided[r.range] = NoRequest
          /\ r.pc = "save" /\ r.outcome = "authorized" => Filed(r.range)

\* a row that says void, and a range somebody was told is void, are filed
VoidIsFiled ==
  \A k \in Ranges \ disputed :
    voided[k] # NoRequest /\ voided[k].status = "authorized" => Filed(k)

VoidTold ==
  \A k \in Ranges \ disputed, s \in Sefaz : <<k, s>> \in told =>
    voided[k] # NoRequest /\ voided[k].status = "authorized" /\ s = site

\* the invariant
NumberingInv ==
  NumberingTypes /\ Rowed /\ OneClerk /\ OneSite /\ Undecided /\ VoidIsFiled /\ VoidTold

LEMMA NumberingStep ==
  ASSUME NumberingInv, [NumberingNext]_numberingVars
  PROVE  NumberingInv'
<1> USE InutilizationAssumption DEF NumberingInv
<1>1. ASSUME NEW c \in Clerks, NEW k \in Ranges, RequestInutilization(c, k) PROVE NumberingInv'
  <2> DEFINE h == [pc |-> IF voided[k] = NoRequest THEN "create" ELSE "send", range |-> k,
                   site |-> site]
  <2>1. /\ clerk[c] = AtEase /\ UNCHANGED <<site, voided, filed>>
        /\ disputed \subseteq disputed' /\ disputed' \subseteq Ranges
        /\ InHand(k) # {} => k \in disputed'
    BY <1>1 DEF RequestInutilization, NumberingTypes
  <2>2. CASE Void(k)
    <3>1. told' = told \cup {<<k, site>>} /\ UNCHANGED clerk
      BY <1>1, <2>2 DEF RequestInutilization
    <3> QED
      BY <2>1, <2>2, <3>1 DEF Void, NumberingTypes, Rowed, Busy, OneClerk, OneSite, Filed, Undecided, VoidIsFiled, VoidTold
  <2>3. CASE ~Void(k)
    <3>1. clerk' = [clerk EXCEPT ![c] = h] /\ UNCHANGED told
      BY <1>1, <2>3 DEF RequestInutilization, Proceeds
    <3>2. /\ h \in ClerkHas /\ h.range = k /\ h.site = site /\ h.pc \in {"create", "send"}
          /\ h.pc = "create" <=> voided[k] = NoRequest
      BY DEF ClerkHas, NumberingTypes
    <3> HIDE DEF h
    <3>3. \A d \in Clerks : clerk'[d] = IF d = c THEN h ELSE clerk[d]
      BY <3>1 DEF NumberingTypes
    <3>4. \A d \in Clerks : Busy(d) /\ clerk[d].range = k => k \in disputed'
      BY <2>1 DEF Busy, InHand
    <3>5. NumberingTypes' /\ Rowed'
      BY <2>1, <3>1, <3>2, <3>3 DEF NumberingTypes, Rowed
    <3>6. OneClerk' /\ OneSite'
      BY <2>1, <3>1, <3>2, <3>3, <3>4 DEF Busy, OneClerk, OneSite
    <3>7. Undecided' /\ VoidIsFiled' /\ VoidTold'
      BY <2>1, <2>3, <3>1, <3>2, <3>3 DEF Void, Busy, Filed, Undecided, VoidIsFiled, VoidTold
    <3> QED
      BY <3>5, <3>6, <3>7
  <2> QED
    BY <2>2, <2>3
<1>2. ASSUME NEW c \in Clerks, CreateRow(c) PROVE NumberingInv'
  <2> DEFINE r == clerk[c]
             row == [status |-> "pending", site |-> r.site]
  <2>1. r.pc = "create" /\ r.range \in Ranges /\ r.site \in Sefaz
        /\ r \in [pc : {"create", "send"}, range : Ranges, site : Sefaz]
        /\ UNCHANGED <<site, filed, told, disputed>>
    BY <1>2 DEF CreateRow, NumberingTypes, ClerkHas, AtEase
  <2>2. CASE voided[r.range] # NoRequest
    BY <1>2, <2>1, <2>2 DEF CreateRow, Proceeds, AtEase, ClerkHas, NumberingTypes, Rowed, Busy, OneClerk, OneSite, Filed, Undecided, VoidIsFiled, VoidTold
  <2>3. CASE voided[r.range] = NoRequest
    <3>1. /\ voided' = [voided EXCEPT ![r.range] = row]
          /\ clerk' = [clerk EXCEPT ![c] = [r EXCEPT !.pc = "send"]]
      BY <1>2, <2>3 DEF CreateRow, Proceeds
    <3>2. row \in VoidRows /\ row # NoRequest /\ row.site = r.site /\ row.status = "pending"
      BY <2>1 DEF VoidRows
    <3>3. PICK h \in ClerkHas : /\ clerk' = [clerk EXCEPT ![c] = h] /\ h.pc = "send"
                               /\ h.range = r.range /\ h.site = r.site
      <4>1. [r EXCEPT !.pc = "send"] \in [pc : {"create", "send"}, range : Ranges, site : Sefaz]
        BY <2>1
      <4>2. [r EXCEPT !.pc = "send"] \in ClerkHas
        BY <4>1 DEF ClerkHas
      <4> QED
        BY <2>1, <3>1, <4>2
    <3> HIDE DEF row
    <3>4. /\ \A d \in Clerks : clerk'[d] = IF d = c THEN h ELSE clerk[d]
          /\ \A k \in Ranges : voided'[k] = IF k = r.range THEN row ELSE voided[k]
          /\ \A d \in Clerks : d # c /\ Busy(d) /\ clerk[d].range = r.range => r.range \in disputed
          /\ \A d \in Clerks : Busy(d) => clerk[d].range \in Ranges
      BY <2>1, <3>1, <3>3 DEF NumberingTypes, ClerkHas, AtEase, OneClerk, Busy
    <3>5. r.range \notin disputed => filed[r.range] = NoRequest /\ r.site = site
      BY <2>1, <2>3 DEF OneSite, Busy
    <3>6. NumberingTypes'
      BY <2>1, <3>1, <3>2, <3>3 DEF NumberingTypes
    <3>7. Rowed'
      BY <2>1, <3>2, <3>3, <3>4 DEF Rowed, Busy
    <3>8. OneClerk' /\ OneSite'
      BY <2>1, <3>2, <3>3, <3>4, <3>5 DEF Busy, OneClerk, OneSite
    <3>9. Undecided'
      BY <2>1, <3>2, <3>3, <3>4 DEF Undecided, Filed, Busy
    <3>10. VoidIsFiled' /\ VoidTold'
      BY <2>1, <2>3, <3>2, <3>4 DEF VoidIsFiled, VoidTold, Filed
    <3> QED
      BY <3>6, <3>7, <3>8, <3>9, <3>10
  <2> QED
    BY <2>2, <2>3
<1>3. ASSUME NEW c \in Clerks, InutilizeNumbering(c) PROVE NumberingInv'
  BY <1>3 DEF InutilizeNumbering, Replied, Proceeds, AtEase, ClerkHas, VoidRows, FiledRows, NumberingTypes, Rowed, Busy, OneClerk, OneSite, Filed, Undecided, VoidIsFiled, VoidTold
<1>4. ASSUME NEW c \in Clerks, SendFails(c) PROVE NumberingInv'
  BY <1>4 DEF SendFails, Replied, Proceeds, AtEase, ClerkHas, VoidRows, FiledRows, NumberingTypes, Rowed, Busy, OneClerk, OneSite, Filed, Undecided, VoidIsFiled, VoidTold
<1>5. ASSUME NEW c \in Clerks, SaveOutcome(c) PROVE NumberingInv'
  BY <1>5 DEF SaveOutcome, Proceeds, AtEase, ClerkHas, VoidRows, FiledRows, NumberingTypes, Rowed, Busy, OneClerk, OneSite, Filed, Undecided, VoidIsFiled, VoidTold
<1>6. ASSUME NEW c \in Clerks, ClerkStops(c) PROVE NumberingInv'
  BY <1>6 DEF ClerkStops, Proceeds, AtEase, ClerkHas, VoidRows, FiledRows, NumberingTypes, Rowed, Busy, OneClerk, OneSite, Filed, Undecided, VoidIsFiled, VoidTold
<1>7. ASSUME NEW k \in Ranges, SefazAnswers(k) PROVE NumberingInv'
  BY <1>7 DEF SefazAnswers, ClerkHas, VoidRows, FiledRows, NumberingTypes, Rowed, Busy, OneClerk, OneSite, Filed, Undecided, VoidIsFiled, VoidTold
<1>8. CASE MoveSite
  <2>1. /\ site' \in Sefaz /\ UNCHANGED <<voided, filed, clerk, told>>
        /\ disputed' \subseteq Ranges /\ disputed \subseteq disputed'
        /\ \A k \in Ranges \ disputed' : voided[k] = NoRequest /\ InHand(k) = {}
    BY <1>8 DEF MoveSite, NumberingTypes
  <2>2. \A c \in Clerks : Busy(c) => clerk[c].range \in disputed'
    BY <2>1 DEF Busy, InHand, NumberingTypes, ClerkHas, AtEase
  <2>3. \A k \in Ranges \ disputed' : filed[k] = NoRequest /\ \A s \in Sefaz : <<k, s>> \notin told
    BY <2>1 DEF VoidTold, OneSite
  <2> QED
    BY <2>1, <2>2, <2>3 DEF NumberingTypes, Rowed, Busy, OneClerk, OneSite, Filed, Undecided, VoidIsFiled, VoidTold
<1>9. CASE UNCHANGED numberingVars
  BY <1>9 DEF numberingVars, NumberingTypes, Rowed, Busy, OneClerk, OneSite, Filed, Undecided, VoidIsFiled, VoidTold
<1> QED
  BY <1>1, <1>2, <1>3, <1>4, <1>5, <1>6, <1>7, <1>8, <1>9 DEF NumberingNext

\* A range somebody was told is void stays void, in the row and with the SEFAZ
\* he was asking, for any number of ranges, requests, lost answers and crashes;
\* the exception are ranges that two clerks asked for at a time, whose market
\* changed its environment since, or which the SEFAZ queued and then refused.
THEOREM VoidStays == NumberingSpec => []VoidAsTold
<1>1. NumberingInit => NumberingInv
  BY InutilizationAssumption DEF NumberingInit, NumberingInv, AtEase, ClerkHas, NumberingTypes, Rowed, Busy, OneClerk, OneSite, Filed, Undecided, VoidIsFiled, VoidTold
<1>2. NumberingInv /\ [NumberingNext]_numberingVars => NumberingInv'
  BY NumberingStep
<1>3. NumberingInv => VoidAsTold
  BY DEF NumberingInv, NumberingTypes, OneSite, VoidIsFiled, VoidTold, Filed, VoidAsTold
<1> QED
  BY <1>1, <1>2, <1>3, PTL DEF NumberingSpec
=============================================================================
