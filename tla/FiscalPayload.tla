---------------------------- MODULE FiscalPayload ----------------------------
(***************************************************************************)
(* From an approved rule to the request the provider receives: what a      *)
(* publication accepts, the evidence the calculator freezes on a sale's    *)
(* lines, the contract the serializer builds from it, the validation of    *)
(* the older payload, and which of the two payloads an emission posts      *)
(* while the market's configuration changes underneath.  One sale, one     *)
(* document.  Amounts count hundred-thousandths.  Nothing writes a frozen  *)
(* snapshot or a persisted request again, so their digests always match    *)
(* and are left out.  Definitions named after a slip are broken variants.  *)
(***************************************************************************)
EXTENDS Integers

CONSTANTS
  Lines,        \* the products on the receipt, one rule for each
  Written,      \* what an accountant may write into a rule
  Absent,       \* NULL
  Environments, \* a column of the configuration a payload depends on
  Serializable, \* TRUE: the JSON columns take decimals; the engine the code
                \* creates gives them no serializer that does
  MaxChanges    \* bound: changes of configuration

Retained == {"ICMSSN500", "ICMS60"}
Homologated == {"ICMSSN102", "ICMS40"} \cup Retained
CurrentST == {"ICMSSN201", "ICMS10", "ICMS30", "ICMS70", "ICMS90"}
IcmsModes == {"non_taxed", "retained_st"}

Enforcements == {"off", "warn", "block"}
Groups == Homologated \cup CurrentST

\* frozen on a line; posted to the provider; the row of a document
LineEvidence ==
  [group : Groups, catalog : BOOLEAN, checksum : BOOLEAN, own_base : {0}, current_st : {0},
   retained : Int, amount : Int, rate : Int]
Payloads ==
  [version : {"legacy"}, environment : Environments]
    \cup [version : {"v2"}, environment : Environments, lines : [Lines -> LineEvidence]]
Documents ==
  [status : {"queued", "invalid", "manual_action", "processing", "authorized", "rejected",
             "provider_error"},
   environment : Environments, payload : Payloads \cup {Absent}, born : Enforcements]

ASSUME PayloadAssumption ==
  /\ Written \subseteq
       [group : Groups, mode : IcmsModes, cest : BOOLEAN,
        catalog : BOOLEAN, checksum : BOOLEAN, retained : Nat, amount : Nat, rate : Nat]
  /\ "homologacao" \in Environments /\ Absent \notin LineEvidence \cup Payloads \cup Documents
  /\ Serializable \in BOOLEAN /\ MaxChanges \in Nat

VARIABLES
  written,  \* per product, its rule, a draft until it is published
  reviewed, \* the products whose rule is published
  config,   \* the market's configuration, and the switch of the deployment
  receipt,  \* the sale, with what is frozen on its lines
  document, \* the row of fiscal_documents
  asking,   \* the configuration a request for the document has read
  sending,  \* the payload the job is about to post
  posted,   \* the payloads posted
  changes

payloadVars ==
  <<written, reviewed, config, receipt, document, asking, sending, posted, changes>>

Enforced(c) == IF c.switch THEN c.mode ELSE "off"

PayloadInit ==
  /\ written = [l \in Lines |-> Absent] /\ reviewed = {}
  /\ config = [mode |-> "off", switch |-> TRUE, environment |-> "homologacao"]
  /\ receipt = Absent /\ document = Absent /\ asking = Absent /\ sending = Absent
  /\ posted = {} /\ changes = 0

-----------------------------------------------------------------------------
(* Rules and evidence *)

\* quantize with ROUND_HALF_UP to two and to four places
Quantized(x, quantum) == ((2 * x + quantum) \div (2 * quantum)) * quantum
Money(x) == Quantized(x, 1000)
Rate(x) == Quantized(x, 10)

\* a slip: what the serializer will ask of retained ST is not asked here
Calculable_NoCatalog(w) == w.group \notin CurrentST

\* what the calculator refuses: ST of the present operation, retained ST
\* without the version of the catalog and the checksum
Calculable(w) == w.group \notin CurrentST /\ (w.group \in Retained => w.catalog /\ w.checksum)

\* the matrix of groups and modes, CEST for retained ST, the approval's checksum
Approvable(w) ==
  /\ w.group \in Homologated
  /\ w.mode = IF w.group \in Retained THEN "retained_st" ELSE "non_taxed"
  /\ w.group \in Retained => w.cest
  /\ w.checksum /\ Calculable(w)

\* own ICMS and the ST of the operation are zero whatever was sold
Snapshot(w) ==
  [group |-> w.group, catalog |-> w.catalog, checksum |-> w.checksum,
   own_base |-> 0, current_st |-> 0,
   retained |-> IF w.group \in Retained THEN Money(w.retained) ELSE 0,
   amount |-> Money(w.amount), rate |-> Rate(w.rate)]

WriteRule(l, w) ==
  /\ written[l] = Absent
  /\ written' = [written EXCEPT ![l] = w]
  /\ UNCHANGED <<reviewed, config, receipt, document, asking, sending, posted, changes>>

ReviewRule(l) ==
  /\ written[l] # Absent /\ l \notin reviewed /\ Approvable(written[l])
  /\ reviewed' = reviewed \cup {l}
  /\ UNCHANGED <<written, config, receipt, document, asking, sending, posted, changes>>

\* a line without a published rule has no evidence, which block mode refuses;
\* so does a database that cannot store the decimals of a snapshot
SellLines ==
  LET mode == Enforced(config)
      frozen == [l \in Lines |-> IF mode # "off" /\ l \in reviewed /\ Calculable(written[l])
                                 THEN Snapshot(written[l]) ELSE Absent]
  IN  /\ receipt = Absent
      /\ mode = "block" => \A l \in Lines : frozen[l] # Absent
      /\ Serializable \/ \A l \in Lines : frozen[l] = Absent
      /\ receipt' = [mode |-> mode, frozen |-> frozen]
      /\ UNCHANGED <<written, reviewed, config, document, asking, sending, posted, changes>>

-----------------------------------------------------------------------------
(* Configuration *)

Change(c) ==
  /\ changes < MaxChanges /\ c # config
  /\ config' = c /\ changes' = changes + 1
  /\ UNCHANGED <<written, reviewed, receipt, document, asking, sending, posted>>

\* one step at a time, upwards only when every product has its rule
Enforce(mode) ==
  /\ \/ config.mode = "off" /\ mode = "warn" /\ reviewed = Lines
     \/ config.mode = "warn" /\ mode = "block" /\ reviewed = Lines
     \/ config.mode = "block" /\ mode = "warn"
  /\ Change([config EXCEPT !.mode = mode])

\* FISCAL_PRODUCT_RULES_ENABLED of the next deployment
Deploy(on) == Change([config EXCEPT !.switch = on])
Reconfigure(e) == Change([config EXCEPT !.environment = e])

-----------------------------------------------------------------------------
(* The request *)

\* FiscalContractV2Serializer._item: what it does not refuse
Buildable(e) ==
  /\ e # Absent /\ e.group \in Homologated
  /\ e.group \in Retained => e.current_st = 0 /\ e.catalog /\ e.checksum

Wire(e) == [e EXCEPT !.amount = Money(@), !.rate = Rate(@), !.own_base = Money(@)]

Contract(c) ==
  [version |-> "v2", environment |-> c.environment,
   lines |-> [l \in Lines |-> Wire(receipt.frozen[l])]]

\* the older payload says nothing of tax but the market's defaults
OlderPayload(c) == [version |-> "legacy", environment |-> c.environment]

\* evidence whose own base is the line's total, which is positive
Normal(e) == e # Absent /\ e.own_base > 0

\* validate: in warn mode each line needs such evidence
PreValid(c) == Enforced(c) = "warn" => \A l \in Lines : Normal(receipt.frozen[l])

NewDocument(c, status, payload) ==
  [status |-> status, environment |-> c.environment, payload |-> payload,
   born |-> Enforced(c)]

AskRead ==
  /\ receipt # Absent /\ asking = Absent
  /\ document # Absent => document.status # "authorized"
  /\ asking' = config
  /\ UNCHANGED <<written, reviewed, config, receipt, document, sending, posted, changes>>

Answered == asking' = Absent
  /\ UNCHANGED <<written, reviewed, config, receipt, sending, posted, changes>>

\* the request is persisted with the document, before it is queued
AskCreate ==
  /\ asking # Absent /\ document = Absent
  /\ \/ /\ Enforced(asking) = "block" /\ \A l \in Lines : Buildable(receipt.frozen[l])
        /\ document' = NewDocument(asking, "queued", Contract(asking))
     \/ /\ Enforced(asking) = "block" /\ \E l \in Lines : ~Buildable(receipt.frozen[l])
        /\ document' = NewDocument(asking, "invalid", Absent)
     \/ /\ Enforced(asking) # "block" /\ PreValid(asking)
        /\ document' = NewDocument(asking, "queued", Absent)
     \/ /\ Enforced(asking) # "block" /\ ~PreValid(asking)
        /\ document' = NewDocument(asking, "invalid", Absent)
  /\ Answered

\* what is persisted is not validated again, and in block mode never replaced
AskAgain ==
  /\ asking # Absent /\ document # Absent /\ document.status # "authorized"
  /\ document' = [document EXCEPT !.status =
       IF document.payload # Absent THEN "queued"
       ELSE IF Enforced(asking) = "block" THEN "manual_action"
       ELSE IF PreValid(asking) THEN "queued" ELSE "invalid"]
  /\ Answered

-----------------------------------------------------------------------------
(* The job, which may be delivered again until the document is terminal *)

\* a slip: what is persisted counts only while the mode is block
Selected_WhenBlock(c) == IF Enforced(c) = "block" THEN document.payload ELSE OlderPayload(c)

\* the persisted request, or the older payload, built from the configuration of now
Selected(c) == IF document.payload # Absent THEN document.payload ELSE OlderPayload(c)

JobTakes ==
  /\ document # Absent /\ document.status \in {"queued", "processing", "provider_error"}
  /\ sending = Absent
  /\ IF document.payload = Absent /\ Enforced(config) = "block"
     THEN document' = [document EXCEPT !.status = "manual_action"] /\ UNCHANGED sending
     ELSE /\ document' = [document EXCEPT !.status = "processing"]
          /\ sending' = Selected(config)
  /\ UNCHANGED <<written, reviewed, config, receipt, asking, posted, changes>>

\* accepted, or an answer that settles it, or none
JobPosts(answer) ==
  /\ sending # Absent
  /\ posted' = posted \cup {sending} /\ sending' = Absent
  /\ document' = [document EXCEPT !.status = answer]
  /\ UNCHANGED <<written, reviewed, config, receipt, asking, changes>>

Answers == {"processing", "authorized", "rejected", "provider_error"}

PayloadNext ==
  \/ \E l \in Lines : (\E w \in Written : WriteRule(l, w)) \/ ReviewRule(l)
  \/ SellLines
  \/ \E mode \in {"warn", "block"} : Enforce(mode)
  \/ \E on \in BOOLEAN : Deploy(on)
  \/ \E e \in Environments : Reconfigure(e)
  \/ AskRead \/ AskCreate \/ AskAgain
  \/ JobTakes \/ \E answer \in Answers : JobPosts(answer)

PayloadSpec == PayloadInit /\ [][PayloadNext]_payloadVars

-----------------------------------------------------------------------------
(* Properties *)

\* y is x rounded to a quantum
Nearest(y, x, quantum) == y % quantum = 0 /\ 2 * (y - x) \in -quantum + 1 .. quantum

\* Whatever mode, environment or default is changed between the request, its
\* retries and its job: a document whose request was persisted posts that
\* request and no other, to the environment the document names, and a request
\* with evidence says what was approved for each line, rounded once.
OneRequest ==
  /\ document # Absent /\ document.payload # Absent =>
       /\ posted \subseteq {document.payload}
       /\ document.payload.environment = document.environment
  /\ \A x \in posted : x.version = "v2" =>
       \A l \in Lines :
         /\ l \in reviewed /\ x.lines[l].group = written[l].group
         /\ Nearest(x.lines[l].amount, written[l].amount, 1000)
         /\ Nearest(x.lines[l].rate, written[l].rate, 10)
         /\ written[l].group \in Retained => Nearest(x.lines[l].retained, written[l].retained, 1000)

\* Publication, calculator and serializer test rules in three places. A sale
\* that block mode let through, and whose note is asked for in block mode, is
\* never refused by Marketfy itself, then or at any retry in any mode.
ReviewedIsEmitted ==
  receipt # Absent /\ document # Absent /\ receipt.mode = "block" /\ document.born = "block" =>
    document.status \notin {"invalid", "manual_action"}
=============================================================================
