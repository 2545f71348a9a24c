----------------------------- MODULE FiscalSetup -----------------------------
(***************************************************************************)
(* The fiscal configuration of a market, one row of fiscal_tenant_configs: *)
(* settings are saved, validated and enabled by requests that read a copy, *)
(* change it and write it back; the onboarding asks the provider and       *)
(* writes what it answers into columns of its own.  Columns that nothing   *)
(* tests (names, numbering, defaults, the step of the onboarding) are left *)
(* out; so is the enforcement mode, which TaxRules has.  Definitions named *)
(* after a slip are broken variants.                                       *)
(***************************************************************************)
EXTENDS Naturals

CONSTANTS
  Users,        \* requests served at a time
  Certificates, Codes, \* what a market may upload: A1 certificates, CSC pairs
  Forms,        \* what a request may ask to save
  Missing,      \* NULL, or no row
  MaxAsked      \* bound: requests ever made

Markets == {"homologacao", "producao"}

\* site: CNPJ, name, regime and address, everything else a validation tests
Sites == {"homologated", "other"}

Settings ==
  [environment : Markets, enabled : BOOLEAN, certificate : Certificates \cup {Missing},
   csc : Codes \cup {Missing}, site : Sites \cup {Missing},
   status : {"not_validated", "validated", "failed", "needs_validation"},
   issuer : {Missing, "issuer"}, cert : {Missing, "certificate"},
   config : {Missing} \cup (Markets \X Codes)]

\* a form always names an environment, homologacao if the client sends none
ASSUME SetupAssumption ==
  /\ Forms \subseteq [environment : Markets, certificate : Certificates \cup {Missing},
                      csc : Codes \cup {Missing}, site : Sites \cup {Missing}]
  /\ Missing \notin Settings /\ MaxAsked \in Nat

VARIABLES
  settings, \* the row
  hand,     \* per user, what the request has in hand
  expired,  \* certificates past their last day
  passed,   \* what a validation has found nothing wrong with
  asked,
  mixed     \* for the properties: the row was updated by a save that had selected
            \* it before another commit, or from a copy of such a row

setupVars == <<settings, hand, expired, passed, asked, mixed>>

Blank ==
  [environment |-> "homologacao", enabled |-> FALSE, certificate |-> Missing, csc |-> Missing,
   site |-> Missing, status |-> "not_validated", issuer |-> Missing, cert |-> Missing,
   config |-> Missing]
Onboarded == {"issuer", "cert", "config"}
Idling == [op |-> "idle"]

SetupInit ==
  /\ settings = Missing /\ hand = [u \in Users |-> Idling]
  /\ expired = {} /\ passed = {} /\ asked = 0 /\ mixed = FALSE

Sound(row) ==
  row.certificate \notin {Missing} \cup expired /\ row.csc # Missing /\ row.site = "homologated"

\* what a change of takes the validation back
Vital(row) == [environment |-> row.environment, certificate |-> row.certificate, csc |-> row.csc]

Takes(u, held) ==
  /\ hand[u] = Idling /\ asked < MaxAsked
  /\ hand' = [hand EXCEPT ![u] = held] /\ asked' = asked + 1
  /\ UNCHANGED <<settings, expired, mixed>>
Writes(u, copy, torn) == Takes(u, [op |-> "write", copy |-> copy, torn |-> torn])

\* a request that stops: refused, answered with an error, or dead
Stop(u) ==
  /\ hand[u] # Idling /\ hand' = [hand EXCEPT ![u] = Idling]
  /\ UNCHANGED <<settings, expired, passed, asked, mixed>>

-----------------------------------------------------------------------------
(* Settings *)

Given(x, old) == IF x = Missing THEN old ELSE x

Filled(row, form) ==
  [row EXCEPT !.environment = form.environment, !.certificate = Given(form.certificate, @),
              !.csc = Given(form.csc, @), !.site = Given(form.site, @)]
Demoted(row) == [row EXCEPT !.status = IF @ = "validated" THEN "needs_validation" ELSE @]

\* a slip: another environment is no reason to validate again
Edited_SecretsOnly(row, form) ==
  IF form.certificate # Missing \/ form.csc # Missing
  THEN Demoted(Filled(row, form)) ELSE Filled(row, form)

\* a secret given is always a change: its ciphertext is never the same twice
Edited(row, form) ==
  IF form.environment # row.environment \/ form.certificate # Missing \/ form.csc # Missing
  THEN Demoted(Filled(row, form)) ELSE Filled(row, form)

SaveConfig(u, form) ==
  /\ Writes(u, Edited(IF settings = Missing THEN Blank ELSE settings, form), mixed)
  /\ UNCHANGED passed

ValidateConfig(u) ==
  /\ settings # Missing
  /\ Writes(u, [settings EXCEPT !.status = IF Sound(settings) THEN "validated" ELSE "failed"],
            FALSE)
  /\ passed' = passed \cup (IF Sound(settings) THEN {Vital(settings)} ELSE {})

EnableFiscal(u) ==
  /\ settings # Missing /\ (settings.environment = "producao" => Sound(settings))
  /\ Writes(u, [settings EXCEPT !.enabled = TRUE], mixed)
  /\ UNCHANGED passed

\* a transition of the enforcement mode writes the rest of its copy back as well
Transition(u) == settings # Missing /\ Writes(u, settings, mixed) /\ UNCHANGED passed

\* save() selects the row again before it compares
Fetch(u) ==
  /\ hand[u].op = "write"
  /\ hand' = [hand EXCEPT ![u] = [op |-> "update", copy |-> @.copy, torn |-> @.torn,
                                  fresh |-> settings]]
  /\ UNCHANGED <<settings, expired, passed, asked, mixed>>

\* every column but those of the onboarding, where the copy differs from the row selected
Updated(copy, fresh) ==
  [c \in DOMAIN copy |->
     IF c \in Onboarded \/ copy[c] = fresh[c] THEN settings[c] ELSE copy[c]]

\* a commit since the SELECT has changed what a validation tests, or its outcome
Overtaken(fresh) == Vital(fresh) # Vital(settings) \/ fresh.status # settings.status

\* a market has one row: the second of two insertions fails
Save(u) ==
  LET held == hand[u]
  IN  /\ held.op = "update"
      /\ settings' = IF held.fresh # Missing THEN Updated(held.copy, held.fresh)
                     ELSE IF settings = Missing THEN held.copy ELSE settings
      /\ mixed' = IF held.fresh # Missing THEN held.torn \/ Overtaken(held.fresh)
                  ELSE IF settings = Missing THEN held.torn ELSE mixed
      /\ hand' = [hand EXCEPT ![u] = Idling]
      /\ UNCHANGED <<expired, passed, asked>>

Expires(k) ==
  /\ k \notin expired /\ expired' = expired \cup {k}
  /\ UNCHANGED <<settings, hand, passed, asked, mixed>>

-----------------------------------------------------------------------------
(* Onboarding: the provider is asked, and what it answers is committed *)

SyncIssuer(u) ==
  /\ settings # Missing /\ settings.site = "homologated"
  /\ Takes(u, [op |-> "issuer"]) /\ UNCHANGED passed

SyncCert(u) ==
  /\ settings # Missing /\ settings.issuer # Missing
  /\ Takes(u, [op |-> "cert"]) /\ UNCHANGED passed

Records(u, column, id, next) ==
  /\ settings' = [settings EXCEPT ![column] = id]
  /\ hand' = [hand EXCEPT ![u] = next]
  /\ UNCHANGED <<expired, passed, asked, mixed>>

\* either is followed by sync_config; Stop loses an answer
IssuerCreated(u) == hand[u].op = "issuer" /\ Records(u, "issuer", "issuer", [op |-> "sync"])
CertActive(u) == hand[u].op = "cert" /\ Records(u, "cert", "certificate", [op |-> "sync"])

\* skipped when the market has one, for whatever environment, or no CSC
SyncConfig(u) ==
  /\ hand[u].op = "sync"
  /\ hand' = [hand EXCEPT ![u] =
       IF settings.issuer = Missing \/ settings.config # Missing \/ settings.csc = Missing
       THEN Idling ELSE [op |-> "config", id |-> <<settings.environment, settings.csc>>]]
  /\ UNCHANGED <<settings, expired, passed, asked, mixed>>

ConfigSet(u) == hand[u].op = "config" /\ Records(u, "config", hand[u].id, Idling)

SetupNext ==
  \/ \E k \in Certificates : Expires(k)
  \/ \E u \in Users :
       \/ \E form \in Forms : SaveConfig(u, form)
       \/ ValidateConfig(u) \/ EnableFiscal(u) \/ Transition(u)
       \/ Fetch(u) \/ Save(u) \/ Stop(u)
       \/ SyncIssuer(u) \/ SyncCert(u) \/ IssuerCreated(u) \/ CertActive(u)
       \/ SyncConfig(u) \/ ConfigSet(u)

SetupSpec == SetupInit /\ [][SetupNext]_setupVars

-----------------------------------------------------------------------------
(* Properties *)

\* Saves, validations, activations and changes of mode overlap, each with an
\* older copy of the row: a configuration that says validated has the
\* environment, the certificate and the CSC some validation passed, together.
\* The exception is a row that a save has mixed, when another commit fell
\* between its SELECT and its UPDATE, until a validation is saved over it.
ValidatedAsIs ==
  settings # Missing /\ settings.status = "validated" /\ ~mixed => Vital(settings) \in passed
=============================================================================
