----------------------------- MODULE MCTaxRules -----------------------------
(* Small instances of TaxRules: rules that differ in what a publication      *)
(* compares, in what it does not, and in the days they are in force; and of  *)
(* FiscalPayload: rules of both modes, one of them without its catalog, and  *)
(* amounts that a rounding meets half way; and of FiscalSetup: forms of two  *)
(* environments, complete and not; and of Inutilization.  A behaviour is of  *)
(* one of the components, which share no state.                              *)
EXTENDS TaxRules, FiscalPayload, FiscalSetup, Inutilization, TLC

CONSTANTS p1, p2, s1, WithRates, l1, l2, k1, k2, csc1

MCBasket == [s \in Sales |-> IF s = s1 THEN {p1} ELSE {p1, p2}]
MCContents ==
  {[code |-> 1, rate |-> 1, from |-> 1, to |-> 1],
   [code |-> 1, rate |-> 2, from |-> 1, to |-> Forever]}
  \cup IF WithRates THEN {[code |-> 2, rate |-> 1, from |-> 2, to |-> Forever]} ELSE {}

Untaxed(x) ==
  [group |-> "ICMSSN102", mode |-> "non_taxed", cest |-> FALSE, catalog |-> FALSE,
   checksum |-> TRUE, retained |-> 0, amount |-> x, rate |-> x]
Withheld(catalog) ==
  [group |-> "ICMSSN500", mode |-> "retained_st", cest |-> TRUE, catalog |-> catalog,
   checksum |-> TRUE, retained |-> 12345, amount |-> 0, rate |-> 0]
MCWritten == {Untaxed(1500), Withheld(TRUE), Withheld(FALSE), [Untaxed(15) EXCEPT !.group = "ICMS10"]}

Form(environment, certificate, csc, issuer) ==
  [environment |-> environment, certificate |-> certificate, csc |-> csc, site |-> issuer]
MCForms ==
  {Form("producao", k1, csc1, "homologated"), Form("homologacao", k2, Missing, Missing),
   Form("producao", Missing, Missing, "other"), Form("homologacao", Missing, csc1, "homologated")}

VARIABLE part \* the component this behaviour is of

Parts == {"rules", "payload", "setup", "numbering"}
MCInit == Init /\ PayloadInit /\ SetupInit /\ NumberingInit /\ part \in Parts
Others(p) ==
  /\ part = p /\ part' = part
  /\ p # "rules" => UNCHANGED vars
  /\ p # "payload" => UNCHANGED payloadVars
  /\ p # "setup" => UNCHANGED setupVars
  /\ p # "numbering" => UNCHANGED numberingVars
MCNext ==
  \/ Others("rules") /\ Next
  \/ Others("payload") /\ PayloadNext
  \/ Others("setup") /\ SetupNext
  \/ Others("numbering") /\ NumberingNext
MCSpec == MCInit /\ [][MCNext]_<<vars, payloadVars, setupVars, numberingVars, part>>

Alike == Permutations(Clients) \cup Permutations(Rules) \cup Permutations(Lines)
           \cup Permutations(Users)
=============================================================================
