------------------------------ MODULE NfceNotes ------------------------------
(***************************************************************************)
(* What Marketfy promises its owners about fiscal notes, without jobs,     *)
(* commits, ledgers or providers: a sale's document is open, authorized,   *)
(* refused or canceled, and an authorized note is paid for with one of the *)
(* units of the plan.  FiscalEmission implements this (ImplementsNotes).   *)
(***************************************************************************)
EXTENDS Naturals, FiniteSets

CONSTANTS Docs, Plan

VARIABLES
  phase,  \* where the document of each sale stands
  unit    \* the unit of the plan it has

vars == <<phase, unit>>

TypeOK ==
  /\ phase \in [Docs -> {"none", "open", "authorized", "refused", "canceled"}]
  /\ unit \in [Docs -> {"none", "held", "spent"}]

Init ==
  /\ phase = [d \in Docs |-> "none"]
  /\ unit = [d \in Docs |-> "none"]

Out == {d \in Docs : unit[d] # "none"}

Move(d, from, to) ==
  /\ phase[d] \in from
  /\ phase' = [phase EXCEPT ![d] = to]
Pass(d, from, to) ==
  /\ unit[d] = from
  /\ unit' = [unit EXCEPT ![d] = to]

\* a refused sale may be asked again, once its unit is back
Request(d) == Move(d, {"none", "refused"}, "open") /\ unit[d] = "none" /\ UNCHANGED unit

\* the sale does not even validate
Discard(d) == Move(d, {"none"}, "refused") /\ UNCHANGED unit

Reserve(d) ==
  /\ phase[d] = "open" /\ Cardinality(Out) < Plan
  /\ Pass(d, "none", "held")
  /\ UNCHANGED phase

\* only a document with a unit is authorized
Authorize(d) == Move(d, {"open"}, "authorized") /\ unit[d] = "held" /\ UNCHANGED unit

\* rejected, given up, or no unit to be had
Refuse(d) == Move(d, {"open"}, "refused") /\ UNCHANGED unit

Cancel(d) == Move(d, {"authorized"}, "canceled") /\ UNCHANGED unit

\* the unit follows the outcome
Charge(d) == phase[d] \in {"authorized", "canceled"} /\ Pass(d, "held", "spent") /\ UNCHANGED phase
Return(d) == phase[d] = "refused" /\ Pass(d, "held", "none") /\ UNCHANGED phase

Next == \E d \in Docs :
  \/ Request(d) \/ Discard(d) \/ Reserve(d) \/ Authorize(d) \/ Refuse(d)
  \/ Cancel(d) \/ Charge(d) \/ Return(d)

Spec == Init /\ [][Next]_vars

-----------------------------------------------------------------------------
\* An authorized or canceled note has its unit, never given back; a spent unit
\* has such a note; the units out never exceed the plan.
Paid ==
  \A d \in Docs :
    /\ phase[d] \in {"authorized", "canceled"} => unit[d] # "none"
    /\ unit[d] = "spent" => phase[d] \in {"authorized", "canceled"}
WithinPlan == Cardinality(Out) <= Plan
=============================================================================
