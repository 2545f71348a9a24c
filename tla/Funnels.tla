------------------------------- MODULE Funnels -------------------------------
(***************************************************************************)
(* One sales funnel: the variants and steps its administrators edit, the   *)
(* sessions of its visitors, and the attribution service that ties a       *)
(* session to a user and stamps the milestones it reaches.  Attribution    *)
(* works in database sessions of its own, so each of its calls is a        *)
(* reading and a later commit; so is a request of an administrator that    *)
(* writes what it computed from an earlier reading.  The table of events,  *)
(* append-only and read by reports alone, and texts are left out.          *)
(* Definitions named after a slip are broken variants.                     *)
(***************************************************************************)
EXTENDS Naturals, FiniteSets, FiniteSetsExt

CONSTANTS
  Variants,       \* ids of variants
  Admins,         \* requests of administrators under way at a time
  People,      \* users a session may be tied to
  Callers,        \* calls of the attribution service at a time
  NoOne,          \* NULL of user_id and of last_step_position
  MaxVisits,      \* bound: sessions ever started
  MaxSteps,       \* bound: steps of a variant
  MaxEdits        \* bound: requests of administrators

ASSUME FunnelsAssumption ==
  MaxVisits \in Nat /\ MaxSteps \in Nat /\ MaxEdits \in Nat
    /\ NoOne \notin People /\ IsFiniteSet(People)

VARIABLES
  funnel,    \* its row: status, and whether its plan is an active one
  variant,   \* the variants there are: weight, whether active
  steps,     \* of each variant, the positions of its steps
  visit,     \* the sessions, numbered as they were created
  edit,      \* of each administrator, the request under way
  call,      \* of each caller, what it has read
  reached,   \* the milestones users have reached, as <<user, milestone>>
  edits,
  rewritten, \* variants written since a publication was last tested
  crossed,   \* variants whose steps two requests were editing at a time
  late       \* users given a session once they had reached, or while they
             \* reached, a milestone

funnelVars ==
  <<funnel, variant, steps, visit, edit, call, reached, edits, rewritten, crossed, late>>

Visits == 1 .. MaxVisits
Tracked == {"trial", "paid"}
Rest == [op |-> "rest"]
NoVisit == [state |-> "none"]
Erased == [state |-> "erased"]
Visit(v) == [state |-> "kept", variant |-> v, user |-> NoOne, last |-> NoOne, stamps |-> {}]
Variant(weight) == [weight |-> weight, active |-> TRUE]

Live == DOMAIN variant
Kept == {s \in Visits : visit[s].state = "kept"}

\* a funnel is created with one variant and no step
FunnelInit ==
  \E v \in Variants :
    /\ funnel = [status |-> "draft", plan |-> FALSE]
    /\ variant = [u \in {v} |-> Variant(1)] /\ steps = [u \in Variants |-> {}]
    /\ visit = [s \in Visits |-> NoVisit]
    /\ edit = [a \in Admins |-> Rest] /\ call = [p \in Callers |-> Rest]
    /\ reached = {} /\ edits = 0 /\ rewritten = {v} /\ crossed = {} /\ late = {}

-----------------------------------------------------------------------------
(* Administrators *)

\* every route answers errors by a rollback and commits at its end
Begins(a, held) ==
  /\ edit[a] = Rest /\ edits < MaxEdits
  /\ edit' = [edit EXCEPT ![a] = held] /\ edits' = edits + 1
  /\ UNCHANGED <<call, reached, late>>
Once(a) == Begins(a, Rest)
Ends(a) ==
  edit' = [edit EXCEPT ![a] = Rest] /\ UNCHANGED <<visit, call, reached, edits, crossed, late>>
Rewrites(v) == rewritten' = rewritten \cup {v}

Stepping(v) == {a \in Admins : edit[a].op \in {"add", "renumber"} /\ edit[a].variant = v}
NewIds == {v \in Variants \ Live : Stepping(v) = {}}

UpdateFunnel(a) ==
  /\ Once(a) /\ \E plan \in BOOLEAN : funnel' = [funnel EXCEPT !.plan = plan]
  /\ UNCHANGED <<variant, steps, visit, rewritten, crossed>>

Eligible == {v \in Live : variant[v].active /\ variant[v].weight > 0}
\* a slip: the variants without traffic are not looked at
Publishable_OfEligible == funnel.plan /\ Eligible # {} /\ \A v \in Eligible : steps[v] # {}
Publishable ==
  funnel.plan /\ Eligible # {} /\ \A v \in Live : variant[v].active => steps[v] # {}

Publish(a) ==
  /\ Publishable /\ Begins(a, [op |-> "publish"]) /\ rewritten' = {}
  /\ UNCHANGED <<funnel, variant, steps, visit, crossed>>
PublishSave(a) ==
  /\ edit[a].op = "publish" /\ Ends(a)
  /\ funnel' = [funnel EXCEPT !.status = "published"]
  /\ UNCHANGED <<variant, steps, rewritten>>

\* unpublish and archive
Withdraw(a) ==
  /\ Once(a) /\ \E status \in {"draft", "archived"} : funnel' = [funnel EXCEPT !.status = status]
  /\ UNCHANGED <<variant, steps, visit, rewritten, crossed>>

\* no request looks at the status: a published funnel is edited like any other
AddVariant(a) ==
  /\ Once(a)
  /\ \E v \in NewIds, weight \in {0, 1} :
       /\ variant' = [u \in Live \cup {v} |-> IF u = v THEN Variant(weight) ELSE variant[u]]
       /\ Rewrites(v) /\ crossed' = crossed \ {v}
  /\ UNCHANGED <<funnel, steps, visit>>

\* its steps are copied to the same positions, its traffic is not
DuplicateVariant(a, v) ==
  /\ Once(a)
  /\ \E c \in NewIds :
       /\ variant' = [u \in Live \cup {c} |->
                        IF u = c THEN [variant[v] EXCEPT !.weight = 0] ELSE variant[u]]
       /\ steps' = [steps EXCEPT ![c] = steps[v]] /\ Rewrites(c)
       /\ crossed' = (crossed \ {c}) \cup (IF v \in crossed THEN {c} ELSE {})
  /\ UNCHANGED <<funnel, visit>>

UpdateVariant(a, v) ==
  /\ Once(a) /\ Rewrites(v)
  /\ \E weight \in {0, 1}, active \in BOOLEAN :
       variant' = [variant EXCEPT ![v] = [weight |-> weight, active |-> active]]
  /\ UNCHANGED <<funnel, steps, visit, crossed>>

\* not the last one; its steps and sessions go with it
DeleteVariant(a, v) ==
  /\ Live # {v} /\ Once(a) /\ Rewrites(v)
  /\ variant' = [u \in Live \ {v} |-> variant[u]] /\ steps' = [steps EXCEPT ![v] = {}]
  /\ visit' = [s \in Visits |-> IF s \in Kept /\ visit[s].variant = v THEN Erased ELSE visit[s]]
  /\ UNCHANGED <<funnel, crossed>>

NextPosition(v) == IF steps[v] = {} THEN 0 ELSE Max(steps[v]) + 1

\* a request that reads the steps of v, to write what it makes of them
Reading(a, v, held) ==
  /\ Begins(a, held)
  /\ crossed' = IF Stepping(v) = {} THEN crossed ELSE crossed \cup {v}
  /\ UNCHANGED <<funnel, variant, steps, visit, rewritten>>

AddStep(a, v) ==
  /\ Cardinality(steps[v]) < MaxSteps
  /\ Reading(a, v, [op |-> "add", variant |-> v, position |-> NextPosition(v)])

\* two steps of a variant at one position are refused
AddStepSave(a) ==
  LET r == edit[a]
  IN  /\ r.op = "add" /\ Ends(a) /\ Rewrites(r.variant)
      /\ steps' = IF r.variant \in Live THEN [steps EXCEPT ![r.variant] = @ \cup {r.position}]
                  ELSE steps
      /\ UNCHANGED <<funnel, variant>>

\* a deletion or a new order: the steps left, as read, are numbered anew
DeleteOrReorder(a, v) ==
  \E gone \in SUBSET steps[v] :
    /\ Cardinality(gone) <= 1 /\ steps[v] # {}
    /\ Reading(a, v, [op |-> "renumber", variant |-> v, old |-> steps[v], gone |-> gone])

Renumbered_NotDone(r) == r.old \ r.gone \* a slip: a deletion leaves a gap
Renumbered(r) == {i \in 0 .. MaxSteps : i < Cardinality(r.old \ r.gone)}

\* a row that is no longer there, or a position taken meanwhile, ends it in an error
RenumberSave(a) ==
  LET r == edit[a]
      added == steps[r.variant] \ r.old
  IN  /\ r.op = "renumber" /\ Ends(a) /\ Rewrites(r.variant)
      /\ steps' = IF r.old \subseteq steps[r.variant] /\ added \cap Renumbered(r) = {}
                  THEN [steps EXCEPT ![r.variant] = added \cup Renumbered(r)] ELSE steps
      /\ UNCHANGED <<funnel, variant>>

AdminNext ==
  \E a \in Admins :
    \/ UpdateFunnel(a) \/ Publish(a) \/ PublishSave(a) \/ Withdraw(a) \/ AddVariant(a)
    \/ AddStepSave(a) \/ RenumberSave(a)
    \/ \E v \in Live : \/ DuplicateVariant(a, v) \/ UpdateVariant(a, v) \/ DeleteVariant(a, v)
                       \/ AddStep(a, v) \/ DeleteOrReorder(a, v)

-----------------------------------------------------------------------------
(* Visitors *)

\* who comes back with a session of this funnel goes on in its variant, and
\* nothing is written
StartSession ==
  \E s \in Visits, v \in Eligible :
    /\ funnel.status = "published"
    /\ visit[s] = NoVisit /\ \A t \in Visits : t < s => visit[t] # NoVisit
    /\ visit' = [visit EXCEPT ![s] = Visit(v)]
    /\ UNCHANGED <<funnel, variant, steps, edit, call, reached, edits, rewritten, crossed, late>>

RecordEvent ==
  \E s \in Kept :
    /\ funnel.status = "published"
    /\ \/ \E position \in steps[visit[s].variant] : visit' = [visit EXCEPT ![s].last = position]
       \/ visit' = [visit EXCEPT ![s].stamps = @ \cup {"completed"}]
    /\ UNCHANGED <<funnel, variant, steps, edit, call, reached, edits, rewritten, crossed, late>>

\* where a visitor who comes back goes on: a step that is still there, or the first
Resume(s) ==
  LET there == steps[visit[s].variant]
  IN  IF visit[s].last \in there THEN visit[s].last
      ELSE IF there = {} THEN 0 ELSE Min(there)

-----------------------------------------------------------------------------
(* The attribution service *)

Of(u) == {s \in Kept : visit[s].user = u}
LinksOf(u) == {p \in Callers : call[p].op = "link" /\ call[p].user = u}

Reads(p, held) ==
  /\ call[p] = Rest /\ call' = [call EXCEPT ![p] = held]
  /\ UNCHANGED <<funnel, variant, steps, visit, edit, edits, rewritten, crossed>>
Writes(p, s, new) ==
  /\ visit' = IF visit[s].state = "kept" THEN [visit EXCEPT ![s] = new] ELSE visit
  /\ call' = [call EXCEPT ![p] = Rest]
  /\ UNCHANGED <<funnel, variant, steps, edit, reached, edits, rewritten, crossed, late>>

\* a slip: who claims a session he came by is counted as having registered there
Milestone_Claimed(registers) == {"registered"}
Milestone(registers) == IF registers THEN {"registered"} ELSE {}

\* link_registration once a user, and claim; a session is in one browser
Link(p, s, u) ==
  /\ s \in Kept /\ visit[s].user = NoOne
  /\ \A q \in Callers : call[q].op = "link" /\ call[q].visit = s => call[q].user = u
  /\ late' = IF \E m \in Tracked : <<u, m>> \in reached THEN late \cup {u} ELSE late
  /\ \E registers \in BOOLEAN :
       /\ registers => <<u, "registered">> \notin reached
       /\ Reads(p, [op |-> "link", visit |-> s, user |-> u, stamps |-> Milestone(registers)])
       /\ reached' = IF registers THEN reached \cup {<<u, "registered">>} ELSE reached

LinkSave(p) ==
  LET r == call[p]
  IN  /\ r.op = "link"
      /\ Writes(p, r.visit, [visit[r.visit] EXCEPT !.user = r.user, !.stamps = @ \cup r.stamps])

Latest(u, m) == {s \in Of(u) : (\A t \in Of(u) : t <= s) /\ m \notin visit[s].stamps}

\* called where a trial begins, a subscription is made or an invoice is paid
Mark(p, u, m) ==
  /\ late' = IF LinksOf(u) = {} THEN late ELSE late \cup {u}
  /\ \E s \in Latest(u, m) : Reads(p, [op |-> "mark", visit |-> s, user |-> u, milestone |-> m])
  /\ reached' = reached \cup {<<u, m>>}

MarkSave(p) ==
  LET r == call[p]
  IN  /\ r.op = "mark"
      /\ Writes(p, r.visit, [visit[r.visit] EXCEPT !.stamps = @ \cup {r.milestone}])

AttributionNext ==
  \E p \in Callers :
    \/ LinkSave(p) \/ MarkSave(p)
    \/ \E u \in People : \/ \E s \in Visits : Link(p, s, u)
                            \/ \E m \in Tracked : Mark(p, u, m)

FunnelNext == AdminNext \/ StartSession \/ RecordEvent \/ AttributionNext

FunnelSpec == FunnelInit /\ [][FunnelNext]_funnelVars

-----------------------------------------------------------------------------
(* Reports and properties *)

\* the sessions a report counts for a milestone of a user
Conversions(u, m) == {s \in Of(u) : m \in visit[s].stamps}

\* Whoever comes to a published funnel is given a variant, whichever he is given
\* has steps, and who comes back is put on one of them, but for the variants
\* written since the publication was tested, by a request that overlapped it or
\* came later; and the positions of a variant's steps begin at the first and
\* leave no gap unless two requests were editing them at a time.
VisitorIsServed ==
  /\ funnel.status = "published" =>
       /\ rewritten = {} => Eligible # {}
       /\ \A v \in Live \ rewritten : variant[v].active => steps[v] # {}
       /\ \A s \in Kept : visit[s].variant \notin rewritten /\ variant[visit[s].variant].active =>
            Resume(s) \in steps[visit[s].variant]
  /\ \A v \in Live \ crossed : \A i \in steps[v] : \A j \in 0 .. i : j \in steps[v]

\* The conversions of a report are customers: a session counted belongs to a
\* user, and no milestone of a user is counted in two of them or before he
\* reaches it, whichever sessions he came in by and however calls for him
\* overlap.  Only the trial and the payment of a user who is given a session
\* at that time or later may be counted again, in that session.
ConvertedOnce ==
  /\ \A s \in Kept, m \in Tracked \cup {"registered"} : m \in visit[s].stamps => visit[s].user # NoOne
  /\ \A u \in People, m \in Tracked \cup {"registered"} :
       m = "registered" \/ u \notin late =>
         /\ \A s, t \in Conversions(u, m) : s = t
         /\ Conversions(u, m) # {} => <<u, m>> \in reached
=============================================================================
