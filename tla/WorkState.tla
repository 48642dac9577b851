------------------------------ MODULE WorkState ------------------------------
(***************************************************************************)
(* The object the web client's work screens are computed from              *)
(* (features/work/types.ts), for one project, and the questions every      *)
(* screen and every action asks of it (selectors.ts, runtime.ts,           *)
(* preferences.ts, handoffResponsibilities.ts).                            *)
(*                                                                         *)
(* A work state w is a record; its collections are functions from the ids  *)
(* in use to records.  Texts are left out; the files of a task or source   *)
(* are the number of times they were handed in, 0 for none.                *)
(***************************************************************************)
EXTENDS Integers, FiniteSets, Sequences

CONSTANT None

---------------------------------------------------------------------------
(* selectors.ts *)

Member(w, u) == u \in DOMAIN w.members
Manages(w, u) == Member(w, u) /\ w.members[u] \in {"owner", "manager"}
SeatPerson(w, x) == IF x \in DOMAIN w.seats THEN w.seats[x].person ELSE None
OwnsSeat(w, u, x) == x \in DOMAIN w.seats /\ w.seats[x].person = u
CanWork(w, u, t) == Member(w, u) /\ \E x \in w.tasks[t].seats : OwnsSeat(w, u, x)
CanAcceptTask(w, u, t) == Member(w, u) /\ OwnsSeat(w, u, w.tasks[t].reviewer)
CanOwnPlan(w, u, p) == Member(w, u) /\ OwnsSeat(w, u, w.plans[p].owner)

Nodes(w, f) == {w.flows[f].nodes[i] : i \in DOMAIN w.flows[f].nodes}

\* businessStatus, when it differs from the status: a discarded object counts as cancelled.
Standing(o) == IF o.discarded THEN "cancelled" ELSE o.status

PlanTasks(w, p) ==
  {t \in DOMAIN w.tasks : ~w.tasks[t].discarded /\ (w.tasks[t].plan = p \/ t \in w.plans[p].refs)}

\* Mutant of the key: the tasks and not their versions.
PlanReviewKeyTasks(w, p) ==
  [version |-> w.plans[p].revision, tasks |-> PlanTasks(w, p)]

\* What an acceptance of the plan is an acceptance of.
PlanReviewKey(w, p) ==
  [version |-> w.plans[p].revision,
   tasks |-> {<<t, w.tasks[t].revision, w.tasks[t].status, w.tasks[t].skip>> :
                t \in PlanTasks(w, p)}]

\* A task of the plan that its acceptance has to wait for.
Outstanding(w, p) ==
  {t \in PlanTasks(w, p) :
     /\ Standing(w.tasks[t]) \notin {"accepted", "cancelled"}
     /\ ~(w.tasks[t].plan = p /\ (w.tasks[t].skip # None \/ Standing(w.tasks[t]) = "draft"))}

NeedsReview(w, p) == w.plans[p].status = "accepted" /\ Outstanding(w, p) # {}

Received(h) == /\ ~h.stale
               /\ DOMAIN h.sources # {}
               /\ \A x \in DOMAIN h.sources : h.sources[x].status = "accepted"

RequirementMet(w, t, r) ==
  \/ r.waived
  \/ /\ r.kind = "task"
     /\ r.ref \in DOMAIN w.tasks
     /\ w.tasks[r.ref].status = "accepted"
  \/ r.kind = "evidence" /\ w.tasks[t].files > 0
  \/ r.kind = "receipt" /\ r.ref \in DOMAIN w.handoffs /\ Received(w.handoffs[r.ref])

Blockers(w, t, phase) ==
  {r \in w.tasks[t].reqs : r.hard /\ r.at \in {"both", phase} /\ ~RequirementMet(w, t, r)}

---------------------------------------------------------------------------
(* runtime.ts: what the person may do to a plan or task *)

Owned(w, u, kind, o) ==
  IF kind = "plan" THEN CanOwnPlan(w, u, o)
  ELSE w.tasks[o].plan \in DOMAIN w.plans /\ CanOwnPlan(w, u, w.tasks[o].plan)

Object(w, kind, o) == IF kind = "plan" THEN w.plans[o] ELSE w.tasks[o]

MayEditDraft(w, u, kind, o) ==
  /\ Member(w, u)
  /\ Standing(Object(w, kind, o)) = "draft"
  /\ Manages(w, u) \/ Owned(w, u, kind, o) \/ Object(w, kind, o).by = u

MayPropose(w, u, kind, o) ==
  Member(w, u) /\ Standing(Object(w, kind, o)) \notin {"accepted", "cancelled"}

MaySkip(w, u, t) ==
  /\ Manages(w, u) /\ w.tasks[t].skip = None
  /\ Standing(w.tasks[t]) \in {"ready", "working", "delivered", "rework"}

MayRestore(w, u, t) == Manages(w, u) /\ w.tasks[t].skip # None

---------------------------------------------------------------------------
(* preferences.ts, handoffResponsibilities.ts *)

MyPositions(w, u) == {w.seats[x].position : x \in {y \in DOMAIN w.seats : OwnsSeat(w, u, y)}}
PromptRevision(w, u, pos) == IF <<u, pos>> \in DOMAIN w.prompts THEN w.prompts[<<u, pos>>] ELSE 0

HandoffResponsibilities(w) ==
  {x \in DOMAIN w.seats : /\ w.seats[x].position \in DOMAIN w.positions
                          /\ Member(w, w.seats[x].person)}

\* The seat a source is sent from when the proposer names none; None when it is not determined.
DefaultSender(w, u, t) ==
  LET participants == w.tasks[t].seats \cap HandoffResponsibilities(w)
      own == {x \in participants : OwnsSeat(w, u, x)}
      Only(S) == CHOOSE x \in S : TRUE
  IN IF Cardinality(own) = 1 THEN Only(own)
     ELSE IF own = {} /\ Cardinality(participants) = 1 THEN Only(participants) ELSE None
=============================================================================
