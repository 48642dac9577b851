---------------------------- MODULE DeliveryPages ----------------------------
(***************************************************************************)
(* What the pages of the preview put before a person (features/            *)
(* cooperation/queries.ts, the task surface of features/chat, the          *)
(* hand-off pages and the dialogs of features/work).  The boards take the  *)
(* inputs of their actions from here: a person does what a page offers,    *)
(* and the action decides again whether it is done.                        *)
(*                                                                         *)
(* A button acts on the state it is drawn from.  A dialog stays open while *)
(* the state changes behind it; what it takes from the state at its        *)
(* opening is said where it is used.                                       *)
(***************************************************************************)
EXTENDS WorkActions

Offers(condition, S) == IF condition THEN S ELSE {}

---------------------------------------------------------------------------
(* queries.ts, ProjectHub.tsx: the boards of decisions and deliveries. *)

\* The four kinds of decision that are listed as waiting for the person.
VoteWaits(w, u, p) ==
  w.proposals[p].status = "pending" /\ u \in w.proposals[p].approvers \ w.proposals[p].votes
ReceiptWaits(w, u, h) ==
  /\ OwnsSeat(w, u, w.handoffs[h].receiver)
  /\ \E x \in DOMAIN w.handoffs[h].sources : w.handoffs[h].sources[x].status = "pending"
TaskWaits(w, u, t) ==
  w.tasks[t].skip = None /\ Standing(w.tasks[t]) = "delivered" /\ CanAcceptTask(w, u, t)
PlanWaits(w, u, p) ==
  /\ ~w.plans[p].discarded /\ w.plans[p].status = "active" /\ CanOwnPlan(w, u, p)
  /\ PlanTasks(w, p) # {} /\ Outstanding(w, p) = {}

\* Mutant of the filter: a rejected source is nothing to revise.
DeliveryUnrejected(w, u, h, filter) ==
  LET handoff == w.handoffs[h]
      own == {x \in DOMAIN handoff.sources : OwnsSeat(w, u, handoff.sources[x].sender)}
      Some(S, statuses) == \E x \in S : handoff.sources[x].status \in statuses
  IN CASE filter = "all" -> TRUE
       [] filter = "receive" -> ReceiptWaits(w, u, h)
       [] filter = "waiting" -> Some(own, {"pending"})
       [] filter = "revise" -> IF handoff.stale THEN own # {} ELSE Some(own, {"draft"})

\* The hand-offs listed among the deliveries under one of the filters; all are listed to everyone.
Delivery(w, u, h, filter) ==
  LET handoff == w.handoffs[h]
      own == {x \in DOMAIN handoff.sources : OwnsSeat(w, u, handoff.sources[x].sender)}
      Some(S, statuses) == \E x \in S : handoff.sources[x].status \in statuses
  IN CASE filter = "all" -> TRUE
       [] filter = "receive" -> ReceiptWaits(w, u, h)
       [] filter = "waiting" -> Some(own, {"pending"})
       [] filter = "revise" -> IF handoff.stale THEN own # {} ELSE Some(own, {"draft", "rejected"})

---------------------------------------------------------------------------
(* HandoffPages.tsx *)

\* What a source offers while its hand-off is not stale.  The dialogs of a rejection and of a
\* revision stay open when it becomes stale.
Contribution(w, u, h, x) ==
  LET s == w.handoffs[h].sources[x]
      sender == OwnsSeat(w, u, s.sender)
  IN Offers(OwnsSeat(w, u, w.handoffs[h].receiver) /\ s.status = "pending", {"reject", "receive"})
     \cup Offers(sender /\ s.status = "rejected" /\ w.tasks[s.task].status # "accepted", {"revise"})
     \cup Offers(sender /\ s.status = "draft", {"revise", "send"})

\* Everyone is offered the refresh of a stale hand-off.
RefreshOffered(w, u, h) == Delivery(w, u, h, "all") /\ w.handoffs[h].stale

\* The attachments a revision is handed in with.  With attachments it needs a seat of the task.
RevisionFiles(w, u, t) == {0} \cup Offers(\E x \in w.tasks[t].seats : OwnsSeat(w, u, x), {1})

---------------------------------------------------------------------------
(* TaskSurface.tsx, TaskActions.tsx: the button under a task and the menu of it. *)

Authorized(w, u, t) == CanWork(w, u, t) /\ Ongoing(w, t)
OwnSeats(w, u, t) == {x \in w.tasks[t].seats : OwnsSeat(w, u, x)}

\* One button, for the first that applies.
TaskButton(w, u, t) ==
  LET status == Standing(w.tasks[t])
  IN IF status = "draft" /\ MayEditDraft(w, u, "task", t) THEN "edit"
     ELSE IF Authorized(w, u, t) /\ status = "ready" THEN "start"
     ELSE IF Authorized(w, u, t) /\ status \in {"working", "rework"} THEN "progress"
     ELSE IF w.tasks[t].skip = None /\ status = "delivered" /\ CanAcceptTask(w, u, t) THEN "accept"
     ELSE IF status = "draft" /\ (Manages(w, u) \/ CanWork(w, u, t)) THEN "approve"
     ELSE "none"

TaskMore(w, u, t) ==
  LET status == Standing(w.tasks[t])
  IN (IF MayEditDraft(w, u, "task", t) THEN {"edit", "delete"}
      ELSE Offers(MayPropose(w, u, "task", t), {"change"}))
     \cup Offers(MaySkip(w, u, t), {"skip"})
     \cup Offers(MayRestore(w, u, t), {"restore"})
     \cup Offers(/\ Authorized(w, u, t) /\ status \in {"ready", "working", "rework"}
                 /\ Blockers(w, t, "start") = {}, {"delivery"})
     \cup Offers(~w.tasks[t].discarded, {"question"})
     \cup Offers(Authorized(w, u, t) /\ status \notin {"draft", "cancelled"}, {"handoff"})
     \cup Offers(status = "accepted" /\ CanAcceptTask(w, u, t), {"reopen"})
     \cup Offers(status = "draft" /\ (Manages(w, u) \/ CanWork(w, u, t)), {"approve"})

PlanMore(w, u, p) ==
  Offers(MayEditDraft(w, u, "plan", p), {"edit", "delete"})
  \cup Offers(~MayEditDraft(w, u, "plan", p) /\ MayPropose(w, u, "plan", p), {"change"})

\* A task is started with the only seat of it the person holds, or with one picked in a dialog.
\* The button is disabled while something blocks the start, the dialog is not.
TaskStart(w, u, t) == Offers(TaskButton(w, u, t) = "start", OwnSeats(w, u, t))

\* The record of any task of the project can be written once the dialog is open on one of them,
\* progress and deliveries with an own seat of the task.
TaskActivity(w, u, t, kind) ==
  Offers(\E k \in DOMAIN w.tasks : "question" \in TaskMore(w, u, k),
         IF kind \in {"progress", "delivery"} THEN OwnSeats(w, u, t) ELSE {None})
\* The topics a reply can go to.
ReplyTopics(w, t) ==
  {v \in DOMAIN w.topics :
     \/ t \in w.topics[v].tasks
     \/ w.tasks[t].plan \in DOMAIN w.plans /\ v = w.plans[w.tasks[t].plan].main}

---------------------------------------------------------------------------
(* CompositionDialogs.tsx: the hand-off dialog, opened on task t. *)

Targets(w, t, kind) ==
  IF kind = "stage" THEN {t}
  ELSE {k \in DOMAIN w.tasks \ {t} :
          /\ w.tasks[k].status # "draft"
          /\ w.tasks[k].plan \in DOMAIN w.plans => w.plans[w.tasks[k].plan].status # "draft"}

Recipients(w, target) ==
  (w.tasks[target].seats \cup {w.tasks[target].reviewer}) \cap HandoffResponsibilities(w)

Eligible(w, t, kind, target) ==
  {k \in DOMAIN w.tasks :
     /\ w.tasks[k].status \in {"delivered", "accepted"} /\ w.tasks[k].files > 0
     /\ IF kind = "stage" THEN k = t ELSE k # target}

\* Every source is sent from a seat picked for it; left alone, the picker names the default.
Senders(w, u, from, picked) ==
  LET sender == [k \in from |-> IF k \in DOMAIN picked THEN picked[k] ELSE DefaultSender(w, u, k)]
  IN Offers(\A k \in from : sender[k] \in HandoffResponsibilities(w), {sender})

HandoffDialog(w, u, t) ==
  Offers("handoff" \in TaskMore(w, u, t),
    UNION {UNION {[target : {target}, receiver : Recipients(w, target), kind : {kind},
                   from : SUBSET Eligible(w, t, kind, target) \ {{}}] :
                  target \in Targets(w, t, kind)} : kind \in {"dependency", "stage"}})

---------------------------------------------------------------------------
(* Dialogs.tsx, FrozenReview.tsx: the acceptance dialog of a task or plan keeps what it showed. *)

TaskReview(w, t) ==
  [task |-> t, revision |-> w.tasks[t].revision, files |-> w.tasks[t].files]
PlanReview(w, p) ==
  [plan |-> p, key |-> PlanReviewKey(w, p),
   files |-> [t \in PlanTasks(w, p) |-> w.tasks[t].files]]

AcceptanceOffered(w, u, t) == TaskButton(w, u, t) = "accept" \/ TaskWaits(w, u, t)
TaskChanged(w, review) == w.tasks[review.task].revision # review.revision
PlanChanged(w, review) == PlanReviewKey(w, review.plan) # review.key

\* FlowPage.tsx: the instructions of a published flow are edited on its page, by version.
FlowEditor(w, u) == Offers(Manages(w, u) /\ w.flows["delivery"].status # "draft",
                           {w.flows["delivery"].version})
=============================================================================
