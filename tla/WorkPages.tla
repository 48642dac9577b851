------------------------------ MODULE WorkPages ------------------------------
(***************************************************************************)
(* What the pages on plans, people, flows, topics and proposals put before *)
(* a person (features/cooperation, features/chat, features/work), as       *)
(* DeliveryPages does for tasks and hand-offs.                             *)
(*                                                                         *)
(* The first of a list is some fixed member of it.                         *)
(***************************************************************************)
EXTENDS WorkProposals, DeliveryPages

---------------------------------------------------------------------------
(* PlanDetailPage.tsx, WorkMutationDialog.tsx *)

\* The head of a plan's page.  Its status is not the one that knows of a discarded plan.
PlanRoute(w, u, p) ==
  LET plan == w.plans[p]
      own == CanOwnPlan(w, u, p)
  IN Offers(plan.status = "draft" /\ own, {"activate"})
     \cup Offers(plan.status = "active" /\ own, {"accept"})
     \cup Offers(NeedsReview(w, p) /\ own, {"resume"})
     \cup PlanMore(w, u, p)

\* The menu of a plan or task.
More(w, u, o) == IF o[1] = "plan" THEN PlanMore(w, u, o[2]) ELSE TaskMore(w, u, o[2])

\* The form edits a draft directly and proposes a change of anything else.
EditForm(w, u, o) ==
  IF {"edit", "change"} \cap More(w, u, o) = {} THEN "none"
  ELSE IF Standing(Object(w, o[1], o[2])) = "draft" /\ MayEditDraft(w, u, o[1], o[2]) THEN "update"
  ELSE "propose"

\* The dialog keeps the review it shows and is confirmed while that is the current one; a discard
\* not while anything stands in its way, a restoration only knowing of what has begun.
ConfirmForm(w, u, o) ==
  LET offered == More(w, u, o)
  IN Offers("delete" \in offered /\ DiscardReview(w, o[1], o[2]).blockers = {}, {"delete"})
     \cup (offered \cap {"skip", "restore"})

---------------------------------------------------------------------------
(* ProposalCard.tsx, ProposalDialog.tsx *)

ProposalCard(w, u, p) ==
  Offers(VoteWaits(w, u, p), {"reject"})
  \cup Offers(VoteWaits(w, u, p) /\ ProposalIsCurrent(w, w.proposals[p]), {"approve"})
\* Only the sender of a rejected proposal nobody has answered gets to revise it.
Revisable(w, u, p) == Answerable(w, u, w.proposals[p].topic, p)

First(S) == IF S = {} THEN None ELSE CHOOSE x \in S : TRUE
ProjectSeats(w) == {x \in DOMAIN w.seats : w.seats[x].position \in DOMAIN w.positions}
Candidates(w, node) == {x \in DOMAIN w.seats : Fits(w, x, node)}

\* A task for every step of the flow.
DefaultTask(w, node) ==
  [node |-> node, seat |-> First(Candidates(w, node)), reviewer |-> First(ProjectSeats(w)),
   after |-> {}]
Defaults(w) ==
  [i \in DOMAIN w.flows["delivery"].nodes |-> DefaultTask(w, w.flows["delivery"].nodes[i])]

\* What the dialog starts with: the proposal it answers, or the own seat and the flow's steps.
ProposalDraft(w, u, previous) ==
  LET own == {x \in ProjectSeats(w) : OwnsSeat(w, u, x)}
  IN IF previous # None
     THEN [owner |-> w.proposals[previous].owner, tasks |-> w.proposals[previous].tasks]
     ELSE [owner |-> First(IF own = {} THEN ProjectSeats(w) ELSE own), tasks |-> Defaults(w)]

PatchTask(draft, i, field, value) == [draft EXCEPT !.tasks[i][field] = value]

\* Mutant of the removal: the tasks behind keep the numbers of those they come after.
RemoveTaskUnnumbered(draft, i) ==
  LET tasks == draft.tasks
      less(t) == [t EXCEPT !.after = @ \ {i}]
  IN [draft EXCEPT !.tasks =
       [j \in 1..(Len(tasks) - 1) |-> less(IF j < i THEN tasks[j] ELSE tasks[j + 1])]]

\* The tasks behind a removed one move up, and so do the numbers they come after.
RemoveTask(draft, i) ==
  LET tasks == draft.tasks
      less(t) == [t EXCEPT !.after = {IF a > i THEN a - 1 ELSE a : a \in @ \ {i}}]
  IN [draft EXCEPT !.tasks =
       [j \in 1..(Len(tasks) - 1) |-> less(IF j < i THEN tasks[j] ELSE tasks[j + 1])]]

\* The fields of one task.  Another step gives it to the first who can do that step.
TaskFields(w, draft, i) ==
  LET task == draft.tasks[i]
  IN {PatchTask(PatchTask(draft, i, "node", n), i, "seat", First(Candidates(w, n))) :
        n \in Nodes(w, "delivery")}
     \cup {PatchTask(draft, i, "seat", x) : x \in Candidates(w, task.node) \cup {None}}
     \cup {PatchTask(draft, i, "reviewer", x) : x \in ProjectSeats(w)}
     \cup {PatchTask(draft, i, "after",
             IF n \in task.after THEN task.after \ {n} ELSE task.after \cup {n}) : n \in 1..(i - 1)}
     \cup Offers(Len(draft.tasks) > 1, {RemoveTask(draft, i)})

\* The drafts one edit away.
DraftEdits(w, draft) ==
  ({[draft EXCEPT !.owner = x] : x \in ProjectSeats(w)}
   \cup {[draft EXCEPT !.tasks = Defaults(w)],
         [draft EXCEPT !.tasks = Append(@, Defaults(w)[1])]}
   \cup UNION {TaskFields(w, draft, i) : i \in DOMAIN draft.tasks}) \ {draft}

Sendable(draft) == \A i \in DOMAIN draft.tasks : draft.tasks[i].seat # None

---------------------------------------------------------------------------
(* TeamPages.tsx and the dialogs about people *)

InvitePage(w, u) ==
  {i \in DOMAIN w.invites : w.invites[i].person = u /\ w.invites[i].status = "pending"}
InviteDialog(w, u) == Offers(Manages(w, u), SUBSET DOMAIN w.positions \ {{}})

\* A position is bound to one step of a published flow or to none.
PositionDialog(w, u) ==
  Offers(Manages(w, u),
    {{}} \cup UNION {{{<<f, n>>} : n \in Nodes(w, f)} :
                      f \in {g \in DOMAIN w.flows : w.flows[g].status # "draft"}})
ReplaceDialog(w, u, x) ==
  Offers(Manages(w, u), DOMAIN w.members \ {w.seats[x].person})
PositionAssignmentDialog(w, u, position) ==
  Offers(Manages(w, u),
    {m \in DOMAIN w.members :
       ~\E x \in DOMAIN w.seats : w.seats[x].position = position /\ w.seats[x].person = m})

\* What is left to take from the library of positions and flows.
PositionPresetsDialog(w, u, roles) ==
  Offers(Manages(w, u), SUBSET (roles \ DOMAIN w.positions) \ {{}})
WorkflowPresetsDialog(w, u, flows) ==
  Offers(Manages(w, u), SUBSET (flows \ DOMAIN w.flows) \ {{}})

\* PreferencesPage.tsx: the prompt of a position the person holds, with its revision.
PromptEditor(w, u) ==
  {<<p, PromptRevision(w, u, p)>> : p \in MyPositions(w, u) \cap DOMAIN w.positions}

\* CreateWorkDialog of Dialogs.tsx: any plan, and any of its tasks as the parent.
NewWorkSeats(w) == ProjectSeats(w)
NewTaskPlaces(w) ==
  {<<None, None>>} \cup
  UNION {{p} \X ({None} \cup {t \in DOMAIN w.tasks : w.tasks[t].plan = p}) : p \in DOMAIN w.plans}

---------------------------------------------------------------------------
(* FlowPage.tsx, WorkflowDraftEditor.tsx *)

NewFlowDialog(w, u) == Manages(w, u)

\* The editor of a flow, published or not, saves what was changed since the definition it was
\* opened on, and publishes what was saved.
DraftEditor(w, u) ==
  Offers(Manages(w, u),
    ({"save"} \X DOMAIN w.flows)
    \cup ({"publish"} \X {f \in DOMAIN w.flows : w.flows[f].draft # None}))

---------------------------------------------------------------------------
(* Conversation.tsx and the dialogs about topics *)

\* What a message can be about: the topic itself, a plan or a task it is linked to.
DiscussionTasks(w, t) ==
  {k \in DOMAIN w.tasks : k \in w.topics[t].tasks \/ w.tasks[k].plan \in w.topics[t].plans}
Contexts(w, t) ==
  {<<"topic", None>>} \cup ({"task"} \X DiscussionTasks(w, t))
  \cup ({"plan"} \X (w.topics[t].plans \cap DOMAIN w.plans))

ConversationHeading(w, t) ==
  {"link", "fork", "arrange"} \cup Offers(
    ~(LatestRun(w.topics[t]) # None /\ LatestRun(w.topics[t]).rounds >= LatestRun(w.topics[t]).max),
    {"discuss"})

\* A fork is made after the last message or after any message that is shown, 0 in an empty topic.
\* It is linked to what its parent is linked to, or to other work.
ForkPoints(w, t) ==
  {LastSeq(w, t)} \cup {Histories(w)[t][i].seq : i \in DOMAIN Histories(w)[t]}

\* How a suggestion can be resolved, and the topic it is linked to.
SuggestionCard(w, s) ==
  LET plan == w.tasks[w.suggestions[s].task].plan
  IN {<<"create", None>>} \cup ({"link"} \X DOMAIN w.topics)
     \cup Offers(plan \in DOMAIN w.plans /\ w.plans[plan].main # None, {<<"main", None>>})

\* The links of a topic, one plan or task more or less.  What the topic is the main topic of stays.
TopicForm(w, t) ==
  LET topic == w.topics[t]
      plans == {p \in DOMAIN w.plans : w.plans[p].main = t}
      tasks == {k \in DOMAIN w.tasks : w.tasks[k].main = t}
  IN {[plans |-> topic.plans, tasks |-> ts] :
        ts \in {topic.tasks \cup {k} : k \in DOMAIN w.tasks}
               \cup {topic.tasks \ {k} : k \in topic.tasks \ tasks}}
     \cup {[plans |-> ps, tasks |-> topic.tasks] :
             ps \in {topic.plans \cup {p} : p \in DOMAIN w.plans}
                    \cup {topic.plans \ {p} : p \in topic.plans \ plans}}

\* A new topic is linked to the plan or task it is opened from, or to nothing.
NewTopicForm(w) ==
  {[plans |-> {}, tasks |-> {}]}
  \cup {[plans |-> {p}, tasks |-> {}] : p \in DOMAIN w.plans}
  \cup {[plans |-> {}, tasks |-> {k}] : k \in DOMAIN w.tasks}

\* ProjectSettings.tsx
ProjectSettings(w, u) == Offers(Manages(w, u), 1..100)
=============================================================================
