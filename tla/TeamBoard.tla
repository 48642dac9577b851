------------------------------ MODULE TeamBoard ------------------------------
(***************************************************************************)
(* The team of a project in the preview: people are invited, join, are     *)
(* given positions and hand their seats over, the manager changes          *)
(* positions and flows, people write personal prompts and draft plans and  *)
(* tasks, and an arrangement of new work is written in a dialog, proposed  *)
(* to the people it names and takes effect once they have agreed.          *)
(***************************************************************************)
EXTENDS WorkPages

CONSTANTS
  Start,         \* the work state the store is loaded with
  Others,        \* people who are no members yet
  Topics,        \* the topics proposals are made in
  Steps,         \* the steps of a new flow
  Presets,       \* the flows of the library
  Roles,         \* the positions of the library
  ProposalIds, PlanIds, TaskIds, SeatIds, InviteIds, PositionIds, FlowIds,
                 \* bounds: fresh ids
  Versions,      \* bound: changes of a flow
  Changed        \* bound: positions, seats, invitations, flows, prompts and proposals that differ
                 \* from the start, new drafts and the open dialog; two edits in it count as one

VARIABLES
  work,          \* the store's state
  editor         \* the open dialog of an arrangement, None when there is none

vars == <<work, editor>>

Persons == DOMAIN Start.members \cup Others

Init == work = Start /\ editor = None

LOCAL INSTANCE FiniteSetsExt
\* What keeps TLC's instance finite.
Differing(f, g) == {i \in DOMAIN f : i \in DOMAIN g => f[i] # g[i]}
Drafts(f) == {i \in DOMAIN f : f[i].status = "draft"}
WithinBounds(w, e) ==
  /\ \A f \in DOMAIN w.flows : Definition(w.flows[f]) <= Versions
  /\ \A m \in DOMAIN w.prompts : w.prompts[m] <= 1
  /\ 2 * (MapThenSumSet(LAMBDA part : Cardinality(Differing(w[part], Start[part])),
                        {"positions", "seats", "invites", "flows", "prompts", "proposals"})
          + Cardinality(Drafts(w.plans)) + Cardinality(Drafts(w.tasks)))
       + (IF e = None THEN 0 ELSE 2 + e.edits) <= 2 * Changed

Act(step) == step /\ WithinBounds(work', editor) /\ UNCHANGED editor

---------------------------------------------------------------------------

\* The dialog is opened from a topic, or from a rejected proposal to answer it, and stays open
\* while the team changes.
OpenEditor(u) == \E t \in Topics, previous \in DOMAIN work.proposals \cup {None} :
  /\ editor = None /\ Member(work, u)
  /\ previous # None => Revisable(work, u, previous) /\ work.proposals[previous].topic = t
  /\ editor' = [by |-> u, topic |-> t, previous |-> previous, edits |-> 0,
                draft |-> ProposalDraft(work, u, previous)]
  /\ WithinBounds(work, editor')
  /\ UNCHANGED work
Edit == \E draft \in Offers(editor # None, DraftEdits(work, editor.draft)) :
  /\ editor' = [editor EXCEPT !.draft = draft, !.edits = @ + 1]
  /\ WithinBounds(work, editor')
  /\ UNCHANGED work
CloseEditor == editor # None /\ editor' = None /\ UNCHANGED work
Submit ==
  /\ editor # None /\ Sendable(editor.draft)
  /\ SubmitProposal(work, work', editor.by, ProposalIds, editor.topic, editor.draft,
                    editor.previous)
  /\ editor' = None
  /\ WithinBounds(work', None)

Vote(u) == \E p \in DOMAIN work.proposals :
  /\ "approve" \in ProposalCard(work, u, p)
  /\ Act(ApproveProposal(work, work', u, PlanIds, TaskIds, p, work.proposals[p].revision))
Refuse(u) == \E p \in DOMAIN work.proposals :
  /\ "reject" \in ProposalCard(work, u, p)
  /\ Act(RejectProposal(work, work', u, p, work.proposals[p].revision))

NewPlan(u) == \E x \in NewWorkSeats(work) : Act(CreatePlan(work, work', u, PlanIds, x))
NewTask(u) == \E x \in NewWorkSeats(work), place \in NewTaskPlaces(work) :
  Act(CreateTask(work, work', u, TaskIds, x, place[1], place[2]))

Position(u) == \E pos \in DOMAIN work.positions \cup {None}, bound \in PositionDialog(work, u) :
  Act(SavePosition(work, work', u, PositionIds, pos, bound))
ImportPositions(u) == \E roles \in PositionPresetsDialog(work, u, Roles) :
  Act(ImportPositionPresets(work, work', u, roles))
Invite(u) == \E person \in Others, positions \in InviteDialog(work, u) :
  Act(InvitePerson(work, work', u, InviteIds, person, positions))
Join(u) == \E i \in InvitePage(work, u) : Act(AcceptInvite(work, work', u, SeatIds, i))
Assign(u) == \E pos \in DOMAIN work.positions :
  \E person \in PositionAssignmentDialog(work, u, pos) :
    Act(AssignPositions(work, work', u, SeatIds, person, {pos}))
Replace(u) == \E x \in DOMAIN work.seats : \E to \in ReplaceDialog(work, u, x) :
  Act(ReplaceSeat(work, work', u, x, work.seats[x].person, to))
Prompt(u) == \E prompt \in PromptEditor(work, u) :
  Act(PersonalPrompt(work, work', u, prompt[1], prompt[2]))

NewFlow(u) == NewFlowDialog(work, u) /\ Act(CreateFlow(work, work', u, FlowIds, Steps))
ImportFlows(u) == \E flows \in WorkflowPresetsDialog(work, u, DOMAIN Presets) :
  Act(ImportWorkflowPresets(work, work', u, [f \in flows |-> Presets[f]]))
DraftFlow(u) == \E e \in DraftEditor(work, u) :
  e[1] = "save" /\ Act(SaveFlowDraft(work, work', u, e[2], Definition(work.flows[e[2]])))
ReleaseFlow(u) == \E e \in DraftEditor(work, u) :
  e[1] = "publish" /\ Act(PublishFlowDraft(work, work', u, e[2], Definition(work.flows[e[2]])))

Next ==
  \/ Edit \/ CloseEditor \/ Submit
  \/ \E u \in Persons :
       \/ OpenEditor(u) \/ Vote(u) \/ Refuse(u) \/ NewPlan(u) \/ NewTask(u)
       \/ Position(u) \/ ImportPositions(u) \/ Invite(u) \/ Join(u) \/ Assign(u) \/ Replace(u)
       \/ Prompt(u) \/ NewFlow(u) \/ ImportFlows(u) \/ DraftFlow(u) \/ ReleaseFlow(u)

Spec == Init /\ [][Next]_vars

---------------------------------------------------------------------------

\* Every seat is held by a member, so whoever is asked to agree to work can answer.
SeatsHeld(w) ==
  /\ \A x \in DOMAIN w.seats : Member(w, w.seats[x].person)
  /\ \A p \in DOMAIN w.proposals : w.proposals[p].approvers \subseteq DOMAIN w.members
SeatsHeldByMembers == SeatsHeld(work)

\* However an arrangement is edited, each of its tasks comes only after earlier ones, so that the
\* work it becomes can be begun; the submission would refuse any other with no word on the task.
DraftInOrder ==
  editor # None =>
    \A i \in DOMAIN editor.draft.tasks : editor.draft.tasks[i].after \subseteq 1..(i - 1)

\* What a stored state looks like, as far as the team depends on it: the collections and fields
\* that are written are there, the steps of the flow are a list that is not empty, and the tasks
\* of a proposal are a list in which each comes only after earlier ones.
Listed(s) == Len(s) \in Nat /\ s = [i \in 1..Len(s) |-> s[i]]
InOrder(tasks) ==
  /\ Listed(tasks)
  /\ \A i \in DOMAIN tasks : "after" \in DOMAIN tasks[i] /\ tasks[i].after \subseteq 1..(i - 1)
Stored(w) ==
  /\ {"members", "seats", "proposals", "flows"} \subseteq DOMAIN w
  /\ \A x \in DOMAIN w.seats : "person" \in DOMAIN w.seats[x]
  /\ \A p \in DOMAIN w.proposals :
       {"approvers", "tasks"} \subseteq DOMAIN w.proposals[p] /\ InOrder(w.proposals[p].tasks)
  /\ "delivery" \in DOMAIN w.flows /\ "nodes" \in DOMAIN w.flows["delivery"]
  /\ Listed(w.flows["delivery"].nodes) /\ w.flows["delivery"].nodes # <<>>

ASSUME StartAssumption == Stored(Start) /\ SeatsHeld(Start)
=============================================================================
