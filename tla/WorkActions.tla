----------------------------- MODULE WorkActions -----------------------------
(***************************************************************************)
(* The formal actions of the work screens (features/work/actions.ts and    *)
(* the hand-off part of composition.ts).  Each takes the work state w and  *)
(* the person u and says what state v it returns; where the code returns   *)
(* an error the action is disabled.                                        *)
(*                                                                         *)
(* The log of events is left out.  A member of ids is a fresh uid.         *)
(***************************************************************************)
EXTENDS WorkTopics

---------------------------------------------------------------------------
(* Sources of a hand-off: decide, revise, send.  history keeps every version that was replaced. *)

Replaced(h, x, s) == [h EXCEPT !.sources[x] = s,
                               !.history = @ \cup {[source |-> x, was |-> h.sources[x]]}]

\* Mutant of the decision: the task is sent back though accepted.
SourceDecisionRework(w, v, u, h, x, revision, decision) ==
  /\ Member(w, u) /\ OwnsSeat(w, u, w.handoffs[h].receiver)
  /\ LET s == w.handoffs[h].sources[x]
     IN /\ ~w.handoffs[h].stale /\ s.status = "pending" /\ s.revision = revision
        /\ v = [w EXCEPT
             !.handoffs[h] = Replaced(@, x, [s EXCEPT !.status = decision, !.decidedBy = u]),
             !.tasks[s.task].status = IF decision = "rejected" THEN "rework" ELSE @]

SourceDecision(w, v, u, h, x, revision, decision) ==
  /\ Member(w, u) /\ OwnsSeat(w, u, w.handoffs[h].receiver)
  /\ LET s == w.handoffs[h].sources[x]
     IN /\ ~w.handoffs[h].stale /\ s.status = "pending" /\ s.revision = revision
        /\ v = [w EXCEPT
             !.handoffs[h] = Replaced(@, x, [s EXCEPT !.status = decision, !.decidedBy = u]),
             !.tasks[s.task].status =
                IF decision = "rejected" /\ @ # "accepted" THEN "rework" ELSE @]

\* Mutant of the revision: the task keeps its version.
ReviseSourceUnnumbered(w, v, u, h, x, revision, files) ==
  LET s == w.handoffs[h].sources[x]
  IN /\ Member(w, u) /\ OwnsSeat(w, u, s.sender)
     /\ s.revision = revision /\ s.status \in {"rejected", "draft"}
     /\ w.tasks[s.task].status # "accepted"
     /\ v = [WorkSubmitted(w, s.task, <<"source", x, revision + 1>>) EXCEPT
          !.handoffs[h] = Replaced(@, x, [s EXCEPT !.revision = @ + 1, !.files = @ + files,
                                                   !.status = "draft",
                                                   !.sentBy = None, !.decidedBy = None]),
          !.tasks[s.task].files = @ + files,
          !.tasks[s.task].status = "delivered"]

\* files is the number of attachments, 0 or 1; the sender's words are taken to be given.
ReviseSource(w, v, u, h, x, revision, files) ==
  LET s == w.handoffs[h].sources[x]
  IN /\ Member(w, u) /\ OwnsSeat(w, u, s.sender)
     /\ s.revision = revision /\ s.status \in {"rejected", "draft"}
     /\ w.tasks[s.task].status # "accepted"
     /\ v = [WorkSubmitted(w, s.task, <<"source", x, revision + 1>>) EXCEPT
          !.handoffs[h] = Replaced(@, x, [s EXCEPT !.revision = @ + 1, !.files = @ + files,
                                                   !.status = "draft",
                                                   !.sentBy = None, !.decidedBy = None]),
          !.tasks[s.task].files = @ + files,
          !.tasks[s.task].revision = @ + 1,
          !.tasks[s.task].status = "delivered"]

SendSource(w, v, u, h, x, revision) ==
  LET s == w.handoffs[h].sources[x]
  IN /\ Member(w, u) /\ OwnsSeat(w, u, s.sender)
     /\ ~w.handoffs[h].stale /\ s.status = "draft" /\ s.revision = revision
     /\ v = [w EXCEPT !.handoffs[h].sources[x] = [@ EXCEPT !.status = "pending", !.sentBy = u]]

\* A source as its sender is to send it again.
Unsent(s) == [s EXCEPT !.status = "draft", !.revision = @ + 1, !.sentBy = None]

\* Mutant of the refresh: what has been decided must be sent again, too.
RefreshHandoffDecided(w, v, u, h) ==
  LET old == w.handoffs[h]
      unsent == {x \in DOMAIN old.sources : old.sources[x].status # "draft"}
  IN /\ Member(w, u) /\ old.stale
     /\ \/ OwnsSeat(w, u, old.receiver)
        \/ \E x \in DOMAIN old.sources : OwnsSeat(w, u, old.sources[x].sender)
        \/ Manages(w, u)
     /\ v = [w EXCEPT !.handoffs[h] =
          [old EXCEPT !.flowVersion = w.flows[old.flow].version, !.stale = FALSE,
                      !.history = @ \cup {[source |-> x, was |-> old.sources[x]] : x \in unsent},
                      !.sources = [x \in DOMAIN old.sources |->
                         IF x \in unsent THEN Unsent(old.sources[x]) ELSE old.sources[x]]]]

\* A stale hand-off is taken to the current version of its flow; what was sent must be sent again.
RefreshHandoff(w, v, u, h) ==
  LET old == w.handoffs[h]
      unsent == {x \in DOMAIN old.sources : old.sources[x].status = "pending"}
  IN /\ Member(w, u)
     /\ \/ OwnsSeat(w, u, old.receiver)
        \/ \E x \in DOMAIN old.sources : OwnsSeat(w, u, old.sources[x].sender)
        \/ Manages(w, u)
     /\ old.stale
     /\ v = [w EXCEPT !.handoffs[h] =
          [old EXCEPT
            !.flowVersion = w.flows[old.flow].version,
            !.stale = FALSE,
            !.history = @ \cup {[source |-> x, was |-> old.sources[x]] : x \in unsent},
            !.sources = [x \in DOMAIN old.sources |->
               IF x \in unsent THEN Unsent(old.sources[x]) ELSE old.sources[x]]]]

\* A hand-off to one of the seats of task t, of what the tasks in from have delivered.  A source
\* is named after its task.
ProposeHandoff(w, v, u, ids, t, receiver, from, kind, senders) ==
  /\ Member(w, u)
  /\ receiver \in w.tasks[t].seats \cup {w.tasks[t].reviewer} /\ from # {}
  /\ \A s \in from : w.tasks[s].status \in {"delivered", "accepted"} /\ w.tasks[s].files > 0
  /\ IF kind = "stage" THEN from = {t} ELSE t \notin from
  /\ w.tasks[t].status # "draft"
  /\ w.tasks[t].plan # None => w.plans[w.tasks[t].plan].status # "draft"
  /\ \A s \in from : senders[s] \in HandoffResponsibilities(w)
  /\ HasRoom(ids, w.handoffs)
  /\ v = [w EXCEPT !.handoffs = Put(@, Fresh(ids, @),
       [task |-> t, receiver |-> receiver, flow |-> "delivery", kind |-> kind,
        flowVersion |-> w.flows["delivery"].version, stale |-> FALSE, history |-> {},
        sources |-> [s \in from |->
          [task |-> s, sender |-> senders[s], revision |-> 1, status |-> "draft",
           sentBy |-> None, decidedBy |-> None, files |-> w.tasks[s].files]]])]

---------------------------------------------------------------------------
(* Tasks: start, report, accept, reopen; drafts confirmed and created. *)

Ongoing(w, t) == w.tasks[t].skip = None /\ ~w.tasks[t].discarded
PlanConfirmed(w, t) ==
  w.tasks[t].plan \in DOMAIN w.plans => w.plans[w.tasks[t].plan].status # "draft"

Moved(w, t, status) == [w EXCEPT !.tasks[t].status = status, !.tasks[t].revision = @ + 1]

\* seat is the identity the person starts the task with, None when only one can be meant.
StartTask(w, v, u, t, seat) ==
  LET held == {x \in w.tasks[t].seats : OwnsSeat(w, u, x)}
  IN /\ CanWork(w, u, t) /\ Ongoing(w, t)
     /\ IF seat = None THEN Cardinality(held) = 1 ELSE seat \in held
     /\ w.tasks[t].status \in {"ready", "rework"}
     /\ Blockers(w, t, "start") = {} /\ PlanConfirmed(w, t)
     /\ v = Moved(w, t, "working")

AcceptTask(w, v, u, t, revision) ==
  /\ CanAcceptTask(w, u, t) /\ Ongoing(w, t)
  /\ w.tasks[t].status = "delivered" /\ w.tasks[t].revision = revision
  /\ Blockers(w, t, "accept") = {} /\ PlanConfirmed(w, t)
  /\ v = Moved(w, t, "accepted")

ReopenTask(w, v, u, t) ==
  /\ CanAcceptTask(w, u, t) /\ Ongoing(w, t)
  /\ w.tasks[t].status = "accepted" /\ PlanConfirmed(w, t)
  /\ v = Moved(w, t, "rework")

\* The report itself is a file, so a reported task has one.
ReportTask(w, v, u, t) ==
  /\ CanWork(w, u, t) /\ Ongoing(w, t)
  /\ w.tasks[t].status \notin {"draft", "accepted"}
  /\ v = [Moved(WorkSubmitted(w, t, <<"report", t, w.tasks[t].revision + 1>>), t, "delivered")
            EXCEPT !.tasks[t].files = @ + 1]

---------------------------------------------------------------------------
(* Plans, drafts, and the flow the hand-offs follow. *)

\* key is what the owner was shown.
AcceptPlan(w, v, u, p, key) ==
  /\ CanOwnPlan(w, u, p)
  /\ w.plans[p].status = "active" /\ PlanTasks(w, p) # {} /\ Outstanding(w, p) = {}
  /\ PlanReviewKey(w, p) = key
  /\ v = [w EXCEPT !.plans[p].status = "accepted"]

\* activate a draft, or resume an accepted plan
ActivatePlan(w, v, u, p) ==
  /\ CanOwnPlan(w, u, p)
  /\ w.plans[p].status \in {"draft", "accepted"}
  /\ v = [w EXCEPT !.plans[p].status = "active"]

DecideDraft(w, v, u, t) ==
  /\ IF w.tasks[t].plan \in DOMAIN w.plans THEN CanOwnPlan(w, u, w.tasks[t].plan)
     ELSE Member(w, u) /\ w.members[u] = "owner"
  /\ w.tasks[t].status = "draft"
  /\ v = [w EXCEPT !.tasks[t].status = "ready"]

\* The store gives the new plan its main topic when it commits the state.
CreatePlan(w, v, u, ids, seat) ==
  /\ Member(w, u) /\ w.seats[seat].position \in DOMAIN w.positions
  /\ w.flows["delivery"].status # "draft" /\ HasRoom(ids, w.plans)
  /\ v = EnsureMainTopics([w EXCEPT !.plans = Put(@, Fresh(ids, @),
       [owner |-> seat, status |-> "draft", revision |-> 1, refs |-> {}, discarded |-> FALSE,
        by |-> u, main |-> None])])

CreateTask(w, v, u, ids, seat, plan, parent) ==
  /\ Member(w, u) /\ w.seats[seat].position \in DOMAIN w.positions
  /\ w.flows["delivery"].status # "draft" /\ HasRoom(ids, w.tasks)
  /\ plan \in DOMAIN w.plans \cup {None}
  /\ parent # None => plan # None /\ w.tasks[parent].plan = plan
  /\ v = [w EXCEPT !.tasks = Put(@, Fresh(ids, @),
       [plan |-> plan, parent |-> parent, seats |-> {seat},
        reviewer |-> IF plan = None THEN seat ELSE w.plans[plan].owner,
        status |-> "draft", revision |-> 1, reqs |-> {}, files |-> 0, skip |-> None,
        discarded |-> FALSE, by |-> u, main |-> None])]

\* Mutants of the publication: every hand-off becomes stale, or only one with a sent source.
PublishFlowAll(w, v, u, version, material) ==
  /\ Manages(w, u) /\ w.flows["delivery"].version = version
  /\ v = [w EXCEPT !.flows["delivery"].version = @ + 1,
                   !.handoffs = [h \in DOMAIN @ |->
                      IF material THEN [@[h] EXCEPT !.stale = TRUE] ELSE @[h]]]

PublishFlowSent(w, v, u, version, material) ==
  LET sent(h) == \E x \in DOMAIN h.sources : h.sources[x].status = "pending"
  IN /\ Manages(w, u) /\ w.flows["delivery"].version = version
     /\ v = [w EXCEPT !.flows["delivery"].version = @ + 1,
                      !.handoffs = [h \in DOMAIN @ |->
                        IF material /\ sent(@[h]) THEN [@[h] EXCEPT !.stale = TRUE] ELSE @[h]]]

\* A material change of the flow makes every hand-off in progress stale.
PublishFlow(w, v, u, version, material) ==
  LET open(h) == \E x \in DOMAIN h.sources : h.sources[x].status # "accepted"
  IN /\ Manages(w, u) /\ w.flows["delivery"].version = version
     /\ v = [w EXCEPT
          !.flows["delivery"].version = @ + 1,
          !.handoffs = [h \in DOMAIN @ |->
            IF material /\ open(@[h]) THEN [@[h] EXCEPT !.stale = TRUE] ELSE @[h]]]

\* definition counts the changes of the flow and its draft; until a draft is saved it is the
\* version.
Definition(f) == IF f.definition = None THEN f.version ELSE f.definition

SaveFlowDraft(w, v, u, f, definition) ==
  /\ Manages(w, u) /\ Definition(w.flows[f]) = definition
  /\ v = [w EXCEPT
       !.flows[f].definition = definition + 1,
       !.flows[f].draft = IF @ = None THEN w.flows[f].version + 1 ELSE @]

PublishFlowDraft(w, v, u, f, definition) ==
  LET flow == w.flows[f]
  IN /\ Manages(w, u) /\ flow.draft # None /\ Definition(flow) = definition
     /\ v = [w EXCEPT !.flows[f] = [@ EXCEPT
          !.version = flow.draft, !.definition = definition + 1, !.status = "published",
          !.draft = None]]

\* A new flow is published as it is entered; one taken from the library starts as a draft.
CreateFlow(w, v, u, ids, nodes) ==
  /\ Manages(w, u) /\ Len(nodes) >= 2 /\ HasRoom(ids, w.flows)
  /\ v = [w EXCEPT !.flows = Put(@, Fresh(ids, @),
       [status |-> "published", version |-> 1, definition |-> None, nodes |-> nodes,
        draft |-> None])]

\* A flow and a position of the library are known by their preset.
ImportWorkflowPresets(w, v, u, presets) ==
  /\ Manages(w, u) /\ DOMAIN presets # {}
  /\ v = [w EXCEPT !.flows = [f \in DOMAIN @ \cup DOMAIN presets |->
       IF f \in DOMAIN @ THEN @[f]
       ELSE [status |-> "draft", version |-> 1, definition |-> 1, nodes |-> presets[f],
             draft |-> 1]]]

ImportPositionPresets(w, v, u, presets) ==
  /\ Manages(w, u) /\ presets # {}
  /\ v = [w EXCEPT !.positions = [p \in DOMAIN @ \cup presets |->
       IF p \in DOMAIN @ THEN @[p] ELSE {}]]

---------------------------------------------------------------------------
(* People: positions, seats, invitations, personal prompts. *)

\* bound is empty or names one step of a flow.
SavePosition(w, v, u, ids, pos, bound) ==
  LET id == IF pos = None THEN Fresh(ids, w.positions) ELSE pos
  IN /\ Manages(w, u)
     /\ pos = None => HasRoom(ids, w.positions)
     /\ \A b \in bound : /\ b[1] \in DOMAIN w.flows /\ w.flows[b[1]].status # "draft"
                         /\ b[2] \in Nodes(w, b[1])
     /\ v = [w EXCEPT !.positions = Put(@, id, bound)]

Seated(w, ids, person, positions) ==
  LET new == CHOOSE f \in [positions -> ids \ DOMAIN w.seats] :
               \A a, b \in positions : a # b => f[a] # f[b]
  IN [x \in DOMAIN w.seats \cup {new[a] : a \in positions} |->
       IF x \in DOMAIN w.seats THEN w.seats[x]
       ELSE [position |-> CHOOSE a \in positions : new[a] = x, person |-> person]]
SeatRoom(w, ids, positions) == Cardinality(ids \ DOMAIN w.seats) >= Cardinality(positions)

InvitePerson(w, v, u, ids, person, positions) ==
  /\ Manages(w, u) /\ positions # {} /\ positions \subseteq DOMAIN w.positions
  /\ ~Member(w, person) /\ HasRoom(ids, w.invites)
  /\ \A i \in DOMAIN w.invites :
       ~(w.invites[i].person = person /\ w.invites[i].status = "pending")
  /\ v = [w EXCEPT !.invites = Put(@, Fresh(ids, @),
       [person |-> person, positions |-> positions, status |-> "pending"])]

AssignPositions(w, v, u, ids, person, positions) ==
  /\ Manages(w, u) /\ positions # {} /\ positions \subseteq DOMAIN w.positions
  /\ Member(w, person) /\ SeatRoom(w, ids, positions)
  /\ \A x \in DOMAIN w.seats : ~(w.seats[x].position \in positions /\ w.seats[x].person = person)
  /\ v = [w EXCEPT !.seats = Seated(w, ids, person, positions)]

\* Mutant of joining: the seats are taken and the person is no member.
AcceptInviteUnjoined(w, v, u, ids, i) ==
  /\ w.invites[i].person = u /\ w.invites[i].status = "pending" /\ ~Member(w, u)
  /\ SeatRoom(w, ids, w.invites[i].positions)
  /\ v = [w EXCEPT !.invites[i].status = "accepted",
                   !.seats = Seated(w, ids, u, w.invites[i].positions)]

AcceptInvite(w, v, u, ids, i) ==
  /\ w.invites[i].person = u /\ w.invites[i].status = "pending" /\ ~Member(w, u)
  /\ SeatRoom(w, ids, w.invites[i].positions)
  /\ v = [w EXCEPT !.invites[i].status = "accepted",
                   !.members = Put(@, u, "member"),
                   !.seats = Seated(w, ids, u, w.invites[i].positions)]

ReplaceSeat(w, v, u, x, from, to) ==
  /\ Manages(w, u) /\ w.seats[x].position \in DOMAIN w.positions
  /\ w.seats[x].person = from /\ to # from /\ Member(w, to)
  /\ v = [w EXCEPT !.seats[x].person = to]

\* A personal prompt belongs to a person and a position, whatever seat it is held by.
PersonalPrompt(w, v, u, pos, revision) ==
  /\ Member(w, u) /\ pos \in MyPositions(w, u) /\ PromptRevision(w, u, pos) = revision
  /\ v = [w EXCEPT !.prompts = Put(@, <<u, pos>>, revision + 1)]
=============================================================================
