---------------------------- MODULE DeliveryBoard ----------------------------
(***************************************************************************)
(* Delivering work in the preview: the people of a project start, report   *)
(* and accept tasks, and hand results over in sources that are sent,       *)
(* decided and revised one by one, while the manager publishes the flow    *)
(* they are made under.                                                    *)
(*                                                                         *)
(* Each step is one action of the store (demoStore.tsx act), done where a  *)
(* page offers it.  A task is accepted through a dialog that keeps what it *)
(* showed when it was opened.                                              *)
(***************************************************************************)
EXTENDS DeliveryPages

CONSTANTS
  Start,         \* the work state the store is loaded with
  HandoffIds,    \* bound: fresh hand-offs
  ActivityIds,   \* bound: fresh activities
  Changes,       \* bound: later revisions of tasks and sources and new hand-offs, together
  Asides         \* bound: publications of the flow and open dialogs, together

VARIABLES
  work,          \* the store's state
  dialog,        \* the open acceptance dialog of every person, None when there is none
  material       \* history: the last version of the flow with a material change

vars == <<work, dialog, material>>

People == DOMAIN Start.members

Init == work = Start /\ dialog = [u \in People |-> None] /\ material = 0

\* What keeps TLC's instance finite.
Sources(w) == UNION {{h} \X DOMAIN w.handoffs[h].sources : h \in DOMAIN w.handoffs}
Later(revision) == UNION {{i} \X (2..revision[i]) : i \in DOMAIN revision}
WithinBounds(w, d) ==
  /\ Cardinality(Later([t \in DOMAIN w.tasks |-> w.tasks[t].revision]))
       + Cardinality(Later([e \in Sources(w) |-> w.handoffs[e[1]].sources[e[2]].revision]))
       + Cardinality(DOMAIN w.handoffs \ DOMAIN Start.handoffs) <= Changes
  /\ w.flows["delivery"].version - Start.flows["delivery"].version
       + Cardinality({u \in People : d[u] # None}) <= Asides

Act(step) == step /\ UNCHANGED <<dialog, material>> /\ WithinBounds(work', dialog')

SourceOf(h) == DOMAIN work.handoffs[h].sources
Shown(h, x) == work.handoffs[h].sources[x].revision

Pending(u, op) ==
  {e \in Sources(work) : op \in Contribution(work, u, e[1], e[2])}

Decide(u) == \E e \in Pending(u, "receive"), d \in {"accepted", "rejected"} :
  Act(SourceDecision(work, work', u, e[1], e[2], Shown(e[1], e[2]), d))
Revise(u) == \E e \in Pending(u, "revise") :
  \E files \in RevisionFiles(work, u, work.handoffs[e[1]].sources[e[2]].task) :
    Act(ReviseSource(work, work', u, e[1], e[2], Shown(e[1], e[2]), files))
Send(u) == \E e \in Pending(u, "send") :
  Act(SendSource(work, work', u, e[1], e[2], Shown(e[1], e[2])))
Refresh(u) == \E h \in DOMAIN work.handoffs :
  RefreshOffered(work, u, h) /\ Act(RefreshHandoff(work, work', u, h))

\* No sender but the default is picked.
Propose(u) == \E t \in DOMAIN work.tasks :
  \E d \in Offers(HasRoom(HandoffIds, work.handoffs), HandoffDialog(work, u, t)) :
  \E senders \in Senders(work, u, d.from, <<>>) :
    Act(ProposeHandoff(work, work', u, HandoffIds, d.target, d.receiver, d.from, d.kind, senders))

StartWork(u) == \E t \in DOMAIN work.tasks : \E x \in TaskStart(work, u, t) :
  Act(StartTask(work, work', u, t, x))
Progress(u) == \E t \in DOMAIN work.tasks :
  \E x \in Offers(HasRoom(ActivityIds, work.activities), TaskActivity(work, u, t, "progress")) :
    Act(RecordProgress(work, work', u, ActivityIds, t, work.tasks[t].revision, x))
Deliver(u) == \E t \in DOMAIN work.tasks :
  \E x \in Offers(HasRoom(ActivityIds, work.activities), TaskActivity(work, u, t, "delivery")) :
    Act(RecordDelivery(work, work', u, ActivityIds, t, work.tasks[t].revision, x))
Reopen(u) == \E t \in DOMAIN work.tasks :
  "reopen" \in TaskMore(work, u, t) /\ Act(ReopenTask(work, work', u, t))
\* A task can also be reported without its record; no page of the preview does.
Report(u) == \E t \in DOMAIN work.tasks : Act(ReportTask(work, work', u, t))

\* The acceptance dialog freezes the task it shows (DemoAcceptanceDialog).
OpenAcceptance(u) == \E t \in DOMAIN work.tasks :
  /\ AcceptanceOffered(work, u, t) /\ dialog[u] = None
  /\ dialog' = [dialog EXCEPT ![u] = TaskReview(work, t)]
  /\ UNCHANGED <<work, material>> /\ WithinBounds(work', dialog')
CloseAcceptance(u) ==
  /\ dialog[u] # None
  /\ dialog' = [dialog EXCEPT ![u] = None]
  /\ UNCHANGED <<work, material>>
ConfirmAcceptance(u) ==
  /\ dialog[u] # None /\ ~TaskChanged(work, dialog[u])
  /\ AcceptTask(work, work', u, dialog[u].task, dialog[u].revision)
  /\ dialog' = [dialog EXCEPT ![u] = None]
  /\ UNCHANGED material /\ WithinBounds(work', dialog')

Publish(u) == \E isMaterial \in BOOLEAN, version \in FlowEditor(work, u) :
  /\ PublishFlow(work, work', u, version, isMaterial)
  /\ material' = IF isMaterial THEN work'.flows["delivery"].version ELSE material
  /\ UNCHANGED dialog /\ WithinBounds(work', dialog')

Next == \E u \in People :
  \/ Decide(u) \/ Revise(u) \/ Send(u) \/ Refresh(u) \/ Propose(u)
  \/ StartWork(u) \/ Report(u) \/ Progress(u) \/ Deliver(u) \/ Reopen(u)
  \/ OpenAcceptance(u) \/ CloseAcceptance(u) \/ ConfirmAcceptance(u)
  \/ Publish(u)

Spec == Init /\ [][Next]_vars

---------------------------------------------------------------------------

\* A task that was started or accepted behind a hand-off stays behind a hand-off that was received
\* in full: neither a new version of the flow nor a refresh takes an acceptance back.
BehindReceipt(w, t, r) ==
  /\ r.kind = "receipt" /\ r.hard
  /\ \/ w.tasks[t].status = "working" /\ r.at \in {"both", "start"}
     \/ w.tasks[t].status = "accepted" /\ r.at \in {"both", "accept"}
ReceiptsStand(w) ==
  \A t \in DOMAIN w.tasks : \A r \in w.tasks[t].reqs :
    BehindReceipt(w, t, r) => RequirementMet(w, t, r)
ReceiptStands == ReceiptsStand(work)

\* What a stored state looks like, as far as deliveries depend on it: the fields that are written
\* are there, versions are numbers, and a hand-off has sources and follows the delivery flow.
Shaped(w) ==
  /\ {"tasks", "handoffs", "flows"} \subseteq DOMAIN w
  /\ \A t \in DOMAIN w.tasks :
       /\ {"status", "revision", "files", "reqs"} \subseteq DOMAIN w.tasks[t]
       /\ w.tasks[t].revision \in Nat /\ w.tasks[t].files \in Nat
  /\ "delivery" \in DOMAIN w.flows /\ "version" \in DOMAIN w.flows["delivery"]
  /\ w.flows["delivery"].version \in Nat
  /\ \A h \in DOMAIN w.handoffs :
       /\ {"sources", "history", "stale", "flow", "flowVersion"} \subseteq DOMAIN w.handoffs[h]
       /\ w.handoffs[h].flow = "delivery" /\ w.handoffs[h].flowVersion \in Nat
       /\ w.handoffs[h].stale \in BOOLEAN
       /\ DOMAIN w.handoffs[h].sources # {}
       /\ \A x \in DOMAIN w.handoffs[h].sources :
            /\ {"task", "status", "revision", "sentBy", "decidedBy", "files"}
                 \subseteq DOMAIN w.handoffs[h].sources[x]
            /\ w.handoffs[h].sources[x].task \in DOMAIN w.tasks

ASSUME StartAssumption == Shaped(Start) /\ ReceiptsStand(Start)

\* No source can be decided under instructions that a material publication has replaced since:
\* a hand-off left on an older version is stale or was received before.
NoOutdatedDecision ==
  \A h \in DOMAIN work.handoffs :
    work.handoffs[h].flowVersion < material => work.handoffs[h].stale \/ Received(work.handoffs[h])

\* A decision on a source is never lost: an accepted source stays as it is, and whatever else
\* replaces a decided or sent version leaves that version in the history of the hand-off.
DecisionsOnRecord ==
  [][\A h \in DOMAIN work.handoffs : \A x \in SourceOf(h) :
       LET old == work.handoffs[h].sources[x]
           new == work'.handoffs[h].sources[x]
       IN /\ old.status = "accepted" => new = old
          /\ old.status # "draft" /\ new # old
               => [source |-> x, was |-> old] \in work'.handoffs[h].history
          /\ work.handoffs[h].history \subseteq work'.handoffs[h].history]_vars

\* An accepted task is only taken back by the person who may accept it reopening it; a late
\* report, revision or rejection does not.
AcceptedOnlyReopened ==
  [][\A t \in DOMAIN work.tasks :
       work.tasks[t].status = "accepted" /\ work'.tasks[t].status # "accepted"
         => \E u \in People : ReopenTask(work, work', u, t)]_vars

\* A hand-off never comes to a dead end: until it is received in full it is listed to some person
\* as his to receive or revise and offers him a step that its action then performs, or the
\* accepted task a rejected source belongs to can be reopened by its reviewer.
Mine(u, h) == Delivery(work, u, h, "receive") \/ Delivery(work, u, h, "revise")
Moves(u, h) ==
  \/ Mine(u, h) /\ RefreshOffered(work, u, h) /\ RefreshHandoff(work, work', u, h)
  \/ \E x \in SourceOf(h) :
       LET steps == Offers(Mine(u, h) /\ ~work.handoffs[h].stale, Contribution(work, u, h, x))
           task == work.handoffs[h].sources[x].task
       IN \/ "receive" \in steps /\ SourceDecision(work, work', u, h, x, Shown(h, x), "accepted")
          \/ "send" \in steps /\ SendSource(work, work', u, h, x, Shown(h, x))
          \/ "revise" \in steps /\ ReviseSource(work, work', u, h, x, Shown(h, x), 0)
          \/ "reopen" \in TaskMore(work, u, task) /\ ReopenTask(work, work', u, task)
HandoffsMove ==
  \A h \in DOMAIN work.handoffs :
    Received(work.handoffs[h]) \/ ENABLED (\E u \in People : Moves(u, h))

\* A task is accepted with the files its reviewer was shown, though others hand in and revise
\* while the dialog is open.
AcceptedAsReviewed ==
  [][\A t \in DOMAIN work.tasks :
       work.tasks[t].status # "accepted" /\ work'.tasks[t].status = "accepted"
         => \E u \in People : /\ dialog[u] # None /\ dialog[u].task = t
                              /\ dialog[u].files = work'.tasks[t].files]_vars
=============================================================================
