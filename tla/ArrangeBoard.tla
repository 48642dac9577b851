----------------------------- MODULE ArrangeBoard -----------------------------
(***************************************************************************)
(* Arranging work in the preview: drafts are revised, discarded and        *)
(* confirmed; confirmed work is changed by proposals that its people       *)
(* vote on, or skipped with waivers for the tasks behind it; and the owner *)
(* accepts the plan, while seats change hands.                             *)
(*                                                                         *)
(* A plan is accepted through a dialog that keeps what it showed.  The     *)
(* dialog of a task does the same and is part of DeliveryBoard; here a     *)
(* delivered task is accepted as it is.                                    *)
(***************************************************************************)
EXTENDS WorkPages

CONSTANTS
  Start,         \* the work state the store is loaded with
  ProposalIds,   \* bound: fresh proposals
  ActivityIds,   \* bound: fresh records of work
  Edits(_, _),   \* what a person puts into the fields of a plan or task
  Successors,    \* the people seats are handed to
  Changes,       \* bound: later revisions of plans and tasks and seats that changed hands, together
  Asides         \* bound: pending proposals and open dialogs, together

VARIABLES
  work,          \* the store's state
  review         \* the open acceptance dialog of every person, None when there is none

vars == <<work, review>>

Members == DOMAIN Start.members

Init == work = Start /\ review = [u \in Members |-> None]

\* What keeps TLC's instance finite.
Later(f) == UNION {{i} \X (2..f[i].revision) : i \in DOMAIN f}
WithinBounds(w, d) ==
  /\ Cardinality(Later(w.plans)) + Cardinality(Later(w.tasks))
       + Cardinality({x \in DOMAIN w.seats : w.seats[x] # Start.seats[x]}) <= Changes
  /\ Cardinality({p \in DOMAIN w.proposals : w.proposals[p].status = "pending"})
       + Cardinality({u \in Members : d[u] # None}) <= Asides

Act(step) == step /\ UNCHANGED review /\ WithinBounds(work', review')

Works == ({"plan"} \X DOMAIN work.plans) \cup ({"task"} \X DOMAIN work.tasks)

Draft(u) == \E o \in Works : \E fields \in Edits(work, o) :
  /\ EditForm(work, u, o) = "update"
  /\ Act(UpdateDraft(work, work', u, o[1], o[2], Object(work, o[1], o[2]).revision, fields))
Change(u) == \E o \in Works : \E fields \in Edits(work, o) :
  /\ EditForm(work, u, o) = "propose"
  /\ Act(ProposeWorkChange(work, work', u, ProposalIds, o[1], o[2],
                           Object(work, o[1], o[2]).revision, fields))
Discard(u) == \E o \in Works :
  /\ "delete" \in ConfirmForm(work, u, o)
  /\ Act(DiscardWork(work, work', u, o[1], o[2], DiscardReview(work, o[1], o[2])))

ConfirmTask(u) == \E t \in DOMAIN work.tasks :
  /\ "approve" \in TaskMore(work, u, t) \cup {TaskButton(work, u, t)}
  /\ Act(DecideDraft(work, work', u, t))
ConfirmPlan(u) == \E p \in DOMAIN work.plans :
  PlanRoute(work, u, p) \cap {"activate", "resume"} # {} /\ Act(ActivatePlan(work, work', u, p))

Skip(u) == \E t \in DOMAIN work.tasks :
  /\ "skip" \in ConfirmForm(work, u, <<"task", t>>)
  /\ LET shown == ExecutionReview(work, t)
     IN \E waivers \in SUBSET Waivable(shown) : Act(SkipTask(work, work', u, t, shown, waivers))
Restore(u) == \E t \in DOMAIN work.tasks :
  /\ "restore" \in ConfirmForm(work, u, <<"task", t>>)
  /\ Act(RestoreTask(work, work', u, t, ExecutionReview(work, t), TRUE))

Vote(u) == \E p \in DOMAIN work.proposals :
  /\ "approve" \in ProposalCard(work, u, p)
  /\ Act(ApproveProposal(work, work', u, {}, {}, p, work.proposals[p].revision))
Refuse(u) == \E p \in DOMAIN work.proposals :
  /\ "reject" \in ProposalCard(work, u, p)
  /\ Act(RejectProposal(work, work', u, p, work.proposals[p].revision))
Replace(u) == \E x \in DOMAIN work.seats : \E to \in ReplaceDialog(work, u, x) \cap Successors :
  Act(ReplaceSeat(work, work', u, x, work.seats[x].person, to))

Begin(u) == \E t \in DOMAIN work.tasks : \E x \in TaskStart(work, u, t) :
  Act(StartTask(work, work', u, t, x))
Deliver(u) == \E t \in DOMAIN work.tasks : \E x \in TaskActivity(work, u, t, "delivery") :
  Act(RecordDelivery(work, work', u, ActivityIds, t, work.tasks[t].revision, x))
Accept(u) == \E t \in DOMAIN work.tasks :
  AcceptanceOffered(work, u, t) /\ Act(AcceptTask(work, work', u, t, work.tasks[t].revision))

OpenReview(u) == \E p \in DOMAIN work.plans :
  /\ "accept" \in PlanRoute(work, u, p) \cup Offers(PlanWaits(work, u, p), {"accept"})
  /\ review[u] = None
  /\ review' = [review EXCEPT ![u] = PlanReview(work, p)]
  /\ UNCHANGED work /\ WithinBounds(work', review')
CloseReview(u) ==
  review[u] # None /\ review' = [review EXCEPT ![u] = None] /\ UNCHANGED work
ConfirmReview(u) ==
  /\ review[u] # None /\ ~PlanChanged(work, review[u])
  /\ AcceptPlan(work, work', u, review[u].plan, review[u].key)
  /\ review' = [review EXCEPT ![u] = None]

Next == \E u \in Members :
  \/ Draft(u) \/ Change(u) \/ Discard(u) \/ ConfirmTask(u) \/ ConfirmPlan(u)
  \/ Skip(u) \/ Restore(u) \/ Vote(u) \/ Refuse(u) \/ Replace(u)
  \/ Begin(u) \/ Deliver(u) \/ Accept(u)
  \/ OpenReview(u) \/ CloseReview(u) \/ ConfirmReview(u)

Spec == Init /\ [][Next]_vars

---------------------------------------------------------------------------

\* A condition is only waived while the task it waits for is skipped and the exception in force
\* names it as it is written; a condition taken over from a skipped task goes with the exception.
WaiversStand(w) ==
  \A t \in DOMAIN w.tasks : \A r \in w.tasks[t].reqs :
    /\ r.waived /\ r.from = None => /\ r.ref \in DOMAIN w.tasks /\ w.tasks[r.ref].skip # None
                                    /\ Waives(w.tasks[r.ref].skip, t, Plain(r))
    /\ r.from # None => r.from \in DOMAIN w.tasks /\ w.tasks[r.from].skip # None
WaiverStands == WaiversStand(work)

\* What blocks a task once the exceptions in force are worked out: its own conditions that are not
\* released, and, for each one that is, the hard unreleased conditions of every skipped task that
\* released conditions lead to from there without coming back to the task itself.
Blocking(r, at) == [id |-> r.id, kind |-> r.kind, ref |-> r.ref, at |-> at]
Chain(w, c, s) ==
  LET raw == Written(w)
      closed(S) == \A x \in S : \A q \in raw[x] : Excepted(w, x, q) /\ q.ref # c => q.ref \in S
  IN {x \in DOMAIN w.tasks : \A S \in SUBSET DOMAIN w.tasks : s \in S /\ closed(S) => x \in S}
Binding(w, c) ==
  LET unreleased(x) == {r \in Written(w)[x] : r.hard /\ ~Excepted(w, x, r)}
      released == {r \in Written(w)[c] : Excepted(w, c, r) /\ r.ref # c}
      behind(r) == UNION {{Blocking(q, r.at) : q \in unreleased(s)} : s \in Chain(w, c, r.ref)}
  IN {Blocking(r, r.at) : r \in unreleased(c)} \cup UNION {behind(r) : r \in released}

\* Skipping and restoring leave every task behind exactly the conditions that still bind it,
\* through chains of skipped tasks and around cycles.
ExceptionsWorkedOut ==
  [][(\E t \in DOMAIN work.tasks : work'.tasks[t].skip # work.tasks[t].skip) =>
       \A c \in DOMAIN work'.tasks :
         {Blocking(q, q.at) : q \in {e \in work'.tasks[c].reqs : e.hard /\ ~e.waived}}
           = Binding(work', c)]_vars

\* When a change takes effect, everyone who holds a seat it binds has voted for it, though seats
\* change hands between the votes, and the work is still the version the change was made for.
ApprovedByHolders ==
  [][\A p \in DOMAIN work.proposals :
       LET q == work.proposals[p]
       IN q.status = "pending" /\ work'.proposals[p].status = "approved"
            => /\ {SeatPerson(work, b[1]) : b \in q.bindings} \ {None}
                    \subseteq work'.proposals[p].votes
               /\ q.target # None =>
                    Object(work, q.target[1], q.target[2]).revision = q.version]_vars

\* A plan is accepted with the results its owner was shown, none of them open.
PlanAcceptedAsReviewed ==
  [][\A p \in DOMAIN work.plans :
       work.plans[p].status = "active" /\ work'.plans[p].status = "accepted" =>
         /\ \E u \in Members : /\ review[u] # None /\ review[u].plan = p
                               /\ review[u].files = PlanReview(work, p).files
         /\ ~NeedsReview(work', p)]_vars

\* What a stored state looks like, as far as arrangements depend on it: the fields that are written
\* are there, and whoever holds a bound seat is asked.
Asked(q) ==
  /\ {"status", "approvers", "bindings", "votes", "target"} \subseteq DOMAIN q
  /\ People(q.bindings) \subseteq q.approvers
Stored(w) ==
  /\ {"seats", "plans", "tasks", "proposals"} \subseteq DOMAIN w
  /\ \A p \in DOMAIN w.plans : "status" \in DOMAIN w.plans[p]
  /\ \A t \in DOMAIN w.tasks :
       /\ {"revision", "files", "reqs", "skip"} \subseteq DOMAIN w.tasks[t]
       /\ w.tasks[t].revision \in Nat
       /\ \A r \in w.tasks[t].reqs : {"waived", "from"} \subseteq DOMAIN r
  /\ None \notin DOMAIN w.tasks /\ IsFiniteSet(DOMAIN w.tasks)
  /\ \A p \in DOMAIN w.proposals : Asked(w.proposals[p])

ASSUME StartAssumption == Stored(Start) /\ WaiversStand(Start)
=============================================================================
