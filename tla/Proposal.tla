----------------------------- MODULE Proposal ------------------------------
(***************************************************************************)
(* Proposals and their reviews, internal/decision, with the part of        *)
(* internal/work that applies a change group: drafting, submission, the    *)
(* decisions on the seats, the countdown that the first approval starts,   *)
(* application in a savepoint, revision, and the withdrawal of reviews     *)
(* whose drafts were edited.                                               *)
(*                                                                         *)
(* Every command runs in one transaction under the row lock of the project *)
(* (LockActiveProject), so it is one action, guarded by `active`.  The     *)
(* timer of a review is a background job: it is delivered at least once.   *)
(* An early return that changes nothing (wrong hash, version or requester) *)
(* is a step that is not taken.  Who holds a seat is left open: any set of *)
(* open seats may be answered together.                                    *)
(***************************************************************************)
EXTENDS Naturals

CONSTANTS
  Proposals,
  Objects,       \* plans and tasks that exist from the start
  Seats,         \* approval seats (identities, or the owner's user seat)
  Contents,      \* the change groups that may be drafted
  MaxRevision,   \* bound: revisions per proposal
  MaxEdits,      \* bound: changes of work objects and workflow rules outside reviews
  MaxArchives    \* bound: how often the project is archived

Ops == {"none", "update", "activate", "cancel"}
Phases == {"draft", "active", "accepted", "cancelled"}
Closed == {"accepted", "cancelled"}

ASSUME ContentsAssumption ==
  Contents \subseteq [op    : [Objects -> Ops],   \* the change made to each object
                      refs  : SUBSET Objects,     \* objects named without a version
                      plans : SUBSET Objects,     \* plans that new tasks are put in
                      flow  : BOOLEAN]            \* a workflow constrains the group
ASSUME BoundsAssumption == MaxRevision \in Nat /\ MaxEdits \in Nat /\ MaxArchives \in Nat

Reviews == Proposals \X (1..MaxRevision)

VARIABLES
  active,      \* the project is active, not archived
  archives,    \* archivals so far
  edits,       \* edits so far
  status,      \* proposals.status, "none" before CreateDraft
  rev,         \* the highest revision, 0 before CreateDraft
  cur,         \* the revision of current_review_id, 0 for NULL
  content,     \* proposal_versions.changes_json
  expected,    \* the ExpectedVersion of every change in it
  flowSeen,    \* review_manifest_json: the workflow constraints frozen at submission
  shown,       \* history: the versions of the objects at submission
  votes,       \* approval_slots.state
  first,       \* first_approval_at is set
  deadline,    \* deadline_at is set
  overdue,     \* the moment first_approval_at + timeout has passed
  timer,       \* the job proposal.timeout: none, queued or over
  applied,     \* history: how often the change group was applied
  version,     \* the version of every object
  phase,       \* its status; ready, working, delivered and rework tasks count as active
  flow         \* counts the changes of the workflow rules

projectVars == <<active, archives, edits>>
draftVars == <<rev, content, expected>>
frozenVars == <<flowSeen, shown>>
countdownVars == <<first, overdue, timer>>
workVars == <<version, phase>>
vars == <<projectVars, status, cur, draftVars, frozenVars, votes, deadline, countdownVars,
          applied, workVars, flow>>

Statuses == {"none", "draft", "pending", "approved", "stale", "cancelled"}
Votes == {"none", "pending", "approved", "delegated", "timeout", "rejected"}
NoContent == [op |-> [o \in Objects |-> "none"], refs |-> {}, plans |-> {}, flow |-> FALSE]

Current(p) == <<p, cur[p]>>
Targets(c) == {o \in Objects : c.op[o] # "none"}
Mentions(c) == Targets(c) \cup c.refs \cup c.plans
Open(r) == {s \in Seats : votes[r][s] = "pending"}
Due(r) == deadline[r] /\ overdue[r]

Mark(r, S, v) == votes' = [votes EXCEPT ![r] = [s \in Seats |-> IF s \in S THEN v ELSE @[s]]]

----------------------------------------------------------------------------
(* Application of a change group.                                          *)

PhaseAfter(op, ph) == CASE op = "activate" -> "active"
                        [] op = "cancel" -> "cancelled"
                        [] OTHER -> ph

\* A group that is applied without comparing versions.
FreshUnversioned(r) ==
  LET c == content[r] IN
  /\ \A o \in Targets(c) : phase[o] \notin Closed /\ (c.op[o] = "activate" => phase[o] = "draft")
  /\ \A o \in c.plans : phase[o] = "active"
  /\ c.flow => flowSeen[r] = flow

\* Every change of the group still applies (change_policy.go and the workflow hashes).
Fresh(r) ==
  LET c == content[r] IN
  /\ \A o \in Targets(c) : /\ expected[r][o] = version[o]
                           /\ phase[o] \notin Closed
                           /\ c.op[o] = "activate" => phase[o] = "draft"
  /\ \A o \in c.plans : phase[o] = "active"
  /\ c.flow => flowSeen[r] = flow

\* A withdrawal that overlooks the proposals under decision.
WithdrawableNotPending == {"draft", "stale"}

Withdrawable == {"draft", "pending", "stale"}

\* withdrawDraftReviews: the proposals whose current review names one of the drafts.
Withdrawn(drafts, applying) ==
  {q \in Proposals : /\ status[q] \in Withdrawable /\ cur[q] # 0 /\ Current(q) # applying
                     /\ Mentions(content[Current(q)]) \cap drafts # {}}

CancelAll(Q, st) == [q \in Proposals |-> IF q \in Q THEN "cancelled" ELSE st[q]]

\* applyReviewed for review r of proposal p, dl being the deadlines this transaction has set:
\* the whole group and the approval, or nothing of it and the proposal stale.
ApplyReviewed(p, r, dl) ==
  IF Fresh(r)
    THEN LET c == content[r]
             drafts == {o \in Targets(c) : phase[o] = "draft"} IN
         /\ version' = [o \in Objects |-> IF o \in Targets(c) THEN version[o] + 1 ELSE version[o]]
         /\ phase' = [o \in Objects |-> PhaseAfter(c.op[o], phase[o])]
         /\ applied' = [applied EXCEPT ![r] = @ + 1]
         /\ status' = [CancelAll(Withdrawn(drafts, r), status) EXCEPT ![p] = "approved"]
         /\ deadline' = dl
    ELSE /\ status' = [status EXCEPT ![p] = "stale"]
         /\ deadline' = [dl EXCEPT ![r] = FALSE]
         /\ UNCHANGED <<applied, workVars>>

\* SettleTimeout for the review the caller names: silence becomes consent, the group applies.
SettleTimeout(p, r) ==
  IF status[p] = "pending" /\ Due(r)
    THEN Mark(r, Open(r), "timeout") /\ ApplyReviewed(p, r, deadline)
    ELSE UNCHANGED <<votes, status, deadline, applied, workVars>>

----------------------------------------------------------------------------
(* Commands.                                                               *)

Init == /\ active = TRUE /\ archives = 0 /\ edits = 0
        /\ status = [p \in Proposals |-> "none"]
        /\ rev = [p \in Proposals |-> 0]
        /\ cur = [p \in Proposals |-> 0]
        /\ content = [r \in Reviews |-> NoContent]
        /\ expected = [r \in Reviews |-> [o \in Objects |-> 0]]
        /\ flowSeen = [r \in Reviews |-> 0]
        /\ shown = [r \in Reviews |-> [o \in Objects |-> 0]]
        /\ votes = [r \in Reviews |-> [s \in Seats |-> "none"]]
        /\ first = [r \in Reviews |-> FALSE]
        /\ deadline = [r \in Reviews |-> FALSE]
        /\ overdue = [r \in Reviews |-> FALSE]
        /\ timer = [r \in Reviews |-> "none"]
        /\ applied = [r \in Reviews |-> 0]
        /\ version = [o \in Objects |-> 1]
        /\ phase \in [Objects -> {"draft", "active"}]
        /\ flow = 0

\* A new revision with the change group c, drafted against the versions of this moment.
NewRevision(p, c) ==
  /\ rev[p] < MaxRevision
  /\ rev' = [rev EXCEPT ![p] = @ + 1]
  /\ content' = [content EXCEPT ![<<p, rev[p] + 1>>] = c]
  /\ expected' = [expected EXCEPT ![<<p, rev[p] + 1>>] = version]
  /\ status' = [status EXCEPT ![p] = "draft"]
  /\ cur' = [cur EXCEPT ![p] = 0]
  /\ UNCHANGED <<projectVars, frozenVars, votes, deadline, countdownVars, applied, workVars, flow>>

CreateDraft(p, c) == active /\ status[p] = "none" /\ NewRevision(p, c)

\* UpdateDraft is CreateRevision on a draft.
UpdateDraft(p, c) == active /\ status[p] = "draft" /\ NewRevision(p, c)

\* Anything but a pending proposal may be revised, an approved one too.
CreateRevision(p, c) == active /\ status[p] \in {"approved", "stale", "cancelled"} /\ NewRevision(p, c)

\* Submit freezes the latest revision and opens its seats; there is always at least one.
Submit(p, S) ==
  /\ active /\ status[p] = "draft" /\ S # {}
  /\ LET r == <<p, rev[p]>> IN
     /\ Mark(r, S, "pending")
     /\ flowSeen' = [flowSeen EXCEPT ![r] = flow]
     /\ shown' = [shown EXCEPT ![r] = version]
  /\ status' = [status EXCEPT ![p] = "pending"]
  /\ cur' = [cur EXCEPT ![p] = rev[p]]
  /\ UNCHANGED <<projectVars, draftVars, deadline, countdownVars, applied, workVars, flow>>

\* The open seats counted before this decision is subtracted.
CompletesBefore(r, S) == Open(r) = {}

\* The first consent settles the review for everybody.
CompletesAny(r, S) == S # {}

\* No seat stays open after the decision on S.
Completes(r, S) == Open(r) \subseteq S

\* The job only for a review that one decision has not settled.
TimersAfterLast(r, S) == IF Completes(r, S) THEN [timer EXCEPT ![r] = "queued"] ELSE timer

\* The job proposal.timeout is enqueued with the first approval.
TimersAfter(r, S) == IF first[r] THEN timer ELSE [timer EXCEPT ![r] = "queued"]

\* Consent to the open seats S of the pending review, before its deadline.
Consent(p, S, v) ==
  /\ active /\ status[p] = "pending"
  /\ LET r == Current(p)
         dl == IF first[r] THEN deadline ELSE [deadline EXCEPT ![r] = TRUE] IN
     /\ ~Due(r)
     /\ S # {} /\ S \subseteq Open(r)
     /\ Mark(r, S, v)
     /\ first' = [first EXCEPT ![r] = TRUE]
     /\ timer' = TimersAfter(r, S)
     /\ IF Completes(r, S)
          THEN ApplyReviewed(p, r, dl)
          ELSE deadline' = dl /\ UNCHANGED <<status, applied, workVars>>
  /\ UNCHANGED <<projectVars, cur, draftVars, frozenVars, overdue, flow>>

Approve(p, S) == Consent(p, S, "approved")

Delegate(p, S) == Consent(p, S, "delegated")

\* A rejection that leaves the countdown of its review running.
DeadlineKept(r) == deadline

DeadlineCleared(r) == [deadline EXCEPT ![r] = FALSE]

Reject(p, S) ==
  /\ active /\ status[p] = "pending"
  /\ LET r == Current(p) IN
     /\ ~Due(r)
     /\ S # {} /\ S \subseteq Open(r)
     /\ Mark(r, S, "rejected")
     /\ deadline' = DeadlineCleared(r)
  /\ status' = [status EXCEPT ![p] = "cancelled"]
  /\ UNCHANGED <<projectVars, cur, draftVars, frozenVars, countdownVars, applied, workVars, flow>>

\* Decide or Delegate after the deadline settles the timeout instead.
LateDecision(p) ==
  /\ active /\ status[p] = "pending" /\ Due(Current(p))
  /\ SettleTimeout(p, Current(p))
  /\ UNCHANGED <<projectVars, cur, draftVars, frozenVars, countdownVars, flow>>

\* first_approval_at + timeout passes.
Elapse(r) ==
  /\ first[r] /\ ~overdue[r]
  /\ overdue' = [overdue EXCEPT ![r] = TRUE]
  /\ UNCHANGED <<projectVars, status, cur, draftVars, frozenVars, votes, deadline, first, timer,
                 applied, workVars, flow>>

\* The job runs: it settles the review it was enqueued for, and may be delivered again.  On an
\* archived project the lock answers INVALID_TRANSITION, which ends the job without a retry.
TimerFires(p, k) ==
  LET r == <<p, k>> IN
  /\ timer[r] = "queued" /\ overdue[r]
  /\ IF active
       THEN /\ SettleTimeout(p, r)
            /\ \E t \in {"queued", "over"} : timer' = [timer EXCEPT ![r] = t]
       ELSE /\ timer' = [timer EXCEPT ![r] = "over"]
            /\ UNCHANGED <<votes, status, deadline, applied, workVars>>
  /\ UNCHANGED <<projectVars, cur, draftVars, frozenVars, first, overdue, flow>>

----------------------------------------------------------------------------
(* The rest of the project, as far as reviews see it.                      *)

Edit == edits < MaxEdits /\ edits' = edits + 1

\* work.UpdateDraft and Discard: a draft changes, the reviews that name it are withdrawn.
EditDraft(o, ph) ==
  /\ active /\ phase[o] = "draft" /\ ph \in {"draft", "cancelled"}
  /\ Edit
  /\ version' = [version EXCEPT ![o] = @ + 1]
  /\ phase' = [phase EXCEPT ![o] = ph]
  /\ status' = CancelAll(Withdrawn({o}, <<>>), status)
  /\ UNCHANGED <<active, archives, cur, draftVars, frozenVars, votes, deadline, countdownVars,
                 applied, flow>>

\* Execution and acceptance move active work on, and accepted work is reopened.
WorkMoves(o, ph) ==
  /\ active
  /\ \/ phase[o] = "active" /\ ph \in {"active", "accepted"}
     \/ phase[o] = "accepted" /\ ph = "active"
  /\ Edit
  /\ version' = [version EXCEPT ![o] = @ + 1]
  /\ phase' = [phase EXCEPT ![o] = ph]
  /\ UNCHANGED <<active, archives, status, cur, draftVars, frozenVars, votes, deadline,
                 countdownVars, applied, flow>>

\* A workflow that groups refer to gets other constraints.
FlowChanges ==
  /\ active
  /\ Edit
  /\ flow' = flow + 1
  /\ UNCHANGED <<active, archives, status, cur, draftVars, frozenVars, votes, deadline,
                 countdownVars, applied, workVars>>

Archive ==
  /\ active /\ archives < MaxArchives
  /\ active' = FALSE /\ archives' = archives + 1
  /\ UNCHANGED <<edits, status, cur, draftVars, frozenVars, votes, deadline, countdownVars,
                 applied, workVars, flow>>

Restore ==
  /\ ~active
  /\ active' = TRUE
  /\ UNCHANGED <<archives, edits, status, cur, draftVars, frozenVars, votes, deadline,
                 countdownVars, applied, workVars, flow>>

Next == \/ \E p \in Proposals : \/ \E c \in Contents : \/ CreateDraft(p, c)
                                                       \/ UpdateDraft(p, c)
                                                       \/ CreateRevision(p, c)
                                \/ \E S \in SUBSET Seats : \/ Submit(p, S)
                                                           \/ Approve(p, S)
                                                           \/ Delegate(p, S)
                                                           \/ Reject(p, S)
                                \/ LateDecision(p)
                                \/ \E k \in 1..MaxRevision : TimerFires(p, k)
        \/ \E r \in Reviews : Elapse(r)
        \/ \E o \in Objects, ph \in Phases : EditDraft(o, ph) \/ WorkMoves(o, ph)
        \/ FlowChanges \/ Archive \/ Restore

\* Time passes, the job engine delivers a due job (JobQueue!Drains), and an archived project
\* that has been archived for the last time is restored.
Fairness == /\ \A r \in Reviews : WF_vars(Elapse(r)) /\ WF_vars(TimerFires(r[1], r[2]))
            /\ WF_vars(Restore)

Spec == Init /\ [][Next]_vars
FairSpec == Spec /\ Fairness

----------------------------------------------------------------------------
(* Properties.                                                             *)

TypeOK == /\ active \in BOOLEAN /\ archives \in Nat /\ edits \in Nat /\ flow \in Nat
          /\ status \in [Proposals -> Statuses]
          /\ rev \in [Proposals -> 0..MaxRevision]
          /\ cur \in [Proposals -> 0..MaxRevision]
          /\ content \in [Reviews -> Contents \cup {NoContent}]
          /\ expected \in [Reviews -> [Objects -> Nat]]
          /\ flowSeen \in [Reviews -> Nat]
          /\ shown \in [Reviews -> [Objects -> Nat]]
          /\ votes \in [Reviews -> [Seats -> Votes]]
          /\ first \in [Reviews -> BOOLEAN]
          /\ deadline \in [Reviews -> BOOLEAN]
          /\ overdue \in [Reviews -> BOOLEAN]
          /\ timer \in [Reviews -> {"none", "queued", "over"}]
          /\ applied \in [Reviews -> Nat]
          /\ version \in [Objects -> Nat]
          /\ phase \in [Objects -> Phases]

Answered(r) == \A s \in Seats : votes[r][s] \in {"none", "approved", "delegated", "timeout"}
Convened(r) == \E s \in Seats : votes[r][s] # "none"

\* Consent: a review is applied only when every seat is answered and none rejected, and silence
\* counts only after a first consent, through timers, late decisions, revisions and redelivery.
Consents == INSTANCE ConsentLedger

ConsentSpec == Consents!Spec

\* A pending review always has a seat to be answered, none of them is rejected, and from the
\* first consent on it has a deadline and a job: nothing completes a review without settling it.
PendingIsOpen ==
  \A p \in Proposals : status[p] = "pending" =>
    LET r == Current(p) IN
    /\ cur[p] = rev[p] /\ cur[p] # 0
    /\ Open(r) # {}
    /\ \A s \in Seats : votes[r][s] # "rejected"
    /\ first[r] => deadline[r] /\ timer[r] # "none"
    /\ ~first[r] => \A s \in Seats : votes[r][s] \in {"none", "pending"}

\* Of two reviews drafted against the same version of an object at most one is applied, and
\* neither of them twice, whichever of them is settled by a timer.
ExclusiveVersions ==
  \A r, q \in Reviews : \A o \in Targets(content[r]) \cap Targets(content[q]) :
    (applied[r] > 0 /\ applied[q] > 0 /\ expected[r][o] = expected[q][o]) => r = q /\ applied[r] = 1

\* What the seats of a pending review were shown of a draft is still what the draft is.
ShownIsCurrent ==
  \A p \in Proposals : status[p] = "pending" =>
    \A o \in Mentions(content[Current(p)]) : phase[o] = "draft" => shown[Current(p)][o] = version[o]

\* A proposal that is approved on the first review ever submitted for it has all its seats answered.
FirstReviewAnswered ==
  \A p \in Proposals :
    (status[p] = "approved" /\ \A k \in 1..MaxRevision : k # cur[p] => ~Convened(<<p, k>>))
      => Answered(Current(p))

\* The countdown ends every review it was started for: some command settles it, no later than
\* the deadline job.  (Runs with MaxArchives = 0.)
CountdownSettles ==
  \A p \in Proposals, k \in 1..MaxRevision :
    (status[p] = "pending" /\ cur[p] = k /\ first[<<p, k>>]) ~> ~(status[p] = "pending" /\ cur[p] = k)

\* internal/decision/service.go:5: an approved proposal has every approval slot satisfied.
ApprovedMeansAnswered ==
  \A p \in Proposals : status[p] = "approved" => Answered(Current(p)) /\ Convened(Current(p))
=============================================================================
