--------------------------- MODULE ProposalProofs ---------------------------
(***************************************************************************)
(* Proofs about Proposal for every set of proposals, objects and seats,    *)
(* every change group and every bound.  The inductive ReviewInv says       *)
(* what the columns of a review that is no longer pending still guarantee, *)
(* because its job, and SettleTimeout, may come back to it at any time.    *)
(***************************************************************************)
EXTENDS Proposal, TLAPS

\* Every drafted proposal has a revision; what was never submitted has no vote.
Unsubmitted ==
  \A p \in Proposals :
    /\ rev[p] = 0 => status[p] = "none"
    /\ \A k \in 1..MaxRevision :
         (k > rev[p] \/ (k = rev[p] /\ status[p] = "draft")) => ~Convened(<<p, k>>)

\* Every vote leaves its trace on the review: a countdown runs only where somebody consented
\* and nobody rejected, and a group was applied only where seats had been convened.
VotesRemembered ==
  \A r \in Reviews :
    /\ first[r] => timer[r] # "none" /\ \E s \in Seats : votes[r][s] \in {"approved", "delegated"}
    /\ ~first[r] => \A s \in Seats : votes[r][s] \in {"none", "pending", "rejected"}
    /\ deadline[r] => first[r] /\ \A s \in Seats : votes[r][s] # "rejected"
    /\ applied[r] > 0 => Convened(r)

\* An applied group has left the versions it was drafted against behind.
AppliedBehind ==
  \A r \in Reviews : applied[r] > 0 =>
    \A o \in Targets(content[r]) : expected[r][o] < version[o]

ReviewInv == /\ TypeOK
             /\ Unsubmitted
             /\ VotesRemembered
             /\ PendingIsOpen

----------------------------------------------------------------------------
(* The type invariant.                                                     *)

LEMMA ReviewsType == \A p \in Proposals : \A k \in 1..MaxRevision : <<p, k>> \in Reviews
  BY DEF Reviews

LEMMA CancelAllType ==
  ASSUME NEW Q, NEW st \in [Proposals -> Statuses]
  PROVE  CancelAll(Q, st) \in [Proposals -> Statuses]
  BY DEF CancelAll, Statuses

LEMMA MarkType ==
  ASSUME NEW r \in Reviews, NEW S, NEW v \in Votes, votes \in [Reviews -> [Seats -> Votes]],
         Mark(r, S, v)
  PROVE  votes' \in [Reviews -> [Seats -> Votes]]
  BY DEF Mark

LEMMA PhaseAfterType ==
  ASSUME NEW op, NEW ph \in Phases
  PROVE  PhaseAfter(op, ph) \in Phases
  BY DEF PhaseAfter, Phases

\* The variables application writes.
AppliedType == /\ status \in [Proposals -> Statuses]
               /\ deadline \in [Reviews -> BOOLEAN]
               /\ applied \in [Reviews -> Nat]
               /\ version \in [Objects -> Nat]
               /\ phase \in [Objects -> Phases]

LEMMA ApplyReviewedType ==
  ASSUME TypeOK, NEW p \in Proposals, NEW r \in Reviews, NEW dl \in [Reviews -> BOOLEAN],
         ApplyReviewed(p, r, dl)
  PROVE  AppliedType'
<1>1. CASE Fresh(r)
  <2>. DEFINE c == content[r]
              drafts == {o \in Targets(c) : phase[o] = "draft"}
  <2>1. /\ version' = [o \in Objects |-> IF o \in Targets(c) THEN version[o] + 1 ELSE version[o]]
        /\ phase' = [o \in Objects |-> PhaseAfter(c.op[o], phase[o])]
        /\ applied' = [applied EXCEPT ![r] = @ + 1]
        /\ status' = [CancelAll(Withdrawn(drafts, r), status) EXCEPT ![p] = "approved"]
        /\ deadline' = dl
    BY <1>1 DEF ApplyReviewed
  <2>2. CancelAll(Withdrawn(drafts, r), status) \in [Proposals -> Statuses]
    BY CancelAllType DEF TypeOK
  <2>3. status' \in [Proposals -> Statuses]
    BY <2>1, <2>2 DEF Statuses
  <2>4. phase' \in [Objects -> Phases]
    BY <2>1, PhaseAfterType DEF TypeOK
  <2>5. version' \in [Objects -> Nat] /\ applied' \in [Reviews -> Nat]
    BY <2>1 DEF TypeOK
  <2>. QED BY <2>1, <2>3, <2>4, <2>5 DEF AppliedType
<1>2. CASE ~Fresh(r)
  <2>1. /\ status' = [status EXCEPT ![p] = "stale"]
        /\ deadline' = [dl EXCEPT ![r] = FALSE]
        /\ UNCHANGED <<applied, version, phase>>
    BY <1>2 DEF ApplyReviewed, workVars
  <2>. QED BY <2>1 DEF AppliedType, TypeOK, Statuses
<1>. QED BY <1>1, <1>2

LEMMA SettleTimeoutType ==
  ASSUME TypeOK, NEW p \in Proposals, NEW r \in Reviews, SettleTimeout(p, r)
  PROVE  AppliedType' /\ votes' \in [Reviews -> [Seats -> Votes]]
<1>1. CASE status[p] = "pending" /\ Due(r)
  <2>1. Mark(r, Open(r), "timeout") /\ ApplyReviewed(p, r, deadline)
    BY <1>1 DEF SettleTimeout
  <2>2. deadline \in [Reviews -> BOOLEAN] /\ votes \in [Reviews -> [Seats -> Votes]]
    BY DEF TypeOK
  <2>. QED BY <2>1, <2>2, ApplyReviewedType, MarkType DEF Votes
<1>2. CASE ~(status[p] = "pending" /\ Due(r))
  BY <1>2 DEF SettleTimeout, AppliedType, TypeOK, workVars
<1>. QED BY <1>1, <1>2

LEMMA NewRevisionType ==
  ASSUME TypeOK, NEW p \in Proposals, NEW c \in Contents, NewRevision(p, c)
  PROVE  TypeOK'
<1>1. rev[p] \in 0..MaxRevision /\ rev[p] < MaxRevision
  BY DEF NewRevision, TypeOK
<1>2. rev[p] + 1 \in 1..MaxRevision
  BY <1>1, BoundsAssumption
<1>3. <<p, rev[p] + 1>> \in Reviews
  BY <1>2, ReviewsType
<1>4. /\ rev' \in [Proposals -> 0..MaxRevision]
      /\ cur' \in [Proposals -> 0..MaxRevision]
  BY <1>2, BoundsAssumption DEF NewRevision, TypeOK
<1>5. /\ content' \in [Reviews -> Contents \cup {NoContent}]
      /\ expected' \in [Reviews -> [Objects -> Nat]]
      /\ status' \in [Proposals -> Statuses]
  BY <1>3 DEF NewRevision, TypeOK, Statuses
<1>. QED
  BY <1>4, <1>5 DEF NewRevision, TypeOK, projectVars, frozenVars, countdownVars, workVars

LEMMA ConsentType ==
  ASSUME TypeOK, NEW p \in Proposals, NEW S, NEW v \in Votes, Consent(p, S, v),
         Current(p) \in Reviews
  PROVE  TypeOK'
<1>. DEFINE r == Current(p)
            dl == IF first[r] THEN deadline ELSE [deadline EXCEPT ![r] = TRUE]
<1>1. /\ Mark(r, S, v)
      /\ first' = [first EXCEPT ![r] = TRUE]
      /\ timer' = TimersAfter(r, S)
      /\ IF Completes(r, S)
           THEN ApplyReviewed(p, r, dl)
           ELSE deadline' = dl /\ UNCHANGED <<status, applied, workVars>>
      /\ UNCHANGED <<projectVars, cur, draftVars, frozenVars, overdue, flow>>
  BY DEF Consent
<1>2. dl \in [Reviews -> BOOLEAN]
  BY DEF TypeOK
<1>3. AppliedType'
  <2>1. CASE Completes(r, S)
    BY <1>1, <1>2, <2>1, ApplyReviewedType
  <2>2. CASE ~Completes(r, S)
    <3>1. deadline' = dl /\ UNCHANGED <<status, applied, version, phase>>
      BY <1>1, <2>2 DEF workVars
    <3>. QED BY <3>1, <1>2 DEF AppliedType, TypeOK
  <2>. QED BY <2>1, <2>2
<1>4. votes' \in [Reviews -> [Seats -> Votes]]
  BY <1>1, MarkType DEF TypeOK
<1>5. first' \in [Reviews -> BOOLEAN] /\ timer' \in [Reviews -> {"none", "queued", "over"}]
  BY <1>1 DEF TimersAfter, TypeOK
<1>. QED
  BY <1>1, <1>3, <1>4, <1>5 DEF AppliedType, TypeOK, projectVars, draftVars, frozenVars

LEMMA CurrentType ==
  ASSUME TypeOK, PendingIsOpen, NEW p \in Proposals, status[p] = "pending"
  PROVE  Current(p) \in Reviews
<1>1. cur[p] \in 1..MaxRevision
  BY BoundsAssumption DEF TypeOK, PendingIsOpen
<1>. QED BY <1>1, ReviewsType DEF Current

LEMMA SubmitType ==
  ASSUME TypeOK, Unsubmitted, NEW p \in Proposals, NEW S, Submit(p, S)
  PROVE  TypeOK'
<1>1. rev[p] \in 1..MaxRevision
  BY BoundsAssumption DEF TypeOK, Unsubmitted, Submit
<1>2. <<p, rev[p]>> \in Reviews
  BY <1>1, ReviewsType
<1>. DEFINE r == <<p, rev[p]>>
<1>3. /\ Mark(r, S, "pending")
      /\ flowSeen' = [flowSeen EXCEPT ![r] = flow]
      /\ shown' = [shown EXCEPT ![r] = version]
      /\ status' = [status EXCEPT ![p] = "pending"]
      /\ cur' = [cur EXCEPT ![p] = rev[p]]
      /\ UNCHANGED <<projectVars, draftVars, deadline, countdownVars, applied, workVars, flow>>
  BY DEF Submit
<1>4. votes' \in [Reviews -> [Seats -> Votes]]
  BY <1>2, <1>3, MarkType DEF TypeOK, Votes
<1>5. /\ flowSeen' \in [Reviews -> Nat]
      /\ shown' \in [Reviews -> [Objects -> Nat]]
      /\ status' \in [Proposals -> Statuses]
      /\ cur' \in [Proposals -> 0..MaxRevision]
  BY <1>3 DEF TypeOK, Statuses
<1>. QED
  BY <1>3, <1>4, <1>5 DEF TypeOK, projectVars, draftVars, countdownVars, workVars

LEMMA RejectType ==
  ASSUME TypeOK, PendingIsOpen, NEW p \in Proposals, NEW S, Reject(p, S)
  PROVE  TypeOK'
<1>1. Current(p) \in Reviews
  BY CurrentType DEF Reject
<1>2. votes' \in [Reviews -> [Seats -> Votes]]
  BY <1>1, MarkType DEF TypeOK, Reject, Votes
<1>3. deadline' \in [Reviews -> BOOLEAN] /\ status' \in [Proposals -> Statuses]
  BY DEF Reject, DeadlineCleared, TypeOK, Statuses
<1>. QED
  BY <1>2, <1>3 DEF Reject, TypeOK, projectVars, draftVars, frozenVars, countdownVars, workVars

LEMMA SettlingType ==
  ASSUME TypeOK, NEW p \in Proposals, NEW r \in Reviews, SettleTimeout(p, r),
         timer' \in [Reviews -> {"none", "queued", "over"}],
         UNCHANGED <<projectVars, cur, draftVars, frozenVars, first, overdue, flow>>
  PROVE  TypeOK'
<1>1. AppliedType' /\ votes' \in [Reviews -> [Seats -> Votes]]
  BY SettleTimeoutType
<1>. QED BY <1>1 DEF AppliedType, TypeOK, projectVars, draftVars, frozenVars

LEMMA TimerFiresType ==
  ASSUME TypeOK, NEW p \in Proposals, NEW k \in 1..MaxRevision, TimerFires(p, k)
  PROVE  TypeOK'
<1>. DEFINE r == <<p, k>>
<1>0. r \in Reviews
  BY ReviewsType
<1>1. timer' \in [Reviews -> {"none", "queued", "over"}]
  <2>1. timer \in [Reviews -> {"none", "queued", "over"}]
    BY DEF TypeOK
  <2>2. \E t \in {"queued", "over"} : timer' = [timer EXCEPT ![r] = t]
    BY DEF TimerFires
  <2>. QED BY <2>1, <2>2
<1>2. UNCHANGED <<projectVars, cur, draftVars, frozenVars, first, overdue, flow>>
  BY DEF TimerFires
<1>3. CASE active
  <2>1. SettleTimeout(p, r)
    BY <1>3 DEF TimerFires
  <2>. QED BY <1>0, <1>1, <1>2, <2>1, SettlingType
<1>4. CASE ~active
  <2>1. UNCHANGED <<votes, status, deadline, applied, workVars>>
    BY <1>4 DEF TimerFires
  <2>. QED BY <1>1, <1>2, <2>1 DEF TypeOK, projectVars, draftVars, frozenVars, workVars
<1>. QED BY <1>3, <1>4

\* The steps of the project beside the reviews.
Outside == \/ \E o \in Objects, ph \in Phases : EditDraft(o, ph) \/ WorkMoves(o, ph)
           \/ FlowChanges \/ Archive \/ Restore

LEMMA OutsideType == ASSUME TypeOK, Outside PROVE TypeOK'
<1>1. ASSUME NEW o \in Objects, NEW ph \in Phases, EditDraft(o, ph)
      PROVE  TypeOK'
  <2>1. status' \in [Proposals -> Statuses]
    BY <1>1, CancelAllType DEF EditDraft, TypeOK
  <2>2. /\ edits' \in Nat /\ version' \in [Objects -> Nat]
        /\ phase' \in [Objects -> Phases]
    BY <1>1 DEF EditDraft, Edit, TypeOK
  <2>3. UNCHANGED <<active, archives, cur, draftVars, frozenVars, votes, deadline, countdownVars,
                    applied, flow>>
    BY <1>1 DEF EditDraft
  <2>. QED BY <2>1, <2>2, <2>3 DEF TypeOK, draftVars, frozenVars, countdownVars
<1>2. ASSUME NEW o \in Objects, NEW ph \in Phases, WorkMoves(o, ph)
      PROVE  TypeOK'
  <2>2. /\ edits' \in Nat /\ version' \in [Objects -> Nat]
        /\ phase' \in [Objects -> Phases]
    BY <1>2 DEF WorkMoves, Edit, TypeOK
  <2>3. UNCHANGED <<active, archives, status, cur, draftVars, frozenVars, votes, deadline,
                    countdownVars, applied, flow>>
    BY <1>2 DEF WorkMoves
  <2>. QED BY <2>2, <2>3 DEF TypeOK, draftVars, frozenVars, countdownVars
<1>3. CASE FlowChanges
  <2>2. edits' \in Nat /\ flow' \in Nat
    BY <1>3 DEF FlowChanges, Edit, TypeOK
  <2>3. UNCHANGED <<active, archives, status, cur, draftVars, frozenVars, votes, deadline,
                    countdownVars, applied, workVars>>
    BY <1>3 DEF FlowChanges
  <2>. QED BY <2>2, <2>3 DEF TypeOK, draftVars, frozenVars, countdownVars, workVars
<1>4. CASE Archive \/ Restore
  <2>1. active' \in BOOLEAN
    BY <1>4 DEF Archive, Restore
  <2>2. archives' \in Nat
    BY <1>4 DEF Archive, Restore, TypeOK
  <2>3. UNCHANGED <<edits, status, cur, draftVars, frozenVars, votes, deadline, countdownVars,
                    applied, workVars, flow>>
    BY <1>4 DEF Archive, Restore
  <2>. QED BY <2>1, <2>2, <2>3 DEF TypeOK, draftVars, frozenVars, countdownVars, workVars
<1>. QED BY <1>1, <1>2, <1>3, <1>4 DEF Outside

LEMMA TypeInit == Init => TypeOK
<1>. SUFFICES ASSUME Init PROVE TypeOK
  OBVIOUS
<1>1. active \in BOOLEAN
  BY DEF Init
<1>2. /\ archives \in Nat /\ edits \in Nat /\ flow \in Nat
      /\ status \in [Proposals -> Statuses]
      /\ rev \in [Proposals -> 0..MaxRevision]
      /\ cur \in [Proposals -> 0..MaxRevision]
  BY BoundsAssumption DEF Init, Statuses
<1>3. /\ content \in [Reviews -> Contents \cup {NoContent}]
      /\ expected \in [Reviews -> [Objects -> Nat]]
      /\ flowSeen \in [Reviews -> Nat]
      /\ shown \in [Reviews -> [Objects -> Nat]]
      /\ votes \in [Reviews -> [Seats -> Votes]]
  BY DEF Init, Votes
<1>4. /\ first \in [Reviews -> BOOLEAN]
      /\ deadline \in [Reviews -> BOOLEAN]
      /\ overdue \in [Reviews -> BOOLEAN]
      /\ timer \in [Reviews -> {"none", "queued", "over"}]
      /\ applied \in [Reviews -> Nat]
  BY DEF Init
<1>5. version \in [Objects -> Nat] /\ phase \in [Objects -> Phases]
  BY DEF Init, Phases
<1>. QED BY <1>1, <1>2, <1>3, <1>4, <1>5 DEF TypeOK

----------------------------------------------------------------------------
(* Reviews.                                                                *)

LEMMA ReviewInit == Init => ReviewInv
<1>. SUFFICES ASSUME Init PROVE ReviewInv
  OBVIOUS
<1>1. /\ \A p \in Proposals : status[p] = "none"
      /\ \A r \in Reviews : /\ ~first[r] /\ ~deadline[r] /\ applied[r] = 0
                            /\ \A s \in Seats : votes[r][s] = "none"
  BY DEF Init
<1>2. Unsubmitted
  BY <1>1, ReviewsType DEF Unsubmitted, Convened
<1>3. VotesRemembered /\ PendingIsOpen
  BY <1>1 DEF VotesRemembered, PendingIsOpen
<1>. QED BY <1>2, <1>3, TypeInit DEF ReviewInv

\* Another proposal than the one decided on may be cancelled by a withdrawal.
Spared(q) == \/ status'[q] = status[q]
             \/ status'[q] = "cancelled" /\ status[q] \in Withdrawable

\* Application settles p one way or the other, and cancels others at most.
LEMMA ApplyEffect ==
  ASSUME TypeOK, NEW p \in Proposals, NEW r \in Reviews, NEW dl \in [Reviews -> BOOLEAN],
         ApplyReviewed(p, r, dl)
  PROVE  /\ status'[p] \in {"approved", "stale"}
         /\ \A q \in Proposals \ {p} : Spared(q)
         /\ \A x \in Reviews : deadline'[x] => dl[x]
         /\ \A x \in Reviews \ {r} : deadline'[x] = dl[x]
         /\ \/ applied' = applied
            \/ Fresh(r) /\ status'[p] = "approved" /\ applied' = [applied EXCEPT ![r] = @ + 1]
<1>1. CASE Fresh(r)
  <2>. DEFINE drafts == {o \in Targets(content[r]) : phase[o] = "draft"}
  <2>1. /\ applied' = [applied EXCEPT ![r] = @ + 1]
        /\ status' = [CancelAll(Withdrawn(drafts, r), status) EXCEPT ![p] = "approved"]
        /\ deadline' = dl
    BY <1>1 DEF ApplyReviewed
  <2>2. \A q \in Proposals \ {p} :
          status'[q] = IF q \in Withdrawn(drafts, r) THEN "cancelled" ELSE status[q]
    BY <2>1 DEF CancelAll
  <2>3. \A q \in Withdrawn(drafts, r) : status[q] \in Withdrawable
    BY DEF Withdrawn
  <2>4. status'[p] = "approved"
    BY <2>1 DEF CancelAll
  <2>. QED BY <1>1, <2>1, <2>2, <2>3, <2>4 DEF Spared
<1>2. CASE ~Fresh(r)
  <2>1. /\ status' = [status EXCEPT ![p] = "stale"]
        /\ deadline' = [dl EXCEPT ![r] = FALSE]
        /\ applied' = applied
    BY <1>2 DEF ApplyReviewed
  <2>. QED BY <2>1 DEF TypeOK, Spared
<1>. QED BY <1>1, <1>2

\* Who changes no vote and no countdown keeps the invariant, withdrawals included.
LEMMA WithdrawInv ==
  ASSUME ReviewInv, TypeOK', UNCHANGED <<rev, cur, votes, first, deadline, applied>>,
         \A r \in Reviews : timer[r] # "none" => timer'[r] # "none",
         \A q \in Proposals : Spared(q)
  PROVE  ReviewInv'
<1>1. \A q \in Proposals : status[q] \in Withdrawable => status[q] # "none"
  BY DEF Withdrawable
<1>2. Unsubmitted'
  BY <1>1 DEF ReviewInv, Unsubmitted, Convened, Spared
<1>3. VotesRemembered'
  BY DEF ReviewInv, VotesRemembered, Convened
<1>4. PendingIsOpen'
  <2>. SUFFICES ASSUME NEW q \in Proposals, status'[q] = "pending"
                PROVE  /\ cur'[q] = rev'[q] /\ cur'[q] # 0
                       /\ Open(Current(q))' # {}
                       /\ \A s \in Seats : votes'[Current(q)'][s] # "rejected"
                       /\ first'[Current(q)'] => deadline'[Current(q)'] /\ timer'[Current(q)'] # "none"
                       /\ ~first'[Current(q)'] =>
                             \A s \in Seats : votes'[Current(q)'][s] \in {"none", "pending"}
    BY DEF PendingIsOpen
  <2>1. status[q] = "pending" /\ Current(q)' = Current(q) /\ Open(Current(q))' = Open(Current(q))
    BY DEF Current, Open, Spared
  <2>2. Current(q) \in Reviews
    BY <2>1, CurrentType DEF ReviewInv
  <2>. QED BY <2>1, <2>2 DEF ReviewInv, PendingIsOpen
<1>. QED BY <1>2, <1>3, <1>4 DEF ReviewInv

LEMMA NewRevisionInv ==
  ASSUME ReviewInv, TypeOK', NEW p \in Proposals, NEW c \in Contents, NewRevision(p, c)
  PROVE  ReviewInv'
<1>1. /\ rev' = [rev EXCEPT ![p] = @ + 1]
      /\ status' = [status EXCEPT ![p] = "draft"]
      /\ cur' = [cur EXCEPT ![p] = 0]
      /\ UNCHANGED <<votes, deadline, first, overdue, timer, applied>>
  BY DEF NewRevision, countdownVars
<1>2. \A q \in Proposals \ {p} : rev'[q] = rev[q] /\ status'[q] = status[q] /\ cur'[q] = cur[q]
  BY <1>1 DEF ReviewInv, TypeOK
<1>3. rev'[p] = rev[p] + 1 /\ status'[p] = "draft" /\ rev[p] \in Nat
  BY <1>1 DEF ReviewInv, TypeOK
<1>4. Unsubmitted'
  <2>1. \A k \in 1..MaxRevision : k >= rev'[p] => ~Convened(<<p, k>>)'
    BY <1>1, <1>3 DEF ReviewInv, Unsubmitted, Convened
  <2>2. \A q \in Proposals \ {p} :
          /\ rev'[q] = 0 => status'[q] = "none"
          /\ \A k \in 1..MaxRevision :
               (k > rev'[q] \/ (k = rev'[q] /\ status'[q] = "draft")) => ~Convened(<<q, k>>)'
    BY <1>1, <1>2 DEF ReviewInv, Unsubmitted, Convened
  <2>3. rev'[p] # 0
    BY <1>3
  <2>4. \A k \in 1..MaxRevision : (k > rev'[p] \/ k = rev'[p]) => k >= rev'[p]
    BY <1>3
  <2>. QED BY <2>1, <2>2, <2>3, <2>4 DEF Unsubmitted
<1>5. VotesRemembered'
  BY <1>1 DEF ReviewInv, VotesRemembered, Convened
<1>6. PendingIsOpen'
  BY <1>1, <1>2, <1>3 DEF ReviewInv, PendingIsOpen, Current, Open
<1>. QED BY <1>4, <1>5, <1>6 DEF ReviewInv

LEMMA SubmitInv ==
  ASSUME ReviewInv, TypeOK', NEW p \in Proposals, NEW S \in SUBSET Seats, Submit(p, S)
  PROVE  ReviewInv' /\ <<p, rev[p]>> \in Reviews /\ ~Convened(<<p, rev[p]>>)
<1>. DEFINE r == <<p, rev[p]>>
<1>1. rev[p] \in 1..MaxRevision
  BY BoundsAssumption DEF ReviewInv, TypeOK, Unsubmitted, Submit
<1>2. r \in Reviews /\ ~Convened(r)
  BY <1>1, ReviewsType DEF ReviewInv, Unsubmitted, Submit
<1>3. ~first[r] /\ ~deadline[r] /\ S # {}
  BY <1>2 DEF ReviewInv, VotesRemembered, Convened, Submit
<1>4. /\ \A s \in Seats : votes'[r][s] = IF s \in S THEN "pending" ELSE "none"
      /\ \A x \in Reviews \ {r} : votes'[x] = votes[x]
  BY <1>2 DEF Submit, Mark, ReviewInv, TypeOK, Convened
<1>5. /\ status' = [status EXCEPT ![p] = "pending"]
      /\ cur' = [cur EXCEPT ![p] = rev[p]]
      /\ UNCHANGED <<rev, first, timer, deadline, applied>>
  BY DEF Submit, draftVars, countdownVars
<1>6. Unsubmitted'
  <2>1. \A q \in Proposals : \A k \in 1..MaxRevision : <<q, k>> # r =>
          (Convened(<<q, k>>)' <=> Convened(<<q, k>>))
    BY <1>4, ReviewsType DEF Convened
  <2>2. \A q \in Proposals \ {p} : status'[q] = status[q]
    BY <1>5 DEF ReviewInv, TypeOK
  <2>3. status'[p] = "pending"
    BY <1>5 DEF ReviewInv, TypeOK
  <2>4. \A q \in Proposals, k \in 1..MaxRevision : <<q, k>> = r => q = p /\ k = rev[p]
    OBVIOUS
  <2>5. rev' = rev
    BY <1>5
  <2>6. \A k \in 1..MaxRevision : k > rev[p] => <<p, k>> # r
    BY <1>1
  <2>7. \A k \in 1..MaxRevision : k > rev'[p] \/ (k = rev'[p] /\ status'[p] = "draft")
                                    => ~Convened(<<p, k>>)'
    BY <2>1, <2>3, <2>5, <2>6 DEF ReviewInv, Unsubmitted
  <2>8. \A q \in Proposals \ {p} : \A k \in 1..MaxRevision :
          k > rev'[q] \/ (k = rev'[q] /\ status'[q] = "draft") => ~Convened(<<q, k>>)'
    BY <2>1, <2>2, <2>4, <2>5 DEF ReviewInv, Unsubmitted
  <2>9. \A q \in Proposals : rev'[q] = 0 => status'[q] = "none"
    BY <1>1, <2>2, <2>5 DEF ReviewInv, Unsubmitted
  <2>. QED BY <2>7, <2>8, <2>9 DEF Unsubmitted
<1>7. VotesRemembered'
  BY <1>2, <1>3, <1>4, <1>5 DEF ReviewInv, VotesRemembered, Convened
<1>8. PendingIsOpen'
  <2>1. \A q \in Proposals \ {p} : status'[q] = status[q] /\ cur'[q] = cur[q]
    BY <1>5 DEF ReviewInv, TypeOK
  <2>2. \A q \in Proposals \ {p} : status[q] = "pending" =>
          Current(q)' = Current(q) /\ Current(q) \in Reviews /\ Current(q) # r
    BY <2>1, CurrentType DEF Current, ReviewInv
  <2>3. Current(p)' = r /\ cur'[p] = rev'[p] /\ cur'[p] # 0
    BY <1>1, <1>5 DEF Current, ReviewInv, TypeOK
  <2>4. \A q \in Proposals \ {p} : status'[q] = "pending" =>
          /\ cur'[q] = rev'[q] /\ cur'[q] # 0
          /\ Open(Current(q))' # {}
          /\ \A s \in Seats : votes'[Current(q)'][s] # "rejected"
          /\ first'[Current(q)'] => deadline'[Current(q)'] /\ timer'[Current(q)'] # "none"
          /\ ~first'[Current(q)'] =>
                \A s \in Seats : votes'[Current(q)'][s] \in {"none", "pending"}
    BY <1>4, <1>5, <2>1, <2>2 DEF ReviewInv, PendingIsOpen, Open
  <2>5. Open(Current(p))' # {}
    BY <1>3, <1>4, <2>3 DEF Open
  <2>6. ~first'[Current(p)'] /\ \A s \in Seats : votes'[Current(p)'][s] \in {"none", "pending"}
    BY <1>3, <1>4, <1>5, <2>3
  <2>. QED BY <2>3, <2>4, <2>5, <2>6 DEF PendingIsOpen
<1>. QED BY <1>2, <1>6, <1>7, <1>8 DEF ReviewInv

\* VotesRemembered of one review, and PendingIsOpen of one proposal.
VotesAt(r) ==
  /\ first[r] => timer[r] # "none" /\ \E s \in Seats : votes[r][s] \in {"approved", "delegated"}
  /\ ~first[r] => \A s \in Seats : votes[r][s] \in {"none", "pending", "rejected"}
  /\ deadline[r] => first[r] /\ \A s \in Seats : votes[r][s] # "rejected"
  /\ applied[r] > 0 => Convened(r)

OpenAt(r) ==
  /\ Open(r) # {}
  /\ \A s \in Seats : votes[r][s] # "rejected"
  /\ first[r] => deadline[r] /\ timer[r] # "none"
  /\ ~first[r] => \A s \in Seats : votes[r][s] \in {"none", "pending"}

LEMMA OpenAtPending ==
  PendingIsOpen <=> \A q \in Proposals : status[q] = "pending" =>
                      cur[q] = rev[q] /\ cur[q] # 0 /\ OpenAt(Current(q))
  BY DEF PendingIsOpen, OpenAt

\* A decision on the review r of p leaves every other review and proposal as it should be.
LEMMA DecisionFrame ==
  ASSUME ReviewInv, TypeOK', NEW p \in Proposals, NEW k \in 1..MaxRevision,
         status[p] = "pending", status'[p] # "draft", Convened(<<p, k>>), UNCHANGED <<rev, cur>>,
         \A x \in Reviews \ {<<p, k>>} :
            /\ votes'[x] = votes[x] /\ first'[x] = first[x] /\ deadline'[x] = deadline[x]
            /\ applied'[x] = applied[x] /\ (timer[x] # "none" => timer'[x] # "none"),
         \A q \in Proposals \ {p} : Spared(q),
         VotesAt(<<p, k>>)',
         status'[p] = "pending" => Current(p) = <<p, k>> /\ OpenAt(<<p, k>>)'
  PROVE  ReviewInv'
<1>. DEFINE r == <<p, k>>
<1>0. r \in Reviews
  BY ReviewsType
<1>1. \A q \in Proposals \ {p} : /\ status'[q] = "draft" => status[q] = "draft"
                                 /\ status[q] = "none" => status'[q] = "none"
  BY DEF Withdrawable, Spared
<1>2. \A q \in Proposals, i \in 1..MaxRevision : <<q, i>> # r => (Convened(<<q, i>>)' <=> Convened(<<q, i>>))
  BY ReviewsType DEF Convened
<1>3. Unsubmitted'
  <2>1. ~(k > rev[p]) /\ rev[p] # 0
    BY DEF ReviewInv, Unsubmitted
  <2>2. \A i \in 1..MaxRevision : i > rev'[p] => <<p, i>> # r /\ ~Convened(<<p, i>>)
    BY <2>1 DEF ReviewInv, Unsubmitted
  <2>3. \A i \in 1..MaxRevision : i > rev'[p] => ~Convened(<<p, i>>)'
    BY <1>2, <2>2
  <2>4. \A q \in Proposals \ {p} : \A i \in 1..MaxRevision :
          i > rev'[q] \/ (i = rev'[q] /\ status'[q] = "draft") => ~Convened(<<q, i>>)'
    BY <1>1, <1>2 DEF ReviewInv, Unsubmitted
  <2>5. \A q \in Proposals : rev'[q] = 0 => status'[q] = "none"
    BY <1>1, <2>1 DEF ReviewInv, Unsubmitted
  <2>. QED BY <2>3, <2>4, <2>5 DEF Unsubmitted
<1>4. VotesRemembered'
  <2>1. \A x \in Reviews \ {r} : VotesAt(x)'
    BY DEF ReviewInv, VotesRemembered, VotesAt, Convened
  <2>. QED BY <2>1 DEF VotesRemembered, VotesAt
<1>5. PendingIsOpen'
  <2>1. \A q \in Proposals \ {p} : status'[q] = "pending" =>
          /\ status[q] = "pending" /\ Current(q)' = Current(q)
          /\ Current(q) \in Reviews \ {r}
    BY CurrentType DEF Current, ReviewInv, Spared
  <2>2. \A x \in Reviews \ {r} : OpenAt(x) => OpenAt(x)'
    BY DEF OpenAt, Open
  <2>3. \A q \in Proposals \ {p} : status'[q] = "pending" => OpenAt(Current(q))'
    BY <2>1, <2>2, OpenAtPending DEF ReviewInv
  <2>4. \A q \in Proposals : status'[q] = "pending" => cur'[q] = rev'[q] /\ cur'[q] # 0
    BY <2>1 DEF ReviewInv, PendingIsOpen
  <2>5. status'[p] = "pending" => OpenAt(Current(p))'
    BY DEF Current
  <2>. QED BY <2>3, <2>4, <2>5, OpenAtPending DEF PendingIsOpen, OpenAt
<1>. QED BY <1>3, <1>4, <1>5 DEF ReviewInv

\* A review with an open seat was convened.
LEMMA OpenConvened == ASSUME NEW r, Open(r) # {} PROVE Convened(r)
  BY DEF Open, Convened

\* The current review of a pending proposal.
LEMMA PendingReview ==
  ASSUME ReviewInv, NEW p \in Proposals, status[p] = "pending"
  PROVE  /\ cur[p] \in 1..MaxRevision /\ Current(p) = <<p, cur[p]>>
         /\ Current(p) \in Reviews
         /\ OpenAt(Current(p))
         /\ Convened(Current(p))
<1>1. cur[p] # 0 /\ OpenAt(Current(p))
  BY OpenAtPending DEF ReviewInv
<1>2. cur[p] \in 1..MaxRevision
  BY <1>1, BoundsAssumption DEF ReviewInv, TypeOK
<1>3. Current(p) \in Reviews
  BY CurrentType DEF ReviewInv
<1>. QED BY <1>1, <1>2, <1>3, OpenConvened DEF Current, OpenAt

LEMMA MarkEffect ==
  ASSUME TypeOK, NEW r \in Reviews, NEW S, NEW v, Mark(r, S, v)
  PROVE  /\ \A x \in Reviews \ {r} : votes'[x] = votes[x]
         /\ \A s \in Seats : votes'[r][s] = IF s \in S THEN v ELSE votes[r][s]
  BY DEF Mark, TypeOK

LEMMA ConsentInv ==
  ASSUME ReviewInv, TypeOK', NEW p \in Proposals, NEW S \in SUBSET Seats,
         NEW v \in {"approved", "delegated"}, Consent(p, S, v)
  PROVE  ReviewInv'
<1>0. status[p] = "pending"
  BY DEF Consent
<1>2. PICK k \in 1..MaxRevision :
        /\ Current(p) = <<p, k>> /\ <<p, k>> \in Reviews
        /\ OpenAt(<<p, k>>) /\ Convened(<<p, k>>)
  BY <1>0, PendingReview
<1>. DEFINE r == <<p, k>>
            dl == IF first[r] THEN deadline ELSE [deadline EXCEPT ![r] = TRUE]
<1>1. /\ status[p] = "pending"
      /\ S # {} /\ S \subseteq Open(r)
      /\ Mark(r, S, v)
      /\ first' = [first EXCEPT ![r] = TRUE]
      /\ timer' = TimersAfter(r, S)
      /\ IF Completes(r, S)
           THEN ApplyReviewed(p, r, dl)
           ELSE deadline' = dl /\ UNCHANGED <<status, applied, workVars>>
      /\ UNCHANGED <<rev, cur>>
  BY <1>2 DEF Consent, draftVars
<1>3. TypeOK
  BY DEF ReviewInv
<1>4. dl \in [Reviews -> BOOLEAN] /\ dl[r] /\ \A x \in Reviews \ {r} : dl[x] = deadline[x]
  BY <1>2, <1>3 DEF TypeOK, OpenAt
<1>5. /\ \A q \in Proposals \ {p} : Spared(q)
      /\ \A x \in Reviews \ {r} : deadline'[x] = deadline[x] /\ applied'[x] = applied[x]
      /\ status'[p] = "pending" => deadline'[r] /\ ~Completes(r, S)
      /\ status'[p] # "draft"
  <2>. HIDE DEF dl
  <2>1. CASE Completes(r, S)
    <3>1. ApplyReviewed(p, r, dl)
      BY <1>1, <2>1
    <3>2. /\ status'[p] \in {"approved", "stale"}
          /\ \A q \in Proposals \ {p} : Spared(q)
          /\ \A x \in Reviews \ {r} : deadline'[x] = dl[x]
          /\ applied' = applied \/ applied' = [applied EXCEPT ![r] = @ + 1]
      BY <1>2, <1>3, <1>4, <3>1, ApplyEffect
    <3>. QED BY <1>3, <1>4, <3>2 DEF TypeOK
  <2>2. CASE ~Completes(r, S)
    <3>1. deadline' = dl /\ UNCHANGED <<status, applied>>
      BY <1>1, <2>2
    <3>. QED BY <1>0, <1>4, <2>2, <3>1 DEF Spared
  <2>. QED BY <2>1, <2>2
<1>6. /\ \A x \in Reviews \ {r} : votes'[x] = votes[x]
      /\ \A s \in Seats : votes'[r][s] = IF s \in S THEN v ELSE votes[r][s]
  BY <1>1, <1>2, <1>3, MarkEffect
<1>7. /\ first'[r] /\ \A x \in Reviews \ {r} : first'[x] = first[x]
      /\ timer'[r] # "none" /\ \A x \in Reviews \ {r} : timer'[x] = timer[x]
  <2>1. first'[r] /\ \A x \in Reviews \ {r} : first'[x] = first[x]
    BY <1>1, <1>2, <1>3 DEF TypeOK
  <2>2. CASE first[r]
    BY <1>1, <1>2, <2>1, <2>2 DEF TimersAfter, OpenAt
  <2>3. CASE ~first[r]
    <3>1. timer' = [timer EXCEPT ![r] = "queued"]
      BY <1>1, <2>3 DEF TimersAfter
    <3>. QED BY <1>2, <1>3, <2>1, <3>1 DEF TypeOK
  <2>. QED BY <2>2, <2>3
<1>8. Convened(r)' /\ \A s \in Seats : votes'[r][s] # "rejected"
  BY <1>1, <1>2, <1>6 DEF Convened, OpenAt
<1>9. VotesAt(r)'
  <2>1. \E s \in Seats : votes'[r][s] \in {"approved", "delegated"}
    BY <1>1, <1>6
  <2>. QED BY <1>7, <1>8, <2>1 DEF VotesAt, Convened
<1>10. status'[p] = "pending" => OpenAt(r)'
  <2>1. ~Completes(r, S) => \E s \in Seats : votes'[r][s] = "pending"
    BY <1>6 DEF Completes, Open
  <2>. QED BY <1>5, <1>7, <1>8, <2>1 DEF OpenAt, Open
<1>. HIDE DEF dl
<1>. QED BY <1>0, <1>1, <1>2, <1>5, <1>6, <1>7, <1>9, <1>10, DecisionFrame

LEMMA RejectInv ==
  ASSUME ReviewInv, TypeOK', NEW p \in Proposals, NEW S \in SUBSET Seats, Reject(p, S)
  PROVE  ReviewInv'
<1>0. status[p] = "pending"
  BY DEF Reject
<1>2. PICK k \in 1..MaxRevision :
        /\ Current(p) = <<p, k>> /\ <<p, k>> \in Reviews
        /\ OpenAt(<<p, k>>) /\ Convened(<<p, k>>) /\ VotesAt(<<p, k>>)
  BY <1>0, PendingReview DEF ReviewInv, VotesRemembered, VotesAt
<1>. DEFINE r == <<p, k>>
<1>1. /\ status[p] = "pending"
      /\ S # {} /\ S \subseteq Open(r)
      /\ Mark(r, S, "rejected")
      /\ deadline' = [deadline EXCEPT ![r] = FALSE]
      /\ status' = [status EXCEPT ![p] = "cancelled"]
      /\ UNCHANGED <<rev, cur, first, timer, applied>>
  BY <1>2 DEF Reject, DeadlineCleared, draftVars, countdownVars
<1>3. TypeOK
  BY DEF ReviewInv
<1>4. /\ \A x \in Reviews \ {r} : votes'[x] = votes[x]
      /\ \A s \in Seats : votes'[r][s] = IF s \in S THEN "rejected" ELSE votes[r][s]
  BY <1>1, <1>2, <1>3, MarkEffect
<1>5. /\ ~deadline'[r] /\ \A x \in Reviews \ {r} : deadline'[x] = deadline[x]
      /\ status'[p] = "cancelled" /\ \A q \in Proposals \ {p} : status'[q] = status[q]
  BY <1>1, <1>2, <1>3 DEF TypeOK
<1>6. VotesAt(r)'
  <2>1. \A s \in Seats : votes[r][s] # "pending" => votes'[r][s] = votes[r][s]
    BY <1>1, <1>4 DEF Open
  <2>2. first'[r] => timer'[r] # "none" /\ \E s \in Seats : votes'[r][s] \in {"approved", "delegated"}
    BY <1>1, <1>2, <2>1 DEF VotesAt
  <2>3. ~first'[r] => \A s \in Seats : votes'[r][s] \in {"none", "pending", "rejected"}
    BY <1>1, <1>2, <1>4 DEF VotesAt
  <2>4. Convened(r)'
    BY <1>1, <1>2, <1>4 DEF Convened
  <2>. QED BY <1>1, <1>2, <1>5, <2>2, <2>3, <2>4 DEF VotesAt
<1>7. /\ status'[p] # "draft" /\ status'[p] # "pending"
      /\ UNCHANGED <<rev, cur>>
      /\ \A x \in Reviews \ {r} : /\ first'[x] = first[x] /\ applied'[x] = applied[x]
                                  /\ (timer[x] # "none" => timer'[x] # "none")
  BY <1>1, <1>5
<1>8. \A q \in Proposals \ {p} : Spared(q)
  BY <1>5 DEF Spared
<1>. QED BY <1>0, <1>2, <1>4, <1>5, <1>6, <1>7, <1>8, DecisionFrame

\* What is due was consented to by somebody and rejected by nobody.
LEMMA DueConsented ==
  ASSUME ReviewInv, NEW r \in Reviews, Due(r)
  PROVE  /\ VotesAt(r) /\ first[r] /\ timer[r] # "none" /\ Convened(r)
         /\ \E s \in Seats : votes[r][s] \in {"approved", "delegated"}
         /\ \A s \in Seats : votes[r][s] # "rejected"
  BY DEF ReviewInv, VotesRemembered, VotesAt, Due, Convened

LEMMA SettleInv ==
  ASSUME ReviewInv, TypeOK', NEW p \in Proposals, NEW k \in 1..MaxRevision,
         SettleTimeout(p, <<p, k>>),
         UNCHANGED <<rev, cur, first>>,
         \A x \in Reviews : timer[x] # "none" => timer'[x] # "none"
  PROVE  ReviewInv'
<1>. DEFINE r == <<p, k>>
<1>1. r \in Reviews /\ TypeOK
  BY ReviewsType DEF ReviewInv
<1>2. CASE status[p] = "pending" /\ Due(r)
  <2>1. Mark(r, Open(r), "timeout") /\ ApplyReviewed(p, r, deadline)
    BY <1>2 DEF SettleTimeout
  <2>2. /\ \A x \in Reviews \ {r} : votes'[x] = votes[x]
        /\ \A s \in Seats : votes'[r][s] = IF s \in Open(r) THEN "timeout" ELSE votes[r][s]
    BY <1>1, <2>1, MarkEffect
  <2>3. deadline \in [Reviews -> BOOLEAN]
    BY <1>1 DEF TypeOK
  <2>4. /\ status'[p] \in {"approved", "stale"}
        /\ \A q \in Proposals \ {p} : Spared(q)
        /\ \A x \in Reviews \ {r} : deadline'[x] = deadline[x]
        /\ applied' = applied \/ applied' = [applied EXCEPT ![r] = @ + 1]
    BY <1>1, <2>1, <2>3, ApplyEffect
  <2>5. \A x \in Reviews \ {r} : applied'[x] = applied[x]
    BY <1>1, <2>4 DEF TypeOK
  <2>6. /\ first[r] /\ timer[r] # "none" /\ Convened(r)
        /\ \E s \in Seats : votes[r][s] \in {"approved", "delegated"}
        /\ \A s \in Seats : votes[r][s] # "rejected"
    BY <1>1, <1>2, DueConsented
  <2>7. VotesAt(r)'
    <3>1. \A s \in Seats : votes[r][s] # "pending" => votes'[r][s] = votes[r][s]
      BY <2>2 DEF Open
    <3>2. \E s \in Seats : votes'[r][s] \in {"approved", "delegated"}
      BY <2>6, <3>1
    <3>3. \A s \in Seats : votes'[r][s] # "rejected"
      BY <2>2, <2>6
    <3>4. Convened(r)'
      BY <3>2 DEF Convened
    <3>5. first'[r] /\ timer'[r] # "none"
      BY <1>1, <2>6
    <3>. QED BY <3>2, <3>3, <3>4, <3>5 DEF VotesAt
  <2>8. /\ status'[p] # "draft" /\ status'[p] # "pending"
        /\ \A x \in Reviews \ {r} : first'[x] = first[x] /\ (timer[x] # "none" => timer'[x] # "none")
    BY <2>4
  <2>. QED BY <1>2, <2>2, <2>4, <2>5, <2>6, <2>7, <2>8, DecisionFrame
<1>3. CASE ~(status[p] = "pending" /\ Due(r))
  <2>1. UNCHANGED <<votes, status, deadline, applied>>
    BY <1>3 DEF SettleTimeout
  <2>2. \A q \in Proposals : Spared(q)
    BY <2>1 DEF Spared
  <2>. QED BY <2>1, <2>2, WithdrawInv
<1>. QED BY <1>2, <1>3

LEMMA OutsideSpares ==
  ASSUME Outside
  PROVE  /\ UNCHANGED <<rev, cur, content, expected, shown, votes, first, deadline, timer, applied>>
         /\ \A q \in Proposals : Spared(q)
<1>1. UNCHANGED <<rev, cur, content, expected, shown, votes, first, deadline, timer, applied>>
  BY DEF Outside, EditDraft, WorkMoves, FlowChanges, Archive, Restore, draftVars, frozenVars,
         countdownVars
<1>2. ASSUME NEW o \in Objects, NEW ph, EditDraft(o, ph) PROVE \A q \in Proposals : Spared(q)
  <2>1. \A q \in Proposals :
          status'[q] = IF q \in Withdrawn({o}, <<>>) THEN "cancelled" ELSE status[q]
    BY <1>2 DEF EditDraft, CancelAll
  <2>. QED BY <2>1 DEF Spared, Withdrawn
<1>3. ASSUME status' = status PROVE \A q \in Proposals : Spared(q)
  BY <1>3 DEF Spared
<1>4. (\A o \in Objects, ph \in Phases : ~EditDraft(o, ph)) => status' = status
  BY DEF Outside, WorkMoves, FlowChanges, Archive, Restore
<1>. QED BY <1>1, <1>2, <1>3, <1>4

\* Every step is a command on one proposal, a timer, the passing of time, or a step outside reviews.
Drafting(p, c) == CreateDraft(p, c) \/ UpdateDraft(p, c) \/ CreateRevision(p, c)

LEMMA StepCases ==
  ASSUME [Next]_vars
  PROVE  \/ \E p \in Proposals, c \in Contents : Drafting(p, c) /\ NewRevision(p, c)
         \/ \E p \in Proposals, S \in SUBSET Seats : Submit(p, S)
         \/ \E p \in Proposals, S \in SUBSET Seats, v \in {"approved", "delegated"} : Consent(p, S, v)
         \/ \E p \in Proposals, S \in SUBSET Seats : Reject(p, S)
         \/ \E p \in Proposals : LateDecision(p)
         \/ \E p \in Proposals, k \in 1..MaxRevision : TimerFires(p, k)
         \/ \E r \in Reviews : Elapse(r)
         \/ Outside
         \/ UNCHANGED vars
  BY DEF Next, Outside, Drafting, CreateDraft, UpdateDraft, CreateRevision, Approve, Delegate

LEMMA ElapseType == ASSUME TypeOK, NEW r \in Reviews, Elapse(r) PROVE TypeOK'
<1>1. overdue' \in [Reviews -> BOOLEAN]
  BY DEF Elapse, TypeOK
<1>2. UNCHANGED <<projectVars, status, cur, draftVars, frozenVars, votes, deadline, first, timer,
                  applied, workVars, flow>>
  BY DEF Elapse
<1>. QED BY <1>1, <1>2 DEF TypeOK, projectVars, draftVars, frozenVars, workVars

LEMMA StutterType == ASSUME TypeOK, UNCHANGED vars PROVE TypeOK'
  BY DEF TypeOK, vars, projectVars, draftVars, frozenVars, countdownVars, workVars

LEMMA ReviewStep == ReviewInv /\ [Next]_vars => ReviewInv'
<1>. SUFFICES ASSUME ReviewInv, [Next]_vars PROVE ReviewInv'
  OBVIOUS

<1>1. ASSUME NEW p \in Proposals, NEW c \in Contents, NewRevision(p, c) PROVE ReviewInv'
  <2>1. TypeOK'
    BY <1>1, NewRevisionType DEF ReviewInv
  <2>. QED BY <1>1, <2>1, NewRevisionInv
<1>2. ASSUME NEW p \in Proposals, NEW S \in SUBSET Seats, Submit(p, S) PROVE ReviewInv'
  <2>1. TypeOK'
    BY <1>2, SubmitType DEF ReviewInv
  <2>. QED BY <1>2, <2>1, SubmitInv
<1>3. ASSUME NEW p \in Proposals, NEW S \in SUBSET Seats, NEW v \in {"approved", "delegated"},
             Consent(p, S, v)
      PROVE  ReviewInv'
  <2>1. Current(p) \in Reviews /\ v \in Votes
    BY <1>3, PendingReview DEF Consent, Votes
  <2>2. TypeOK'
    BY <1>3, <2>1, ConsentType DEF ReviewInv
  <2>. QED BY <1>3, <2>2, ConsentInv
<1>4. ASSUME NEW p \in Proposals, NEW S \in SUBSET Seats, Reject(p, S) PROVE ReviewInv'
  <2>1. TypeOK'
    BY <1>4, RejectType DEF ReviewInv
  <2>. QED BY <1>4, <2>1, RejectInv
<1>5. ASSUME NEW p \in Proposals, LateDecision(p) PROVE ReviewInv'
  <2>1. PICK k \in 1..MaxRevision : Current(p) = <<p, k>> /\ <<p, k>> \in Reviews
    BY <1>5, PendingReview DEF LateDecision
  <2>2. /\ SettleTimeout(p, <<p, k>>)
        /\ UNCHANGED <<projectVars, cur, draftVars, frozenVars, first, overdue, timer, flow>>
    BY <1>5, <2>1 DEF LateDecision, countdownVars
  <2>3. timer' \in [Reviews -> {"none", "queued", "over"}] /\ TypeOK
    BY <2>2 DEF ReviewInv, TypeOK
  <2>4. TypeOK'
    BY <2>1, <2>2, <2>3, SettlingType
  <2>. QED BY <2>2, <2>4, SettleInv DEF draftVars
<1>6. ASSUME NEW p \in Proposals, NEW k \in 1..MaxRevision, TimerFires(p, k) PROVE ReviewInv'
  <2>1. TypeOK'
    BY <1>6, TimerFiresType DEF ReviewInv
  <2>2. \A x \in Reviews : timer[x] # "none" => timer'[x] # "none"
    BY <1>6, ReviewsType DEF TimerFires, ReviewInv, TypeOK
  <2>3. UNCHANGED <<rev, cur, first>>
    BY <1>6 DEF TimerFires, draftVars
  <2>4. CASE active
    BY <1>6, <2>1, <2>2, <2>3, <2>4, SettleInv DEF TimerFires
  <2>5. CASE ~active
    <3>1. UNCHANGED <<votes, status, deadline, applied>>
      BY <1>6, <2>5 DEF TimerFires
    <3>2. \A q \in Proposals : Spared(q)
      BY <3>1 DEF Spared
    <3>. QED BY <2>1, <2>2, <2>3, <3>1, <3>2, WithdrawInv
  <2>. QED BY <2>4, <2>5
<1>7. ASSUME NEW r \in Reviews, Elapse(r) PROVE ReviewInv'
  <2>1. TypeOK'
    BY <1>7, ElapseType DEF ReviewInv
  <2>2. UNCHANGED <<status, rev, cur, votes, first, deadline, timer, applied>>
    BY <1>7 DEF Elapse, draftVars
  <2>3. \A q \in Proposals : Spared(q)
    BY <2>2 DEF Spared
  <2>. QED BY <2>1, <2>2, <2>3, WithdrawInv
<1>8. CASE Outside
  <2>1. TypeOK' /\ TypeOK
    BY <1>8, OutsideType DEF ReviewInv
  <2>2. /\ UNCHANGED <<rev, cur, votes, first, deadline, timer, applied>>
        /\ \A q \in Proposals : Spared(q)
    BY <1>8, <2>1, OutsideSpares
  <2>. QED BY <2>1, <2>2, WithdrawInv
<1>9. CASE UNCHANGED vars
  <2>1. TypeOK'
    BY <1>9, StutterType DEF ReviewInv
  <2>2. UNCHANGED <<status, rev, cur, votes, first, deadline, timer, applied>>
    BY <1>9 DEF vars, draftVars, countdownVars
  <2>3. \A q \in Proposals : Spared(q)
    BY <2>2 DEF Spared
  <2>. QED BY <2>1, <2>2, <2>3, WithdrawInv
<1>. QED
  BY <1>1, <1>2, <1>3, <1>4, <1>5, <1>6, <1>7, <1>8, <1>9, StepCases

LEMMA ReviewInvariant == Spec => []ReviewInv
  BY ReviewInit, ReviewStep, PTL DEF Spec

\* Every variable keeps its type; the review a command works on always exists.
THEOREM TypeCorrect == Spec => []TypeOK
<1>1. ReviewInv => TypeOK
  BY DEF ReviewInv
<1>. QED BY <1>1, ReviewInvariant, PTL

\* A pending review has a seat to answer, no rejection, and its countdown from the first consent on.
THEOREM PendingStaysOpen == Spec => []PendingIsOpen
<1>1. ReviewInv => PendingIsOpen
  BY DEF ReviewInv
<1>. QED BY <1>1, ReviewInvariant, PTL

----------------------------------------------------------------------------
(* Proposal implements ConsentLedger.                                      *)

\* Consent to open seats, by a decision or by silence, with or without application.
LEMMA LedgerConsents ==
  ASSUME TypeOK, NEW r \in Reviews, NEW S \in SUBSET Seats,
         NEW v \in {"approved", "delegated", "timeout"},
         S \subseteq Open(r), \A s \in Seats : votes[r][s] # "rejected",
         v = "timeout" => \E s \in Seats : votes[r][s] \in {"approved", "delegated"},
         Mark(r, S, v), Convened(r),
         \/ applied' = applied
         \/ Open(r) \subseteq S /\ applied' = [applied EXCEPT ![r] = @ + 1]
  PROVE  Consents!Next
<1>1. \A s \in Seats : votes'[r][s] = IF s \in S THEN v ELSE votes[r][s]
  BY MarkEffect
<1>2. Consents!Consent(r, S, v)
  BY DEF Consents!Consent, Consents!Open, Consents!Rejected, Consents!Consented, Consents!Mark,
         Open, Mark
<1>3. Convened(r)' /\ \A s \in Seats : votes'[r][s] # "rejected"
  BY <1>1 DEF Convened
<1>4. Open(r) \subseteq S => \A s \in Seats : votes'[r][s] # "pending"
  BY <1>1 DEF Open
<1>5. Open(r) \subseteq S => Consents!Unanimous(r)'
  BY <1>3, <1>4
  DEF Convened, Consents!Unanimous, Consents!Convened, Consents!Open, Consents!Rejected
<1>6. Consents!MayApply(r)
  BY <1>5 DEF Consents!MayApply
<1>7. v \in Consents!Votes
  BY DEF Consents!Votes
<1>. QED BY <1>2, <1>6, <1>7 DEF Consents!Next

LEMMA LedgerSettles ==
  ASSUME ReviewInv, NEW p \in Proposals, NEW r \in Reviews, SettleTimeout(p, r)
  PROVE  Consents!Next \/ UNCHANGED <<votes, applied>>
<1>1. CASE status[p] = "pending" /\ Due(r)
  <2>1. Mark(r, Open(r), "timeout") /\ ApplyReviewed(p, r, deadline)
    BY <1>1 DEF SettleTimeout
  <2>2. deadline \in [Reviews -> BOOLEAN] /\ TypeOK
    BY DEF ReviewInv, TypeOK
  <2>3. applied' = applied \/ applied' = [applied EXCEPT ![r] = @ + 1]
    BY <2>1, <2>2, ApplyEffect
  <2>4. /\ Convened(r)
        /\ \E s \in Seats : votes[r][s] \in {"approved", "delegated"}
        /\ \A s \in Seats : votes[r][s] # "rejected"
    BY <1>1, DueConsented
  <2>5. Open(r) \in SUBSET Seats
    BY DEF Open
  <2>. QED BY <2>1, <2>2, <2>3, <2>4, <2>5, LedgerConsents
<1>2. CASE ~(status[p] = "pending" /\ Due(r))
  BY <1>2 DEF SettleTimeout
<1>. QED BY <1>1, <1>2

LEMMA ConsentApplies ==
  ASSUME TypeOK, NEW p \in Proposals, NEW S, NEW v, Consent(p, S, v), Current(p) \in Reviews
  PROVE  \/ applied' = applied
         \/ /\ Open(Current(p)) \subseteq S
            /\ applied' = [applied EXCEPT ![Current(p)] = @ + 1]
<1>. DEFINE r == Current(p)
            dl == IF first[r] THEN deadline ELSE [deadline EXCEPT ![r] = TRUE]
<1>1. IF Completes(r, S) THEN ApplyReviewed(p, r, dl) ELSE applied' = applied
  BY DEF Consent
<1>2. dl \in [Reviews -> BOOLEAN]
  BY DEF TypeOK
<1>. HIDE DEF dl
<1>3. CASE Completes(r, S)
  <2>1. applied' = applied \/ applied' = [applied EXCEPT ![r] = @ + 1]
    BY <1>1, <1>2, <1>3, ApplyEffect
  <2>. QED BY <1>3, <2>1 DEF Completes
<1>4. CASE ~Completes(r, S)
  BY <1>1, <1>4
<1>. QED BY <1>3, <1>4

LEMMA LedgerStep ==
  ASSUME ReviewInv, [Next]_vars
  PROVE  Consents!Next \/ UNCHANGED <<votes, applied>>
<1>0. TypeOK
  BY DEF ReviewInv
<1>1. ASSUME NEW p \in Proposals, NEW c \in Contents, NewRevision(p, c)
      PROVE  UNCHANGED <<votes, applied>>
  BY <1>1 DEF NewRevision
<1>2. ASSUME NEW p \in Proposals, NEW S \in SUBSET Seats, Submit(p, S) PROVE Consents!Next
  <2>1. <<p, rev[p]>> \in Reviews /\ ~Convened(<<p, rev[p]>>)
    <3>1. rev[p] \in 1..MaxRevision
      BY <1>2, BoundsAssumption DEF ReviewInv, TypeOK, Unsubmitted, Submit
    <3>. QED BY <1>2, <3>1, ReviewsType DEF ReviewInv, Unsubmitted, Submit
  <2>2. Consents!Convene(<<p, rev[p]>>, S)
    BY <1>2, <2>1 DEF Submit, Mark, Convened, Consents!Convene, Consents!Convened, Consents!Mark
  <2>. QED BY <2>1, <2>2 DEF Consents!Next
<1>3. ASSUME NEW p \in Proposals, NEW S \in SUBSET Seats, NEW v \in {"approved", "delegated"},
             Consent(p, S, v)
      PROVE  Consents!Next
  <2>1. Current(p) \in Reviews /\ OpenAt(Current(p)) /\ Convened(Current(p))
    BY <1>3, PendingReview DEF Consent
  <2>2. Mark(Current(p), S, v) /\ S \subseteq Open(Current(p))
    BY <1>3 DEF Consent
  <2>3. \/ applied' = applied
        \/ /\ Open(Current(p)) \subseteq S
           /\ applied' = [applied EXCEPT ![Current(p)] = @ + 1]
    BY <1>0, <1>3, <2>1, ConsentApplies
  <2>4. \A s \in Seats : votes[Current(p)][s] # "rejected"
    BY <2>1 DEF OpenAt
  <2>. QED BY <1>0, <2>1, <2>2, <2>3, <2>4, LedgerConsents
<1>4. ASSUME NEW p \in Proposals, NEW S \in SUBSET Seats, Reject(p, S) PROVE Consents!Next
  <2>1. Current(p) \in Reviews /\ OpenAt(Current(p))
    BY <1>4, PendingReview DEF Reject
  <2>2. Consents!Reject(Current(p), S)
    BY <1>4, <2>1
    DEF Reject, OpenAt, Open, Mark, Consents!Reject, Consents!Open, Consents!Rejected, Consents!Mark
  <2>. QED BY <2>1, <2>2 DEF Consents!Next
<1>5. ASSUME NEW p \in Proposals, LateDecision(p)
      PROVE  Consents!Next \/ UNCHANGED <<votes, applied>>
  BY <1>5, PendingReview, LedgerSettles DEF LateDecision
<1>6. ASSUME NEW p \in Proposals, NEW k \in 1..MaxRevision, TimerFires(p, k)
      PROVE  Consents!Next \/ UNCHANGED <<votes, applied>>
  <2>1. CASE active
    BY <1>6, <2>1, ReviewsType, LedgerSettles DEF TimerFires
  <2>2. CASE ~active
    BY <1>6, <2>2 DEF TimerFires
  <2>. QED BY <2>1, <2>2
<1>7. ASSUME NEW r \in Reviews, Elapse(r) PROVE UNCHANGED <<votes, applied>>
  BY <1>7 DEF Elapse
<1>8. CASE Outside
  BY <1>8, OutsideSpares
<1>9. CASE UNCHANGED vars
  BY <1>9 DEF vars
<1>. QED
  BY <1>1, <1>2, <1>3, <1>4, <1>5, <1>6, <1>7, <1>8, <1>9, StepCases

\* Consent: no review is applied unless all of its seats are answered without a rejection, whatever
\* timers, late decisions, revisions and withdrawals do to the proposal in between.
THEOREM ImplementsConsent == Spec => ConsentSpec
<1>1. Init => Consents!Init
  BY DEF Init, Consents!Init
<1>2. ReviewInv /\ [Next]_vars => [Consents!Next]_(Consents!ledger)
  BY LedgerStep DEF Consents!ledger
<1>. QED BY <1>1, <1>2, ReviewInvariant, PTL DEF Spec, ConsentSpec, Consents!Spec

----------------------------------------------------------------------------
(* Versions.                                                               *)

LEMMA MentionsType ==
  ASSUME TypeOK, NEW r \in Reviews
  PROVE  Targets(content[r]) \subseteq Objects /\ Mentions(content[r]) \subseteq Objects
<1>1. content[r] \in Contents \/ content[r] = NoContent
  BY DEF TypeOK
<1>2. content[r].refs \subseteq Objects /\ content[r].plans \subseteq Objects
  BY <1>1, ContentsAssumption DEF NoContent
<1>. QED BY <1>2 DEF Targets, Mentions

\* What application does to the objects, and to the drafts that other reviews name.
LEMMA ApplyWork ==
  ASSUME TypeOK, NEW p \in Proposals, NEW r \in Reviews, NEW dl, ApplyReviewed(p, r, dl)
  PROVE  /\ \A o \in Objects : version[o] <= version'[o]
         /\ \/ applied' = applied
            \/ \A o \in Targets(content[r]) : expected[r][o] = version[o] /\ version[o] < version'[o]
         /\ \A q \in Proposals \ {p} :
              (status'[q] = "pending" /\ cur[q] # 0 /\ Current(q) # r) =>
                \A o \in Mentions(content[Current(q)]) \cap Objects :
                  phase'[o] = "draft" => phase[o] = "draft" /\ version'[o] = version[o]
<1>1. CASE Fresh(r)
  <2>. DEFINE c == content[r]
              drafts == {o \in Targets(c) : phase[o] = "draft"}
  <2>1. /\ version' = [o \in Objects |-> IF o \in Targets(c) THEN version[o] + 1 ELSE version[o]]
        /\ phase' = [o \in Objects |-> PhaseAfter(c.op[o], phase[o])]
        /\ status' = [CancelAll(Withdrawn(drafts, r), status) EXCEPT ![p] = "approved"]
    BY <1>1 DEF ApplyReviewed
  <2>2. Targets(c) \subseteq Objects
    BY MentionsType
  <2>3. \A o \in Objects : version[o] \in Nat
    BY DEF TypeOK
  <2>4. \A o \in Objects : version[o] <= version'[o]
    BY <2>1, <2>3
  <2>5. \A o \in Targets(c) : expected[r][o] = version[o] /\ version[o] < version'[o]
    BY <1>1, <2>1, <2>2, <2>3 DEF Fresh
  <2>6. \A o \in Objects : phase'[o] = "draft" => phase[o] = "draft"
    BY <2>1 DEF PhaseAfter, TypeOK
  <2>7. ASSUME NEW q \in Proposals \ {p}, status'[q] = "pending", cur[q] # 0, Current(q) # r
        PROVE  q \notin Withdrawn(drafts, r) /\ status[q] = "pending"
    BY <2>1, <2>7 DEF CancelAll
  <2>8. ASSUME NEW q \in Proposals \ {p}, status'[q] = "pending", cur[q] # 0, Current(q) # r,
               NEW o \in Mentions(content[Current(q)]) \cap Objects, phase'[o] = "draft"
        PROVE  phase[o] = "draft" /\ version'[o] = version[o]
    <3>1. phase[o] = "draft"
      BY <2>6, <2>8
    <3>2. Mentions(content[Current(q)]) \cap drafts = {}
      BY <2>7, <2>8 DEF Withdrawn, Withdrawable
    <3>3. o \notin Targets(c)
      BY <2>8, <3>1, <3>2
    <3>. QED BY <2>1, <3>1, <3>3
  <2>. QED BY <2>4, <2>5, <2>8
<1>2. CASE ~Fresh(r)
  <2>1. UNCHANGED <<applied, version, phase>>
    BY <1>2 DEF ApplyReviewed, workVars
  <2>. QED BY <2>1 DEF TypeOK
<1>. QED BY <1>1, <1>2

VersionInv == AppliedBehind /\ ExclusiveVersions

LEMMA VersionKeep ==
  ASSUME TypeOK, TypeOK', VersionInv, applied' = applied,
         \A r \in Reviews : applied[r] > 0 => content'[r] = content[r] /\ expected'[r] = expected[r],
         \A o \in Objects : version[o] <= version'[o]
  PROVE  VersionInv'
<1>1. \A r \in Reviews : applied[r] > 0 =>
        /\ content'[r] = content[r] /\ expected'[r] = expected[r]
        /\ Targets(content[r])' = Targets(content[r]) /\ Targets(content[r]) \subseteq Objects
  BY MentionsType DEF Targets
<1>2. AppliedBehind'
  <2>. SUFFICES ASSUME NEW r \in Reviews, applied'[r] > 0, NEW o \in Targets(content[r])'
                PROVE  expected'[r][o] < version'[o]
    BY DEF AppliedBehind
  <2>1. expected[r][o] < version[o] /\ o \in Objects /\ expected'[r] = expected[r]
    BY <1>1 DEF VersionInv, AppliedBehind
  <2>2. expected[r][o] \in Nat /\ version[o] \in Nat /\ version'[o] \in Nat /\ version[o] <= version'[o]
    BY <2>1 DEF TypeOK
  <2>. QED BY <2>1, <2>2
<1>3. ExclusiveVersions'
  BY <1>1 DEF VersionInv, ExclusiveVersions
<1>. QED BY <1>2, <1>3 DEF VersionInv

LEMMA VersionApply ==
  ASSUME TypeOK, TypeOK', VersionInv, NEW r \in Reviews, applied' = [applied EXCEPT ![r] = @ + 1],
         UNCHANGED <<content, expected>>,
         \A o \in Targets(content[r]) : expected[r][o] = version[o] /\ version[o] < version'[o],
         \A o \in Objects : version[o] <= version'[o]
  PROVE  VersionInv'
<1>1. \A x \in Reviews : Targets(content[x])' = Targets(content[x]) /\ Targets(content[x]) \subseteq Objects
  BY MentionsType DEF Targets
<1>2. \A x \in Reviews : applied[x] \in Nat /\ applied'[x] = IF x = r THEN applied[x] + 1 ELSE applied[x]
  BY DEF TypeOK
<1>3. AppliedBehind'
  <2>. SUFFICES ASSUME NEW x \in Reviews, applied'[x] > 0, NEW o \in Targets(content[x])
                PROVE  expected[x][o] < version'[o]
    BY <1>1 DEF AppliedBehind
  <2>1. o \in Objects /\ expected[x][o] \in Nat /\ version[o] \in Nat /\ version'[o] \in Nat
    BY <1>1 DEF TypeOK
  <2>2. CASE x = r
    BY <2>2
  <2>3. CASE x # r
    <3>1. expected[x][o] < version[o]
      BY <1>2, <2>3 DEF VersionInv, AppliedBehind
    <3>. QED BY <2>1, <3>1
  <2>. QED BY <2>2, <2>3
<1>4. ExclusiveVersions'
  <2>1. \A x \in Reviews : \A o \in Targets(content[x]) \cap Targets(content[r]) :
          applied[x] > 0 => expected[x][o] # expected[r][o]
    <3>. SUFFICES ASSUME NEW x \in Reviews, NEW o \in Targets(content[x]) \cap Targets(content[r]),
                         applied[x] > 0
                  PROVE  expected[x][o] # expected[r][o]
      OBVIOUS
    <3>1. expected[x][o] \in Nat /\ version[o] \in Nat
      BY <1>1 DEF TypeOK
    <3>2. expected[x][o] < version[o] /\ expected[r][o] = version[o]
      BY DEF VersionInv, AppliedBehind
    <3>. QED BY <3>1, <3>2
  <2>. SUFFICES ASSUME NEW x \in Reviews, NEW y \in Reviews,
                       NEW o \in Targets(content[x]) \cap Targets(content[y]),
                       applied'[x] > 0, applied'[y] > 0, expected[x][o] = expected[y][o]
                PROVE  x = y /\ applied'[x] = 1
    BY <1>1 DEF ExclusiveVersions
  <2>2. CASE x = r /\ y = r
    <3>1. ~(applied[r] > 0)
      BY <2>1, <2>2
    <3>. QED BY <1>2, <2>2, <3>1
  <2>3. CASE x # r /\ y # r
    BY <1>2, <2>3 DEF VersionInv, ExclusiveVersions
  <2>4. CASE x = r /\ y # r
    BY <1>2, <2>1, <2>4
  <2>5. CASE x # r /\ y = r
    BY <1>2, <2>1, <2>5
  <2>. QED BY <2>2, <2>3, <2>4, <2>5
<1>. QED BY <1>3, <1>4 DEF VersionInv

\* A step writes no work object, or moves one, or applies one review.
LEMMA NewRevisionVersions ==
  ASSUME ReviewInv, TypeOK', VersionInv, NEW p \in Proposals, NEW c \in Contents, NewRevision(p, c)
  PROVE  VersionInv'
<1>1. rev[p] \in 0..MaxRevision /\ rev[p] < MaxRevision /\ TypeOK
  BY DEF NewRevision, ReviewInv, TypeOK
<1>2. rev[p] + 1 \in 1..MaxRevision /\ rev[p] + 1 > rev[p]
  BY <1>1, BoundsAssumption
<1>3. ~(applied[<<p, rev[p] + 1>>] > 0)
  BY <1>2, ReviewsType DEF ReviewInv, Unsubmitted, VotesRemembered
<1>4. \A r \in Reviews \ {<<p, rev[p] + 1>>} : content'[r] = content[r] /\ expected'[r] = expected[r]
  BY <1>1 DEF NewRevision, TypeOK
<1>5. UNCHANGED <<applied, version>>
  BY DEF NewRevision, workVars
<1>6. \A o \in Objects : version[o] <= version'[o]
  BY <1>1, <1>5 DEF TypeOK
<1>. QED BY <1>1, <1>3, <1>4, <1>5, <1>6, VersionKeep

LEMMA ApplyVersions ==
  ASSUME ReviewInv, TypeOK', VersionInv, NEW p \in Proposals, NEW r \in Reviews,
         NEW dl \in [Reviews -> BOOLEAN], ApplyReviewed(p, r, dl), UNCHANGED <<content, expected>>
  PROVE  VersionInv'
<1>1. TypeOK
  BY DEF ReviewInv
<1>2. \A o \in Objects : version[o] <= version'[o]
  BY <1>1, ApplyWork
<1>3. applied' = applied \/ applied' = [applied EXCEPT ![r] = @ + 1]
  BY <1>1, ApplyEffect
<1>4. \/ applied' = applied
      \/ \A o \in Targets(content[r]) : expected[r][o] = version[o] /\ version[o] < version'[o]
  BY <1>1, ApplyWork
<1>5. CASE applied' = applied
  BY <1>1, <1>2, <1>5, VersionKeep
<1>6. CASE applied' # applied
  BY <1>1, <1>2, <1>3, <1>4, <1>6, VersionApply
<1>. QED BY <1>5, <1>6

LEMMA SettleVersions ==
  ASSUME ReviewInv, TypeOK', VersionInv, NEW p \in Proposals, NEW r \in Reviews,
         SettleTimeout(p, r), UNCHANGED draftVars
  PROVE  VersionInv'
<1>1. CASE status[p] = "pending" /\ Due(r)
  <2>1. ApplyReviewed(p, r, deadline)
    BY <1>1 DEF SettleTimeout
  <2>2. deadline \in [Reviews -> BOOLEAN]
    BY DEF ReviewInv, TypeOK
  <2>. QED BY <2>1, <2>2, ApplyVersions DEF draftVars
<1>2. CASE ~(status[p] = "pending" /\ Due(r))
  <2>1. UNCHANGED <<applied, version>>
    BY <1>2 DEF SettleTimeout, workVars
  <2>2. \A o \in Objects : version[o] <= version'[o]
    BY <2>1 DEF ReviewInv, TypeOK
  <2>. QED BY <2>1, <2>2, VersionKeep DEF ReviewInv, draftVars
<1>. QED BY <1>1, <1>2

LEMMA VersionStep == ReviewInv /\ ReviewInv' /\ VersionInv /\ [Next]_vars => VersionInv'
<1>. SUFFICES ASSUME ReviewInv, ReviewInv', VersionInv, [Next]_vars PROVE VersionInv'
  OBVIOUS
<1>0. TypeOK /\ TypeOK'
  BY DEF ReviewInv
<1>1. ASSUME NEW p \in Proposals, NEW c \in Contents, NewRevision(p, c) PROVE VersionInv'
  BY <1>0, <1>1, NewRevisionVersions
<1>2. ASSUME UNCHANGED <<content, expected, applied>>, \A o \in Objects : version[o] <= version'[o]
      PROVE  VersionInv'
  BY <1>0, <1>2, VersionKeep
<1>3. ASSUME UNCHANGED <<content, expected, applied, version>> PROVE VersionInv'
  <2>1. \A o \in Objects : version[o] <= version'[o]
    BY <1>0, <1>3 DEF TypeOK
  <2>. QED BY <1>2, <1>3, <2>1
<1>4. ASSUME NEW p \in Proposals, NEW S \in SUBSET Seats, NEW v \in {"approved", "delegated"},
             Consent(p, S, v)
      PROVE  VersionInv'
  <2>. DEFINE r == Current(p)
              dl == IF first[r] THEN deadline ELSE [deadline EXCEPT ![r] = TRUE]
  <2>1. r \in Reviews
    BY <1>4, PendingReview DEF Consent
  <2>2. /\ IF Completes(r, S) THEN ApplyReviewed(p, r, dl) ELSE UNCHANGED <<status, applied, workVars>>
        /\ UNCHANGED <<content, expected>>
    BY <1>4 DEF Consent, draftVars
  <2>3. dl \in [Reviews -> BOOLEAN]
    BY <1>0 DEF TypeOK
  <2>. HIDE DEF dl
  <2>4. CASE Completes(r, S)
    BY <1>0, <2>1, <2>2, <2>3, <2>4, ApplyVersions
  <2>5. CASE ~Completes(r, S)
    BY <1>3, <2>2, <2>5 DEF workVars
  <2>. QED BY <2>4, <2>5
<1>5. ASSUME NEW p \in Proposals, LateDecision(p) PROVE VersionInv'
  BY <1>0, <1>5, PendingReview, SettleVersions DEF LateDecision
<1>6. ASSUME NEW p \in Proposals, NEW k \in 1..MaxRevision, TimerFires(p, k) PROVE VersionInv'
  <2>1. CASE active
    BY <1>0, <1>6, <2>1, ReviewsType, SettleVersions DEF TimerFires
  <2>2. CASE ~active
    BY <1>3, <1>6, <2>2 DEF TimerFires, draftVars, workVars
  <2>. QED BY <2>1, <2>2
<1>7. ASSUME Outside PROVE VersionInv'
  <2>1. UNCHANGED <<content, expected, applied>>
    BY <1>7, OutsideSpares
  <2>2. \A o \in Objects : version[o] \in Nat
    BY <1>0 DEF TypeOK
  <2>3. \/ version' = version
        \/ \E o \in Objects : version' = [version EXCEPT ![o] = @ + 1]
    BY <1>7 DEF Outside, EditDraft, WorkMoves, FlowChanges, Archive, Restore, workVars
  <2>4. \A o \in Objects : version[o] <= version'[o]
    <3>1. ASSUME NEW o \in Objects, version' = [version EXCEPT ![o] = @ + 1]
          PROVE  \A i \in Objects : version'[i] = IF i = o THEN version[i] + 1 ELSE version[i]
      BY <1>0, <3>1 DEF TypeOK
    <3>. QED BY <2>2, <2>3, <3>1
  <2>. QED BY <1>2, <2>1, <2>4
<1>8. ASSUME NEW p \in Proposals, NEW S \in SUBSET Seats, Submit(p, S) \/ Reject(p, S)
      PROVE  VersionInv'
  BY <1>3, <1>8 DEF Submit, Reject, draftVars, workVars
<1>9. ASSUME NEW r \in Reviews, Elapse(r) PROVE VersionInv'
  BY <1>3, <1>9 DEF Elapse, draftVars, workVars
<1>10. CASE UNCHANGED vars
  BY <1>3, <1>10 DEF vars, draftVars, workVars
<1>. QED
  BY <1>1, <1>4, <1>5, <1>6, <1>7, <1>8, <1>9, <1>10, StepCases

\* Two reviews drafted against the same version of an object are never both applied, and no review
\* that changes an object is applied twice.
THEOREM VersionsStayExclusive == Spec => []ExclusiveVersions
<1>1. Init => VersionInv
  BY DEF Init, VersionInv, AppliedBehind, ExclusiveVersions
<1>2. ReviewInv /\ ReviewInv' /\ VersionInv /\ [Next]_vars => VersionInv'
  BY VersionStep
<1>3. VersionInv => ExclusiveVersions
  BY DEF VersionInv
<1>. QED BY <1>1, <1>2, <1>3, ReviewInvariant, PTL DEF Spec

----------------------------------------------------------------------------
(* What the seats were shown.                                              *)

ShownAt(q) ==
  status[q] = "pending" =>
    \A o \in Mentions(content[Current(q)]) : phase[o] = "draft" => shown[Current(q)][o] = version[o]

LEMMA ShownKeep ==
  ASSUME TypeOK, TypeOK', NEW q \in Proposals, ShownAt(q),
         status'[q] = "pending" =>
           /\ status[q] = "pending" /\ cur'[q] = cur[q] /\ Current(q) \in Reviews
           /\ content'[Current(q)] = content[Current(q)] /\ shown'[Current(q)] = shown[Current(q)]
           /\ \A o \in Mentions(content[Current(q)]) \cap Objects :
                phase'[o] = "draft" => phase[o] = "draft" /\ version'[o] = version[o]
  PROVE  ShownAt(q)'
<1>. SUFFICES ASSUME status'[q] = "pending",
                     NEW o \in Mentions(content[Current(q)])', phase'[o] = "draft"
              PROVE  shown'[Current(q)'][o] = version'[o]
  BY DEF ShownAt
<1>1. Current(q)' = Current(q)
  BY DEF Current
<1>2. o \in Mentions(content[Current(q)])
  BY <1>1 DEF Mentions, Targets
<1>3. o \in Objects
  BY <1>2, MentionsType
<1>. QED BY <1>1, <1>2, <1>3 DEF ShownAt

\* Steps that write neither work nor a submission.
LEMMA ShownQuiet ==
  ASSUME ReviewInv, ReviewInv', ShownIsCurrent, UNCHANGED <<version, phase, shown, cur, content>>,
         \A q \in Proposals : status'[q] = "pending" => status[q] = "pending"
  PROVE  ShownIsCurrent'
<1>1. \A q \in Proposals : ShownAt(q)
  BY DEF ShownIsCurrent, ShownAt
<1>2. \A q \in Proposals : ShownAt(q)'
  BY <1>1, ShownKeep, PendingReview DEF ReviewInv
<1>. QED BY <1>2 DEF ShownIsCurrent, ShownAt

LEMMA ApplyShown ==
  ASSUME ReviewInv, ReviewInv', ShownIsCurrent, NEW p \in Proposals, NEW k \in 1..MaxRevision,
         NEW dl \in [Reviews -> BOOLEAN], ApplyReviewed(p, <<p, k>>, dl),
         UNCHANGED <<shown, cur, content>>
  PROVE  ShownIsCurrent'
<1>1. TypeOK /\ TypeOK' /\ <<p, k>> \in Reviews
  BY ReviewsType DEF ReviewInv
<1>2. status'[p] # "pending" /\ \A q \in Proposals \ {p} : Spared(q)
  BY <1>1, ApplyEffect
<1>3. \A q \in Proposals \ {p} : status'[q] = "pending" =>
        status[q] = "pending" /\ cur[q] # 0 /\ Current(q) \in Reviews /\ Current(q) # <<p, k>>
  BY <1>2, PendingReview DEF Spared, Current
<1>4. \A q \in Proposals \ {p} : status'[q] = "pending" =>
        \A o \in Mentions(content[Current(q)]) \cap Objects :
          phase'[o] = "draft" => phase[o] = "draft" /\ version'[o] = version[o]
  BY <1>1, <1>3, ApplyWork
<1>5. \A q \in Proposals : ShownAt(q)
  BY DEF ShownIsCurrent, ShownAt
<1>6. \A q \in Proposals \ {p} : ShownAt(q)'
  BY <1>1, <1>3, <1>4, <1>5, ShownKeep
<1>7. ShownAt(p)'
  BY <1>2 DEF ShownAt
<1>. QED BY <1>6, <1>7 DEF ShownIsCurrent, ShownAt

LEMMA SettleShown ==
  ASSUME ReviewInv, ReviewInv', ShownIsCurrent, NEW p \in Proposals, NEW k \in 1..MaxRevision,
         SettleTimeout(p, <<p, k>>), UNCHANGED <<shown, cur, content>>
  PROVE  ShownIsCurrent'
<1>1. CASE status[p] = "pending" /\ Due(<<p, k>>)
  <2>1. ApplyReviewed(p, <<p, k>>, deadline) /\ deadline \in [Reviews -> BOOLEAN]
    BY <1>1 DEF SettleTimeout, ReviewInv, TypeOK
  <2>. QED BY <2>1, ApplyShown
<1>2. CASE ~(status[p] = "pending" /\ Due(<<p, k>>))
  <2>1. UNCHANGED <<status, version, phase>>
    BY <1>2 DEF SettleTimeout, workVars
  <2>. QED BY <2>1, ShownQuiet
<1>. QED BY <1>1, <1>2

LEMMA EditShown ==
  ASSUME ReviewInv, ReviewInv', ShownIsCurrent,
         NEW o \in Objects, NEW ph \in Phases,
         EditDraft(o, ph) \/ WorkMoves(o, ph)
  PROVE  ShownIsCurrent'
<1>1. TypeOK /\ TypeOK'
  BY DEF ReviewInv
<1>2. /\ version' = [version EXCEPT ![o] = @ + 1] /\ phase' = [phase EXCEPT ![o] = ph]
      /\ UNCHANGED <<cur, content, shown>>
  BY DEF EditDraft, WorkMoves, draftVars, frozenVars
<1>3. \A i \in Objects \ {o} : phase'[i] = phase[i] /\ version'[i] = version[i]
  BY <1>1, <1>2 DEF TypeOK
<1>4. \A q \in Proposals : status'[q] = "pending" => status[q] = "pending"
  BY OutsideSpares DEF Outside, Spared
<1>5. ASSUME NEW q \in Proposals, status'[q] = "pending", o \in Mentions(content[Current(q)])
      PROVE  phase'[o] # "draft"
  <2>1. CASE EditDraft(o, ph)
    <3>1. q \notin Withdrawn({o}, <<>>)
      BY <1>5, <2>1 DEF EditDraft, CancelAll
    <3>2. status[q] = "pending" /\ cur[q] # 0 /\ Current(q) # <<>>
      BY <1>4, <1>5, PendingReview DEF ReviewInv, PendingIsOpen
    <3>. QED BY <1>5, <3>1, <3>2 DEF Withdrawn, Withdrawable
  <2>2. CASE WorkMoves(o, ph)
    BY <1>1, <1>2, <2>2 DEF WorkMoves, TypeOK
  <2>. QED BY <2>1, <2>2
<1>6. \A q \in Proposals : ShownAt(q)
  BY DEF ShownIsCurrent, ShownAt
<1>7. \A q \in Proposals : ShownAt(q)'
  <2>. SUFFICES ASSUME NEW q \in Proposals, status'[q] = "pending" PROVE ShownAt(q)'
    BY DEF ShownAt
  <2>1. status[q] = "pending" /\ Current(q) \in Reviews
    BY <1>4, PendingReview
  <2>2. \A i \in Mentions(content[Current(q)]) \cap Objects :
          phase'[i] = "draft" => phase[i] = "draft" /\ version'[i] = version[i]
    BY <1>3, <1>5
  <2>. QED BY <1>1, <1>2, <1>6, <2>1, <2>2, ShownKeep
<1>. QED BY <1>7 DEF ShownIsCurrent, ShownAt

LEMMA SubmitShown ==
  ASSUME ReviewInv, ReviewInv', ShownIsCurrent, NEW p \in Proposals, NEW S \in SUBSET Seats,
         Submit(p, S)
  PROVE  ShownIsCurrent'
<1>. DEFINE r == <<p, rev[p]>>
<1>1. TypeOK /\ TypeOK' /\ r \in Reviews
  <2>1. rev[p] \in 1..MaxRevision
    BY BoundsAssumption DEF ReviewInv, TypeOK, Unsubmitted, Submit
  <2>. QED BY <2>1, ReviewsType DEF ReviewInv
<1>2. /\ shown' = [shown EXCEPT ![r] = version]
      /\ status' = [status EXCEPT ![p] = "pending"]
      /\ cur' = [cur EXCEPT ![p] = rev[p]]
      /\ UNCHANGED <<version, phase, content>>
  BY DEF Submit, draftVars, workVars
<1>3. Current(p)' = r /\ shown'[r] = version
  BY <1>1, <1>2 DEF Current, TypeOK
<1>4. \A q \in Proposals \ {p} : status'[q] = status[q] /\ cur'[q] = cur[q]
  BY <1>1, <1>2 DEF TypeOK
<1>5. \A q \in Proposals \ {p} : status'[q] = "pending" =>
        Current(q) \in Reviews /\ shown'[Current(q)] = shown[Current(q)]
  BY <1>1, <1>2, <1>4, PendingReview DEF TypeOK, Current
<1>6. \A q \in Proposals : ShownAt(q)
  BY DEF ShownIsCurrent, ShownAt
<1>7. \A q \in Proposals \ {p} : ShownAt(q)'
  BY <1>1, <1>2, <1>4, <1>5, <1>6, ShownKeep
<1>8. ShownAt(p)'
  BY <1>2, <1>3 DEF ShownAt
<1>. QED BY <1>7, <1>8 DEF ShownIsCurrent, ShownAt

LEMMA NewRevisionShown ==
  ASSUME ReviewInv, ReviewInv', ShownIsCurrent, NEW p \in Proposals, NEW c \in Contents,
         NewRevision(p, c)
  PROVE  ShownIsCurrent'
<1>1. TypeOK /\ TypeOK'
  BY DEF ReviewInv
<1>2. /\ status' = [status EXCEPT ![p] = "draft"] /\ cur' = [cur EXCEPT ![p] = 0]
      /\ content' = [content EXCEPT ![<<p, rev[p] + 1>>] = c]
      /\ UNCHANGED <<version, phase, shown>>
  BY DEF NewRevision, frozenVars, workVars
<1>3. status'[p] # "pending"
  BY <1>1, <1>2 DEF TypeOK
<1>4. \A q \in Proposals \ {p} : status'[q] = status[q] /\ cur'[q] = cur[q]
  BY <1>1, <1>2 DEF TypeOK
<1>5. \A q \in Proposals \ {p} : status'[q] = "pending" =>
        Current(q) \in Reviews /\ content'[Current(q)] = content[Current(q)]
  BY <1>1, <1>2, <1>4, PendingReview DEF TypeOK, Current
<1>6. \A q \in Proposals : ShownAt(q)
  BY DEF ShownIsCurrent, ShownAt
<1>7. \A q \in Proposals \ {p} : ShownAt(q)'
  BY <1>1, <1>2, <1>4, <1>5, <1>6, ShownKeep
<1>8. ShownAt(p)'
  BY <1>3 DEF ShownAt
<1>. QED BY <1>7, <1>8 DEF ShownIsCurrent, ShownAt

LEMMA ShownStep == ReviewInv /\ ReviewInv' /\ ShownIsCurrent /\ [Next]_vars => ShownIsCurrent'
<1>. SUFFICES ASSUME ReviewInv, ReviewInv', ShownIsCurrent, [Next]_vars PROVE ShownIsCurrent'
  OBVIOUS
<1>1. ASSUME NEW p \in Proposals, NEW c \in Contents, NewRevision(p, c) PROVE ShownIsCurrent'
  BY <1>1, NewRevisionShown
<1>2. ASSUME NEW p \in Proposals, NEW S \in SUBSET Seats, Submit(p, S) PROVE ShownIsCurrent'
  BY <1>2, SubmitShown
<1>3. ASSUME NEW p \in Proposals, NEW S \in SUBSET Seats, NEW v \in {"approved", "delegated"},
             Consent(p, S, v)
      PROVE  ShownIsCurrent'
  <2>0. PICK k \in 1..MaxRevision : Current(p) = <<p, k>>
    BY <1>3, PendingReview DEF Consent
  <2>. DEFINE r == <<p, k>>
              dl == IF first[r] THEN deadline ELSE [deadline EXCEPT ![r] = TRUE]
  <2>1. /\ IF Completes(r, S) THEN ApplyReviewed(p, r, dl) ELSE UNCHANGED <<status, applied, workVars>>
        /\ UNCHANGED <<shown, cur, content>>
    BY <1>3, <2>0 DEF Consent, draftVars, frozenVars
  <2>2. dl \in [Reviews -> BOOLEAN]
    BY DEF ReviewInv, TypeOK
  <2>. HIDE DEF dl
  <2>3. CASE Completes(r, S)
    BY <2>1, <2>2, <2>3, ApplyShown
  <2>4. CASE ~Completes(r, S)
    BY <2>1, <2>4, ShownQuiet DEF workVars
  <2>. QED BY <2>3, <2>4
<1>4. ASSUME NEW p \in Proposals, LateDecision(p) PROVE ShownIsCurrent'
  <2>1. PICK k \in 1..MaxRevision : Current(p) = <<p, k>>
    BY <1>4, PendingReview DEF LateDecision
  <2>. QED BY <1>4, <2>1, SettleShown DEF LateDecision, draftVars, frozenVars
<1>5. ASSUME NEW p \in Proposals, NEW k \in 1..MaxRevision, TimerFires(p, k) PROVE ShownIsCurrent'
  <2>1. UNCHANGED <<shown, cur, content>>
    BY <1>5 DEF TimerFires, draftVars, frozenVars
  <2>2. CASE active
    BY <1>5, <2>1, <2>2, SettleShown DEF TimerFires
  <2>3. CASE ~active
    BY <1>5, <2>1, <2>3, ShownQuiet DEF TimerFires, workVars
  <2>. QED BY <2>2, <2>3
<1>6. ASSUME NEW o \in Objects, NEW ph \in Phases,
             EditDraft(o, ph) \/ WorkMoves(o, ph)
      PROVE  ShownIsCurrent'
  BY <1>6, EditShown
<1>7. ASSUME NEW p \in Proposals, NEW S \in SUBSET Seats, Reject(p, S) PROVE ShownIsCurrent'
  <2>1. /\ UNCHANGED <<version, phase, shown, cur, content>>
        /\ status' = [status EXCEPT ![p] = "cancelled"]
    BY <1>7 DEF Reject, draftVars, frozenVars, workVars
  <2>2. \A q \in Proposals : status'[q] = "pending" => status[q] = "pending"
    BY <2>1 DEF ReviewInv, TypeOK
  <2>. QED BY <2>1, <2>2, ShownQuiet
<1>8. ASSUME (\E r \in Reviews : Elapse(r)) \/ FlowChanges \/ Archive \/ Restore \/ UNCHANGED vars
      PROVE  ShownIsCurrent'
  <2>1. UNCHANGED <<status, version, phase, shown, cur, content>>
    BY <1>8 DEF Elapse, FlowChanges, Archive, Restore, vars, draftVars, frozenVars, workVars
  <2>. QED BY <2>1, ShownQuiet
<1>. QED
  BY <1>1, <1>2, <1>3, <1>4, <1>5, <1>6, <1>7, <1>8, StepCases DEF Outside

\* No pending review asks for consent to a draft that has changed since it was shown.
THEOREM ShownStaysCurrent == Spec => []ShownIsCurrent
<1>1. Init => ShownIsCurrent
  BY DEF Init, ShownIsCurrent
<1>2. ReviewInv /\ ReviewInv' /\ ShownIsCurrent /\ [Next]_vars => ShownIsCurrent'
  BY ShownStep
<1>. QED BY <1>1, <1>2, ReviewInvariant, PTL DEF Spec

----------------------------------------------------------------------------
(* The first review of a proposal.                                         *)

FirstAt(p) ==
  status[p] = "approved" =>
    /\ cur[p] # 0
    /\ (\A k \in 1..MaxRevision : k # cur[p] => ~Convened(<<p, k>>)) => Answered(Current(p))

FirstInv == \A p \in Proposals : FirstAt(p)

\* A proposal that stays approved keeps its votes.
LEMMA FirstKeep ==
  ASSUME NEW q \in Proposals, FirstAt(q),
         status'[q] = "approved" =>
           /\ status[q] = "approved" /\ cur'[q] = cur[q]
           /\ \A k \in 1..MaxRevision : votes'[<<q, k>>] = votes[<<q, k>>]
           /\ votes'[Current(q)] = votes[Current(q)]
  PROVE  FirstAt(q)'
<1>. SUFFICES ASSUME status'[q] = "approved",
                     \A k \in 1..MaxRevision : k # cur'[q] => ~Convened(<<q, k>>)'
              PROVE  Answered(Current(q))'
  BY DEF FirstAt
<1>1. Current(q)' = Current(q)
  BY DEF Current
<1>2. Answered(Current(q))
  BY DEF FirstAt, Convened
<1>. QED BY <1>1, <1>2 DEF Answered

\* The review r = <<p, k>> is marked and applied: it is answered, or another one than the current.
LEMMA FirstApply ==
  ASSUME ReviewInv, ReviewInv', FirstInv, NEW p \in Proposals, NEW k \in 1..MaxRevision,
         status[p] = "pending", NEW dl \in [Reviews -> BOOLEAN], ApplyReviewed(p, <<p, k>>, dl),
         NEW S, NEW v \in {"approved", "delegated", "timeout"}, Mark(<<p, k>>, S, v),
         Open(<<p, k>>) \subseteq S, \A s \in Seats : votes[<<p, k>>][s] # "rejected",
         Convened(<<p, k>>), UNCHANGED cur
  PROVE  FirstInv'
<1>. DEFINE r == <<p, k>>
<1>1. TypeOK /\ TypeOK' /\ r \in Reviews
  BY ReviewsType DEF ReviewInv
<1>2. /\ \A x \in Reviews \ {r} : votes'[x] = votes[x]
      /\ \A s \in Seats : votes'[r][s] = IF s \in S THEN v ELSE votes[r][s]
  BY <1>1, MarkEffect
<1>3. \A q \in Proposals \ {p} : Spared(q)
  BY <1>1, ApplyEffect
<1>4. \A s \in Seats : votes'[r][s] \in {"none", "approved", "delegated", "timeout"}
  <2>1. \A s \in Seats : votes[r][s] \in Votes
    BY <1>1 DEF TypeOK
  <2>2. \A s \in Seats : votes[r][s] = "pending" => s \in S
    BY DEF Open
  <2>. QED BY <1>2, <2>1, <2>2 DEF Votes
<1>5. Convened(r)'
  BY <1>2 DEF Convened
<1>6. FirstAt(p)'
  <2>. SUFFICES ASSUME \A i \in 1..MaxRevision : i # cur'[p] => ~Convened(<<p, i>>)'
                PROVE  Answered(Current(p))'
    BY PendingReview DEF FirstAt
  <2>1. Current(p)' = r
    <3>1. cur[p] \in 1..MaxRevision
      BY PendingReview
    <3>. QED BY <1>5, <3>1 DEF Current
  <2>. QED BY <1>4, <2>1 DEF Answered
<1>7. \A q \in Proposals \ {p} : FirstAt(q)'
  <2>. SUFFICES ASSUME NEW q \in Proposals \ {p}, status'[q] = "approved" PROVE FirstAt(q)'
    BY DEF FirstAt
  <2>1. status[q] = "approved"
    BY <1>3 DEF Spared
  <2>2. FirstAt(q) /\ Current(q) \in Reviews \ {r}
    <3>1. cur[q] \in 1..MaxRevision
      BY <1>1, <2>1, BoundsAssumption DEF FirstInv, FirstAt, TypeOK
    <3>. QED BY <3>1, ReviewsType DEF FirstInv, Current
  <2>3. \A i \in 1..MaxRevision : votes'[<<q, i>>] = votes[<<q, i>>]
    BY <1>2, ReviewsType
  <2>. QED BY <1>2, <2>1, <2>2, <2>3, FirstKeep
<1>. QED BY <1>6, <1>7 DEF FirstInv

LEMMA FirstQuiet ==
  ASSUME FirstInv, UNCHANGED <<votes, cur>>,
         \A q \in Proposals : status'[q] = "approved" => status[q] = "approved"
  PROVE  FirstInv'
  BY FirstKeep DEF FirstInv

\* Steps that change the votes and the submission of a proposal that ends up unapproved.
LEMMA FirstOther ==
  ASSUME ReviewInv, FirstInv, NEW p \in Proposals, status'[p] # "approved",
         \A q \in Proposals \ {p} :
           /\ status'[q] = status[q] /\ cur'[q] = cur[q]
           /\ \A k \in 1..MaxRevision : votes'[<<q, k>>] = votes[<<q, k>>]
  PROVE  FirstInv'
<1>1. FirstAt(p)'
  BY DEF FirstAt
<1>2. \A q \in Proposals \ {p} : FirstAt(q)'
  <2>. SUFFICES ASSUME NEW q \in Proposals \ {p}, status'[q] = "approved" PROVE FirstAt(q)'
    BY DEF FirstAt
  <2>1. FirstAt(q) /\ cur[q] \in 1..MaxRevision
    BY BoundsAssumption DEF FirstInv, FirstAt, ReviewInv, TypeOK
  <2>. QED BY <2>1, FirstKeep DEF Current
<1>. QED BY <1>1, <1>2 DEF FirstInv

LEMMA SettleFirst ==
  ASSUME ReviewInv, ReviewInv', FirstInv, NEW p \in Proposals, NEW k \in 1..MaxRevision,
         SettleTimeout(p, <<p, k>>), UNCHANGED cur
  PROVE  FirstInv'
<1>1. CASE status[p] = "pending" /\ Due(<<p, k>>)
  <2>1. /\ ApplyReviewed(p, <<p, k>>, deadline) /\ Mark(<<p, k>>, Open(<<p, k>>), "timeout")
        /\ deadline \in [Reviews -> BOOLEAN]
    BY <1>1 DEF SettleTimeout, ReviewInv, TypeOK
  <2>2. Convened(<<p, k>>) /\ \A s \in Seats : votes[<<p, k>>][s] # "rejected"
    BY <1>1, ReviewsType, DueConsented
  <2>. QED BY <1>1, <2>1, <2>2, FirstApply
<1>2. CASE ~(status[p] = "pending" /\ Due(<<p, k>>))
  <2>1. UNCHANGED <<votes, status>>
    BY <1>2 DEF SettleTimeout
  <2>. QED BY <2>1, FirstQuiet
<1>. QED BY <1>1, <1>2

LEMMA FirstStep == ReviewInv /\ ReviewInv' /\ FirstInv /\ [Next]_vars => FirstInv'
<1>. SUFFICES ASSUME ReviewInv, ReviewInv', FirstInv, [Next]_vars PROVE FirstInv'
  OBVIOUS
<1>0. TypeOK /\ TypeOK'
  BY DEF ReviewInv
<1>1. ASSUME NEW p \in Proposals, NEW c \in Contents, NewRevision(p, c) PROVE FirstInv'
  <2>1. /\ status' = [status EXCEPT ![p] = "draft"] /\ cur' = [cur EXCEPT ![p] = 0]
        /\ votes' = votes
    BY <1>1 DEF NewRevision
  <2>2. /\ status'[p] # "approved"
        /\ \A q \in Proposals \ {p} : status'[q] = status[q] /\ cur'[q] = cur[q]
    BY <1>0, <2>1 DEF TypeOK
  <2>. QED BY <2>1, <2>2, FirstOther
<1>2. ASSUME NEW p \in Proposals, NEW S \in SUBSET Seats, Submit(p, S) PROVE FirstInv'
  <2>1. /\ status' = [status EXCEPT ![p] = "pending"] /\ cur' = [cur EXCEPT ![p] = rev[p]]
        /\ votes' = [votes EXCEPT ![<<p, rev[p]>>] =
                       [s \in Seats |-> IF s \in S THEN "pending" ELSE @[s]]]
    BY <1>2 DEF Submit, Mark
  <2>2. /\ status'[p] # "approved"
        /\ \A q \in Proposals \ {p} : status'[q] = status[q] /\ cur'[q] = cur[q]
    BY <1>0, <2>1 DEF TypeOK
  <2>3. \A q \in Proposals \ {p}, k \in 1..MaxRevision : votes'[<<q, k>>] = votes[<<q, k>>]
    BY <1>0, <2>1, ReviewsType DEF TypeOK
  <2>. QED BY <2>2, <2>3, FirstOther
<1>3. ASSUME NEW p \in Proposals, NEW S \in SUBSET Seats, NEW v \in {"approved", "delegated"},
             Consent(p, S, v)
      PROVE  FirstInv'
  <2>0. PICK k \in 1..MaxRevision :
          Current(p) = <<p, k>> /\ OpenAt(<<p, k>>) /\ Convened(<<p, k>>)
    BY <1>3, PendingReview DEF Consent
  <2>. DEFINE r == <<p, k>>
              dl == IF first[r] THEN deadline ELSE [deadline EXCEPT ![r] = TRUE]
  <2>1. /\ IF Completes(r, S) THEN ApplyReviewed(p, r, dl) ELSE UNCHANGED <<status, applied, workVars>>
        /\ status[p] = "pending" /\ Mark(r, S, v) /\ UNCHANGED cur
    BY <1>3, <2>0 DEF Consent
  <2>2. dl \in [Reviews -> BOOLEAN]
    BY <1>0 DEF TypeOK
  <2>. HIDE DEF dl
  <2>3. CASE Completes(r, S)
    <3>1. ApplyReviewed(p, r, dl) /\ Open(r) \subseteq S /\ \A s \in Seats : votes[r][s] # "rejected"
      BY <2>0, <2>1, <2>3 DEF Completes, OpenAt
    <3>. QED BY <2>0, <2>1, <2>2, <3>1, FirstApply
  <2>4. CASE ~Completes(r, S)
    <3>1. UNCHANGED <<status, cur>> /\ status[p] = "pending"
      BY <2>1, <2>4
    <3>2. \A x \in Reviews \ {r} : votes'[x] = votes[x]
      BY <1>0, <2>1, ReviewsType, MarkEffect
    <3>3. \A q \in Proposals \ {p}, i \in 1..MaxRevision : votes'[<<q, i>>] = votes[<<q, i>>]
      BY <3>2, ReviewsType
    <3>. QED BY <3>1, <3>3, FirstOther
  <2>. QED BY <2>3, <2>4
<1>4. ASSUME NEW p \in Proposals, NEW S \in SUBSET Seats, Reject(p, S) PROVE FirstInv'
  <2>1. PICK k \in 1..MaxRevision : Current(p) = <<p, k>>
    BY <1>4, PendingReview DEF Reject
  <2>2. status' = [status EXCEPT ![p] = "cancelled"] /\ cur' = cur /\ Mark(<<p, k>>, S, "rejected")
    BY <1>4, <2>1 DEF Reject
  <2>3. /\ status'[p] # "approved"
        /\ \A q \in Proposals \ {p} : status'[q] = status[q] /\ cur'[q] = cur[q]
    BY <1>0, <2>2 DEF TypeOK
  <2>4. \A q \in Proposals \ {p}, i \in 1..MaxRevision : votes'[<<q, i>>] = votes[<<q, i>>]
    <3>1. \A x \in Reviews \ {<<p, k>>} : votes'[x] = votes[x]
      BY <1>0, <2>2, ReviewsType, MarkEffect
    <3>. QED BY <3>1, ReviewsType
  <2>. QED BY <2>3, <2>4, FirstOther
<1>5. ASSUME NEW p \in Proposals, LateDecision(p) PROVE FirstInv'
  <2>1. PICK k \in 1..MaxRevision : Current(p) = <<p, k>>
    BY <1>5, PendingReview DEF LateDecision
  <2>. QED BY <1>5, <2>1, SettleFirst DEF LateDecision
<1>6. ASSUME NEW p \in Proposals, NEW k \in 1..MaxRevision, TimerFires(p, k) PROVE FirstInv'
  <2>1. CASE active
    BY <1>6, <2>1, SettleFirst DEF TimerFires
  <2>2. CASE ~active
    BY <1>6, <2>2, FirstQuiet DEF TimerFires
  <2>. QED BY <2>1, <2>2
<1>7. CASE Outside
  BY <1>7, OutsideSpares, FirstQuiet DEF Spared
<1>8. ASSUME (\E r \in Reviews : Elapse(r)) \/ UNCHANGED vars PROVE FirstInv'
  <2>1. UNCHANGED <<status, votes, cur>>
    BY <1>8 DEF Elapse, vars
  <2>. QED BY <2>1, FirstQuiet
<1>. QED
  BY <1>1, <1>2, <1>3, <1>4, <1>5, <1>6, <1>7, <1>8, StepCases

\* A proposal approved on the only review ever submitted for it has every seat of it answered; the
\* condition is needed, see ApprovedMeansAnswered.
THEOREM FirstReviewIsAnswered == Spec => []FirstReviewAnswered
<1>1. Init => FirstInv
  BY DEF Init, FirstInv, FirstAt
<1>2. ReviewInv /\ ReviewInv' /\ FirstInv /\ [Next]_vars => FirstInv'
  BY FirstStep
<1>3. FirstInv => FirstReviewAnswered
  BY DEF FirstInv, FirstAt, FirstReviewAnswered
<1>. QED BY <1>1, <1>2, <1>3, ReviewInvariant, PTL DEF Spec
=============================================================================
