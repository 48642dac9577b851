--------------------------- MODULE ConsentLedger ---------------------------
(***************************************************************************)
(* What a review promises to the people who hold its seats, with no        *)
(* proposal status, timer or work object in it: a review is convened once  *)
(* with a fixed set of seats; open seats are answered by consent or by a   *)
(* rejection; silence counts as consent only where somebody has consented  *)
(* before; and a change group is applied only when every seat is answered  *)
(* and none of them was a rejection.                                       *)
(*                                                                         *)
(* Docs: internal/decision/service.go:3-8.  Proposal implements it.        *)
(***************************************************************************)
EXTENDS Naturals

CONSTANTS Reviews, Seats

VARIABLES votes,      \* the state of every seat of every review, "none" if it has no such seat
          applied     \* how often the review's change group was applied

ledger == <<votes, applied>>

Votes == {"none", "pending", "approved", "delegated", "timeout", "rejected"}

Convened(r) == \E s \in Seats : votes[r][s] # "none"
Open(r) == {s \in Seats : votes[r][s] = "pending"}
Consented(r) == \E s \in Seats : votes[r][s] \in {"approved", "delegated"}
Rejected(r) == \E s \in Seats : votes[r][s] = "rejected"
Unanimous(r) == Convened(r) /\ Open(r) = {} /\ ~Rejected(r)

Mark(r, S, v) == votes' = [votes EXCEPT ![r] = [s \in Seats |-> IF s \in S THEN v ELSE @[s]]]

Init == /\ votes = [r \in Reviews |-> [s \in Seats |-> "none"]]
        /\ applied = [r \in Reviews |-> 0]

Convene(r, S) == /\ ~Convened(r) /\ S # {}
                 /\ Mark(r, S, "pending")
                 /\ UNCHANGED applied

Reject(r, S) == /\ S # {} /\ S \subseteq Open(r) /\ ~Rejected(r)
                /\ Mark(r, S, "rejected")
                /\ UNCHANGED applied

\* Answers to open seats of a review nobody rejected.
Consent(r, S, v) == /\ S \subseteq Open(r) /\ ~Rejected(r)
                    /\ v \in {"approved", "delegated"} \/ (v = "timeout" /\ Consented(r))
                    /\ Mark(r, S, v)

\* The group may be applied in the step that completes the review, or later.
MayApply(r) == \/ UNCHANGED applied
               \/ Unanimous(r)' /\ applied' = [applied EXCEPT ![r] = @ + 1]

Next == \E r \in Reviews, S \in SUBSET Seats :
          \/ Convene(r, S)
          \/ Reject(r, S)
          \/ \E v \in Votes : Consent(r, S, v) /\ MayApply(r)

Spec == Init /\ [][Next]_ledger
=============================================================================
