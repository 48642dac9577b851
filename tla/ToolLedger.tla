----------------------------- MODULE ToolLedger -----------------------------
(***************************************************************************)
(* What the agent runtime promises about the tool calls of a batch, with   *)
(* no worker, lease, model or session in it: a call is opened before it    *)
(* takes effect, takes effect at most once, and never after its result was *)
(* recorded; and no call of a batch is opened while the effect of another  *)
(* one is undecided.                                                       *)
(*                                                                         *)
(* Docs: docs/plans/v1/05 section 8.  AgentBatch implements this module.   *)
(***************************************************************************)
EXTENDS Naturals

CONSTANTS
  Batches,
  Ids            \* the calls: <<run, call>>, a run being <<batch, number>>

VARIABLES
  state,         \* none, open, done or unknown, per call
  effects        \* how often the call took effect

ledger == <<state, effects>>

BatchOf(i) == i[1][1]

\* Every other call of the batch is over, and none of them is in doubt.
Quiet(i) == \A j \in Ids : BatchOf(j) = BatchOf(i) => state[j] \in {"none", "done"}

Init == /\ state = [i \in Ids |-> "none"]
        /\ effects = [i \in Ids |-> 0]

Open(i) == /\ state[i] = "none" /\ Quiet(i)
           /\ state' = [state EXCEPT ![i] = "open"]
           /\ UNCHANGED effects

\* Whoever opened a call may still carry it out after it was given up as unknown.
Act(i) == /\ state[i] \in {"open", "unknown"} /\ effects[i] = 0
          /\ effects' = [effects EXCEPT ![i] = 1]
          /\ UNCHANGED state

Close(i) == /\ state[i] = "open"
            /\ state' = [state EXCEPT ![i] = "done"]
            /\ UNCHANGED effects

\* All open calls of a batch are given up together.
Doubt(b) == /\ state' = [i \in Ids |->
                          IF BatchOf(i) = b /\ state[i] = "open" THEN "unknown" ELSE state[i]]
            /\ UNCHANGED effects

Next == \/ \E i \in Ids : Open(i) \/ Act(i) \/ Close(i)
        \/ \E b \in Batches : Doubt(b)

Spec == Init /\ [][Next]_ledger
=============================================================================
