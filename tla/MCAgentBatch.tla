---------------------------- MODULE MCAgentBatch ----------------------------
(* Small instances of AgentBatch.                                          *)
EXTENDS AgentBatch

CONSTANTS b1, b2, w1, w2, bash, draft

\* All batches have the same topic or task.
OneSession == [b \in Batches |-> "s"]

\* No worker is busy; of a batch that is not new, the last job is queued or over.
AtRest(state) ==
  /\ active = TRUE
  /\ batch = [b \in Batches |-> [state |-> state[b], runs |-> 1, rounds |-> 0, max |-> MaxRounds,
                                 calls |-> 0, reserved |-> 0]]
  /\ run = [r \in Runs |-> [state |-> state[r[1]], lease |-> NoWorker]]
  /\ analysis = state
  /\ job = [q \in JobIds |-> CASE state[q[1]] = "none" -> "none"
                               [] state[q[1]] = "queued" /\ q[2] = MaxJobs -> "queued"
                               [] OTHER -> "over"]
  /\ session = [s \in Sessions |-> NoRun]
  /\ modelCalls = [r \in Runs |-> 0]
  /\ tool = [r \in Runs |-> [c \in Calls |-> "none"]]
  /\ saved = [r \in Runs |-> [some |-> FALSE, asked |-> {}, final |-> FALSE]]
  /\ worker = [w \in Workers |-> Idle]
  /\ effects = [r \in Runs |-> [c \in Calls |-> 0]]

\* A process without a model failed b2 as often as it was tried; b1 is still to come.
Alone == AtRest([b \in Batches |-> IF b = b2 THEN "failed" ELSE "none"])
         /\ archives = 0 /\ faults = 0

\* Both were failed that way and tried again: they wait for their session with their last
\* jobs, and no archival or fault is to come.
Rivals == AtRest([b \in Batches |-> "queued"])
          /\ archives = MaxArchives /\ faults = MaxFaults

RetrySpec == (Alone \/ Rivals) /\ [][Next]_vars /\ Fairness
=============================================================================
