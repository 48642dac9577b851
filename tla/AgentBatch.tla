----------------------------- MODULE AgentBatch -----------------------------
(***************************************************************************)
(* The agent runtime, internal/agent/batch with the loop of                *)
(* internal/agent/runner and the retry of internal/collaboration: batches  *)
(* are queued for runs, a job claims the latest run of its batch under a   *)
(* lease and its session, the worker journals every model and tool call    *)
(* under that lease, and commits the outcome.                              *)
(*                                                                         *)
(* Every transaction is one action.  A job may be delivered while another  *)
(* worker still executes it (JobQueue), and a worker may die between any   *)
(* two transactions.  A lease is named by the worker that took it, who has *)
(* one execution at a time.  Child runs of call_agent, token amounts and   *)
(* the text of messages are left out; a round of tool calls is carried out *)
(* in any order.                                                           *)
(***************************************************************************)
EXTENDS Integers, FiniteSets

CONSTANTS
  Batches,
  Sessions,
  SessionOf,     \* the session of a batch: its topic or task and the coordinator
  Tasked,        \* the batches that analyse a task
  Topical,       \* the batches with a topic, the only ones that can be extended
  Workers,
  Calls,         \* ids the model may give to its tool calls
  Sandboxed,     \* the calls of bash, read, write and edit
  MaxRounds,     \* projects.max_discussion_rounds
  MaxModelCalls, \* runner.BatchMaxModelAttempts
  MaxRuns,       \* bound: runs of a batch, the first and its extensions
  MaxJobs,       \* bound: jobs of a batch
  MaxArchives,   \* bound: how often the project is archived
  MaxFaults      \* bound: overtaken, dying or interrupted workers, failed statements

ASSUME SessionAssumption == SessionOf \in [Batches -> Sessions]
ASSUME WorkerAssumption == Workers \cap {"nobody", "none", "queued", "over"} = {}
ASSUME KindAssumption == /\ Tasked \cup Topical \subseteq Batches
                         /\ Sandboxed \subseteq Calls /\ <<>> \notin Calls
ASSUME LimitAssumption == /\ MaxRounds \in Nat \ {0} /\ MaxModelCalls \in Nat
                          /\ MaxRuns \in Nat \ {0} /\ MaxJobs \in Nat
                          /\ MaxArchives \in Nat /\ MaxFaults \in Nat

Runs == Batches \X (1..MaxRuns)
JobIds == Batches \X (1..MaxJobs)

VARIABLES
  active,      \* the project is active
  archives,    \* archivals so far
  batch,       \* discussion_batches
  run,         \* agent_runs without parent
  session,     \* agent_sessions.active_run_id
  analysis,    \* task_analyses.state
  modelCalls,  \* the rows of model_calls still running, per run
  tool,        \* tool_calls, per run and id
  saved,       \* the last context checkpoint of a run: the calls asked so far
  job,         \* discussion.batch jobs: none, queued, over or the worker holding it
  worker,      \* what every worker is doing: its transcript asked the calls said, todo is left
  effects,     \* history: how often a tool call took effect
  faults

rows == <<batch, run, session, analysis, modelCalls, tool, saved>>
project == <<active, archives>>
vars == <<project, rows, job, worker, effects, faults>>

NoRun == <<>>
NoWorker == "nobody"
Stopped == {"completed", "cancelled", "waiting_human", "failed"}
BatchStates == {"none", "queued", "running"} \cup Stopped
Ended == {"succeeded", "failed", "cancelled"}
RunStates == {"none", "queued", "running", "waiting_human"} \cup Ended
Outcomes == {"succeeded", "failed", "cancelled", "waiting_human"}

Latest(b) == <<b, batch[b].runs>>
RunsOf(b) == {r \in Runs : r[1] = b}
Undecided == {"prepared", "unknown"}

Idle == [pc |-> "idle", run |-> NoRun, job |-> NoRun, said |-> {}, todo |-> {}, call |-> NoRun,
         mine |-> {}, outcome |-> "failed"]

Fault == faults < MaxFaults /\ faults' = faults + 1

At(w, pc) == worker[w].pc = pc
Go(w, pc) == worker' = [worker EXCEPT ![w].pc = pc]
StopWith(w, o) == worker' = [worker EXCEPT ![w].pc = "commit", ![w].outcome = o]

\* The lease of worker w is still the one on its run.
Leased(w) == run[worker[w].run].lease = w

\* journal.transaction and beginEffect: the run is running under this lease in an active project.
Fenced(w) == active /\ run[worker[w].run].state = "running" /\ Leased(w)

----------------------------------------------------------------------------
(* Claiming a batch.                                                       *)

\* A batch any of whose calls was recorded.
UsedTools(b) == \E r \in RunsOf(b), c \in Calls : tool[r][c] # "none"

\* A claim that recovers only what was queued again.
BegunAndQueued(b) == run[Latest(b)].state = "queued" /\ batch[b].rounds > 0 /\ UsedTools(b)

\* The branch of ExecuteBatch for work that was begun before.
Begun(b) == \/ run[Latest(b)].state = "running"
            \/ batch[b].state = "running"
            \/ run[Latest(b)].state = "queued" /\ batch[b].rounds > 0 /\ UsedTools(b)

\* Recovery that trusts a sandbox to be there still.
SafeInSandbox(b) ==
  /\ \A r \in RunsOf(b), c \in Calls : tool[r][c] \notin Undecided
  /\ saved[Latest(b)].some
  /\ \A c \in saved[Latest(b)].asked : tool[Latest(b)][c] = "done"

\* recoverTranscript: no call of the batch is undecided or was made in a sandbox, and the last
\* checkpoint has a result for every call it asked for.
Safe(b) ==
  /\ \A r \in RunsOf(b), c \in Calls : /\ tool[r][c] \notin Undecided
                                       /\ c \in Sandboxed => tool[r][c] = "none"
  /\ saved[Latest(b)].some
  /\ \A c \in saved[Latest(b)].asked : tool[Latest(b)][c] = "done"

\* claimSession answers ErrBusy.
Busy(b) == LET s == session[SessionOf[b]] IN
           s \notin {NoRun, Latest(b)} /\ run[s].state \in {"queued", "running"}

\* job.Claim: a queued job, or one whose holder is gone, or one whose holder missed its lease.
Executes(v, q) == worker[v].pc # "idle" /\ worker[v].job = q

Deliver(w, q) == /\ At(w, "idle")
                 /\ \/ job[q] = "queued" /\ UNCHANGED faults
                    \/ /\ job[q] \in Workers
                       /\ IF Executes(job[q], q) THEN Fault ELSE UNCHANGED faults

\* The execution of the latest run goes on after the claim's transaction, with the calls of a
\* restored transcript.
Take(w, q, pc, said) ==
  /\ job' = [job EXCEPT ![q] = w]
  /\ worker' = [worker EXCEPT ![w] = [Idle EXCEPT !.pc = pc, !.run = Latest(q[1]), !.job = q,
                                                 !.said = said]]

\* ExecuteBatch returns without an execution.
Return(w, q, to) == job' = [job EXCEPT ![q] = to] /\ UNCHANGED worker

Analysed(b, st) == analysis' = IF b \in Tasked THEN [analysis EXCEPT ![b] = st] ELSE analysis

\* The batch is over, or has no round or run left to begin.
Nothing(b) == \/ batch[b].state \in Stopped
              \/ /\ active /\ ~Begun(b)
                 /\ batch[b].rounds >= batch[b].max \/ run[Latest(b)].state # "queued"

ClaimNothing(w, q) ==
  /\ Deliver(w, q)
  /\ Nothing(q[1])
  /\ Return(w, q, "over")
  /\ UNCHANGED <<project, rows, effects>>

ClaimArchived(w, q) ==
  /\ Deliver(w, q)
  /\ LET b == q[1] IN
     /\ batch[b].state \notin Stopped /\ ~active
     /\ run' = [r \in Runs |-> IF r[1] = b /\ run[r].state \notin Ended \cup {"none"}
                                 THEN [run[r] EXCEPT !.state = "cancelled"] ELSE run[r]]
     /\ batch' = [batch EXCEPT ![b].state = "cancelled"]
     /\ Analysed(b, "cancelled")
  /\ Take(w, q, "begun", {})
  /\ UNCHANGED <<project, session, modelCalls, tool, saved, effects>>

\* claimSession fails and the transaction with it; the job is queued again.
ClaimBusy(w, q) ==
  /\ Deliver(w, q)
  /\ LET b == q[1] IN
     /\ ~Nothing(b) /\ active /\ Busy(b)
     /\ Begun(b) => Safe(b)
  /\ Return(w, q, "queued")
  /\ UNCHANGED <<project, rows, effects>>

\* The run is this worker's; a model call nobody will end is charged.
Run(w, b) ==
  /\ session' = [session EXCEPT ![SessionOf[b]] = Latest(b)]
  /\ run' = [run EXCEPT ![Latest(b)] = [state |-> "running", lease |-> w]]
  /\ Analysed(b, "running")

\* A recovery that leaves the interrupted model call to be reconciled.
ResumedUncharged(b) == [batch[b] EXCEPT !.state = "running"]

\* The batch that goes on in the round it was in: the reservation of the model call is charged.
Resumed(b) == [batch[b] EXCEPT !.state = "running",
                               !.reserved = @ - modelCalls[Latest(b)]]

Resume(w, q) ==
  /\ Deliver(w, q)
  /\ LET b == q[1] IN
     /\ batch[b].state \notin Stopped /\ active /\ Begun(b) /\ Safe(b) /\ ~Busy(b)
     /\ Run(w, b)
     /\ batch' = [batch EXCEPT ![b] = Resumed(b)]
     /\ modelCalls' = [modelCalls EXCEPT ![Latest(b)] = 0]
  /\ Take(w, q, "resumed", saved[Latest(q[1])].asked)
  /\ UNCHANGED <<project, tool, saved, effects>>

\* What cannot be recovered is left to people.
HandOver(w, q) ==
  /\ Deliver(w, q)
  /\ LET b == q[1] IN
     /\ batch[b].state \notin Stopped /\ active /\ Begun(b) /\ ~Safe(b)
     /\ tool' = [r \in Runs |-> [c \in Calls |->
                   IF r[1] = b /\ tool[r][c] = "prepared" THEN "unknown" ELSE tool[r][c]]]
     /\ run' = [r \in Runs |-> IF r[1] = b /\ run[r].state \notin Ended \cup {"none"}
                                 THEN [state |-> "waiting_human", lease |-> w] ELSE run[r]]
     /\ batch' = [batch EXCEPT ![b].state = "waiting_human"]
     /\ Analysed(b, "waiting_human")
  /\ Take(w, q, "begun", {})
  /\ UNCHANGED <<project, session, modelCalls, saved, effects>>

\* A queued run begins a round.
Begin(w, q) ==
  /\ Deliver(w, q)
  /\ LET b == q[1] IN
     /\ ~Nothing(b) /\ active /\ ~Begun(b) /\ ~Busy(b)
     /\ Run(w, b)
     /\ batch' = [batch EXCEPT ![b].state = "running", ![b].rounds = @ + 1]
  /\ Take(w, q, "begun", {})
  /\ UNCHANGED <<project, modelCalls, tool, saved, effects>>

----------------------------------------------------------------------------
(* The model and tool loop, and its journal.                               *)

\* ExecuteBatch looks at the run it claimed; a transcript that ends with an answer is committed.
Enter(w) ==
  /\ worker[w].pc \in {"begun", "resumed"}
  /\ IF run[worker[w].run].state # "running" THEN Go(w, "leaving")
     ELSE IF At(w, "resumed") /\ saved[worker[w].run].final THEN StopWith(w, "succeeded")
     ELSE Go(w, "model")
  /\ UNCHANGED <<project, rows, job, effects, faults>>

\* The runner gives up: a statement of the journal fails, a tool round cannot be carried out;
\* before a model call also for a context that does not fit or that was cancelled (heartbeat
\* lost, shutdown), no provider, a failed preparation, an exhausted token budget.
GiveUp(w, o) ==
  /\ worker[w].pc \in {"model", "stream", "said", "tools", "record"}
  /\ \/ o = "failed"
     \/ At(w, "model") /\ o \in {"cancelled", "waiting_human"}
  /\ Fault
  /\ StopWith(w, o)
  /\ UNCHANGED <<project, rows, job, effects>>

\* A journal transaction that finds the run cancelled, the lease replaced or the project archived.
JournalRefuses(w) ==
  /\ worker[w].pc \in {"model", "stream", "said", "tools", "record"}
  /\ ~Fenced(w)
  /\ StopWith(w, "failed")
  /\ UNCHANGED <<project, rows, job, effects, faults>>

Spends(b) == batch[b].state = "running" /\ batch[b].calls < MaxModelCalls

ModelStart(w) ==
  /\ At(w, "model") /\ Fenced(w)
  /\ LET r == worker[w].run IN
     IF Spends(r[1])
       THEN /\ batch' = [batch EXCEPT ![r[1]].calls = @ + 1, ![r[1]].reserved = @ + 1]
            /\ modelCalls' = [modelCalls EXCEPT ![r] = @ + 1]
            /\ Go(w, "stream")
       ELSE StopWith(w, "failed") /\ UNCHANGED <<batch, modelCalls>>
  /\ UNCHANGED <<project, run, session, analysis, tool, saved, job, effects, faults>>

\* ModelEnd: the reservation is replaced by what was used.
EndCall(r) == /\ batch' = [batch EXCEPT ![r[1]].reserved = @ - 1]
              /\ modelCalls' = [modelCalls EXCEPT ![r] = @ - 1]

\* The model asks for the calls asked, or answers when it asks for none.
ModelEnd(w, asked) ==
  /\ At(w, "stream") /\ Fenced(w)
  /\ EndCall(worker[w].run)
  /\ worker' = [worker EXCEPT ![w].pc = "said", ![w].todo = asked]
  /\ UNCHANGED <<project, run, session, analysis, tool, saved, job, effects, faults>>

\* The stream breaks; the journal's answer is ignored.
ModelFails(w, o) ==
  /\ At(w, "stream")
  /\ o \in {"failed", "cancelled", "waiting_human"}
  /\ Fault
  /\ IF Fenced(w) THEN EndCall(worker[w].run) ELSE UNCHANGED <<batch, modelCalls>>
  /\ StopWith(w, o)
  /\ UNCHANGED <<project, run, session, analysis, tool, saved, job, effects>>

\* The assistant's message is saved before any of its calls is carried out.
Checkpoint(w) ==
  /\ At(w, "said") /\ Fenced(w)
  /\ LET asked == worker[w].todo
         said == worker[w].said \cup asked IN
     /\ saved' = [saved EXCEPT ![worker[w].run] =
                    [some |-> TRUE, asked |-> said, final |-> asked = {}]]
     /\ IF asked = {} THEN StopWith(w, "succeeded")
        ELSE worker' = [worker EXCEPT ![w].pc = "tools", ![w].said = said]
  /\ UNCHANGED <<project, batch, run, session, analysis, modelCalls, tool, job, effects, faults>>

\* A call that is only refused while it is undecided.
UnrecordedUndecided(r, c) == tool[r][c] \notin Undecided

\* ToolStart refuses an id that was recorded before.
Unrecorded(r, c) == tool[r][c] = "none"

ToolStart(w, c) ==
  /\ At(w, "tools") /\ Fenced(w) /\ c \in worker[w].todo
  /\ LET r == worker[w].run IN
     IF Unrecorded(r, c)
       THEN /\ tool' = [tool EXCEPT ![r][c] = "prepared"]
            /\ worker' = [worker EXCEPT ![w].pc = "effect", ![w].call = c]
       ELSE StopWith(w, "failed") /\ UNCHANGED tool
  /\ UNCHANGED <<project, batch, run, session, analysis, modelCalls, saved, job, effects, faults>>

\* The tool runs: in the sandbox whatever became of the lease, on drafts under beginEffect.
Execute(w) ==
  /\ At(w, "effect")
  /\ LET r == worker[w].run
         c == worker[w].call IN
     /\ effects' = IF c \in Sandboxed \/ Fenced(w)
                     THEN [effects EXCEPT ![r][c] = @ + 1] ELSE effects
     /\ worker' = [worker EXCEPT ![w].pc = "record", ![w].mine = @ \cup ({c} \cap Sandboxed)]
  /\ UNCHANGED <<project, rows, job, faults>>

\* ToolEnd, and the checkpoint of the results after the last call of the round (which adds
\* nothing that the rows of tool_calls do not hold).
ToolEnd(w) ==
  /\ At(w, "record") /\ Fenced(w)
  /\ LET c == worker[w].call
         todo == worker[w].todo \ {c} IN
     /\ tool' = [tool EXCEPT ![worker[w].run][c] = "done"]
     /\ worker' = [worker EXCEPT ![w].pc = IF todo = {} THEN "model" ELSE "tools",
                                 ![w].todo = todo, ![w].call = NoRun]
  /\ UNCHANGED <<project, batch, run, session, analysis, modelCalls, saved, job, effects, faults>>

\* The sandbox does not know whether the command ran.
ToolUnknown(w) ==
  /\ At(w, "record") /\ Fenced(w) /\ worker[w].call \in Sandboxed
  /\ Fault
  /\ tool' = [tool EXCEPT ![worker[w].run][worker[w].call] = "unknown"]
  /\ StopWith(w, "waiting_human")
  /\ UNCHANGED <<project, batch, run, session, analysis, modelCalls, saved, job, effects>>

----------------------------------------------------------------------------
(* The end of an execution.                                                *)

\* The state of the batch after a run that ended with the outcome o.
BatchAfter(o) == CASE o = "succeeded" -> "completed"
                   [] o = "waiting_human" -> "waiting_human"
                   [] OTHER -> "failed"

\* commit: nothing under a lost lease; a cancelled run or an archived project cancels the batch.
Commit(w) ==
  /\ At(w, "commit")
  /\ LET r == worker[w].run
         b == r[1]
         cancelled == run[r].state = "cancelled" \/ ~active
         o == IF cancelled THEN "cancelled" ELSE worker[w].outcome
         after == IF cancelled THEN "cancelled" ELSE BatchAfter(o) IN
     IF Leased(w)
       THEN /\ run' = [run EXCEPT ![r].state = o]
            /\ batch' = [batch EXCEPT ![b].state = after]
            /\ \/ Analysed(b, after)
               \/ after = "completed" /\ Analysed(b, "failed")
       ELSE UNCHANGED <<run, batch, analysis>>
  /\ Go(w, "leaving")
  /\ UNCHANGED <<project, session, modelCalls, tool, saved, job, effects, faults>>

\* The session is let go by the run's id, whoever holds the run.
ReleaseRun(w) == session[SessionOf[worker[w].run[1]]] = worker[w].run

Release(w) == IF ReleaseRun(w)
                THEN session' = [session EXCEPT ![SessionOf[worker[w].run[1]]] = NoRun]
                ELSE UNCHANGED session

\* Finish of the job, which an overtaken worker does not reach.
EndJob(w, to) == job' = IF job[worker[w].job] = w THEN [job EXCEPT ![worker[w].job] = to] ELSE job

\* The deferred releaseSession, and the job's end.
Leave(w) ==
  /\ At(w, "leaving")
  /\ Release(w)
  /\ EndJob(w, "over")
  /\ worker' = [worker EXCEPT ![w] = Idle]
  /\ UNCHANGED <<project, batch, run, analysis, modelCalls, tool, saved, effects, faults>>

\* commit fails: the job is retried.
CommitFails(w) ==
  /\ At(w, "commit")
  /\ Fault
  /\ Release(w)
  /\ EndJob(w, "queued")
  /\ worker' = [worker EXCEPT ![w] = Idle]
  /\ UNCHANGED <<project, batch, run, analysis, modelCalls, tool, saved, effects>>

Die(w) ==
  /\ ~At(w, "idle")
  /\ Fault
  /\ worker' = [worker EXCEPT ![w] = Idle]
  /\ UNCHANGED <<project, rows, job, effects>>

----------------------------------------------------------------------------
(* People, and a process without a model.                                  *)

\* job.Enqueue of a further discussion.batch job.
Enqueue(b) == \E k \in 1..MaxJobs :
                 /\ job[<<b, k>>] = "none"
                 /\ \A i \in 1..(k - 1) : job[<<b, i>>] # "none"
                 /\ job' = [job EXCEPT ![<<b, k>>] = "queued"]

\* Service.Start for a submission, EnqueueAnalysis for the source of a task.
Start(b) ==
  /\ active /\ batch[b].state = "none"
  /\ batch' = [batch EXCEPT ![b].state = "queued", ![b].runs = 1]
  /\ run' = [run EXCEPT ![<<b, 1>>].state = "queued"]
  /\ Analysed(b, "queued")
  /\ Enqueue(b)
  /\ UNCHANGED <<project, session, modelCalls, tool, saved, worker, effects, faults>>

\* A cancel that leaves the batch to the worker.
RunCancelledAlone(b) == batch[b]

\* The batch of a cancelled run.
RunCancelled(b) == [batch[b] EXCEPT !.state = "cancelled"]

Cancel(r) ==
  /\ active /\ run[r].state \notin Ended \cup {"none"}
  /\ run' = [run EXCEPT ![r].state = "cancelled"]
  /\ batch' = [batch EXCEPT ![r[1]] = RunCancelled(r[1])]
  /\ UNCHANGED <<project, session, analysis, modelCalls, tool, saved, job, worker, effects, faults>>

\* No call of the batch is undecided.
Reconciled(b) == \A r \in RunsOf(b), c \in Calls : tool[r][c] \notin Undecided

\* Service.Extend, by one round.
Extend(b) ==
  /\ active /\ b \in Topical
  /\ batch[b].state \in {"completed", "waiting_human"}
  /\ Reconciled(b) /\ batch[b].calls < MaxModelCalls
  /\ batch[b].runs < MaxRuns
  /\ batch' = [batch EXCEPT ![b].state = "queued", ![b].runs = @ + 1, ![b].max = @ + 1]
  /\ run' = [run EXCEPT ![<<b, batch[b].runs + 1>>].state = "queued"]
  /\ Enqueue(b)
  /\ UNCHANGED <<project, session, analysis, modelCalls, tool, saved, worker, effects, faults>>

\* A retry that leaves the runs to whoever held them.
RequeuedUnderLease(r) == [run[r] EXCEPT !.state = "queued"]

\* A run that is tried again: its old lease is worth nothing.
Requeued(r) == [state |-> "queued", lease |-> NoWorker]

\* collaboration's Retry: every run of the batch is queued again.
Retry(b) ==
  /\ active /\ b \in Tasked
  /\ analysis[b] \in {"failed", "cancelled"}
  /\ batch[b].rounds < batch[b].max /\ batch[b].calls < MaxModelCalls
  /\ Reconciled(b)
  /\ \A r \in RunsOf(b), c \in Sandboxed : tool[r][c] = "none"
  /\ analysis' = [analysis EXCEPT ![b] = "queued"]
  /\ batch' = [batch EXCEPT ![b].state = "queued"]
  /\ run' = [r \in Runs |-> IF r[1] = b /\ run[r].state # "none" THEN Requeued(r) ELSE run[r]]
  /\ Enqueue(b)
  /\ UNCHANGED <<project, session, modelCalls, tool, saved, worker, effects, faults>>

\* MarkUnavailable: a process that has no model got the job, which it fails.
Unavailable(q) ==
  /\ job[q] \in Workers \cup {"queued"}
  /\ Fault
  /\ LET b == q[1]
         live(r) == r[1] = b /\ run[r].state \notin Ended \cup {"none", "waiting_human"} IN
     /\ tool' = [r \in Runs |-> [c \in Calls |->
                   IF r[1] = b /\ tool[r][c] = "prepared" THEN "unknown" ELSE tool[r][c]]]
     /\ session' = [s \in Sessions |-> IF session[s] \in RunsOf(b) THEN NoRun ELSE session[s]]
     /\ run' = [r \in Runs |->
                  IF ~live(r) THEN run[r]
                  ELSE [state |-> IF run[r].state = "queued" THEN "failed" ELSE "waiting_human",
                        lease |-> NoWorker]]
     /\ batch' = IF batch[b].state \in {"queued", "running"}
                   THEN [batch EXCEPT ![b].state = "failed"] ELSE batch
     /\ Analysed(b, "failed")
  /\ \E to \in {"queued", "over"} : job' = [job EXCEPT ![q] = to]
  /\ UNCHANGED <<project, modelCalls, saved, worker, effects>>

Archive == /\ active /\ archives < MaxArchives
           /\ active' = FALSE /\ archives' = archives + 1
           /\ UNCHANGED <<rows, job, worker, effects, faults>>

Restore == /\ ~active
           /\ active' = TRUE
           /\ UNCHANGED <<archives, rows, job, worker, effects, faults>>

----------------------------------------------------------------------------
Init ==
  /\ active = TRUE /\ archives = 0
  /\ batch = [b \in Batches |-> [state |-> "none", runs |-> 1, rounds |-> 0, max |-> MaxRounds,
                                 calls |-> 0, reserved |-> 0]]
  /\ run = [r \in Runs |-> [state |-> "none", lease |-> NoWorker]]
  /\ session = [s \in Sessions |-> NoRun]
  /\ analysis = [b \in Batches |-> "none"]
  /\ modelCalls = [r \in Runs |-> 0]
  /\ tool = [r \in Runs |-> [c \in Calls |-> "none"]]
  /\ saved = [r \in Runs |-> [some |-> FALSE, asked |-> {}, final |-> FALSE]]
  /\ job = [q \in JobIds |-> "none"]
  /\ worker = [w \in Workers |-> Idle]
  /\ effects = [r \in Runs |-> [c \in Calls |-> 0]]
  /\ faults = 0

Claim(w, q) == \/ ClaimNothing(w, q) \/ ClaimArchived(w, q) \/ ClaimBusy(w, q)
               \/ Resume(w, q) \/ HandOver(w, q) \/ Begin(w, q)

\* What a worker does once it has claimed a run, and no fault hits it.
Work(w) == \/ Enter(w) \/ JournalRefuses(w) \/ ModelStart(w)
           \/ \E asked \in SUBSET Calls : ModelEnd(w, asked)
           \/ Checkpoint(w)
           \/ \E c \in Calls : ToolStart(w, c)
           \/ Execute(w) \/ ToolEnd(w) \/ Commit(w) \/ Leave(w)

Fail(w) == \/ \E o \in Outcomes : GiveUp(w, o) \/ ModelFails(w, o)
           \/ ToolUnknown(w) \/ CommitFails(w) \/ Die(w)

Next == \/ \E w \in Workers, q \in JobIds : Claim(w, q)
        \/ \E w \in Workers : Work(w) \/ Fail(w)
        \/ \E b \in Batches : Start(b) \/ Extend(b) \/ Retry(b)
        \/ \E r \in Runs : Cancel(r)
        \/ \E q \in JobIds : Unavailable(q)
        \/ Archive \/ Restore

\* The job loop claims what is due, and a worker that lives goes on: a model stream ends, a
\* tool returns, a transaction ends.
Fairness == /\ \A q \in JobIds : WF_vars(\E w \in Workers : Claim(w, q))
            /\ \A w \in Workers : WF_vars(Work(w))

Spec == Init /\ [][Next]_vars
FairSpec == Spec /\ Fairness

----------------------------------------------------------------------------
(* Properties.                                                             *)

\* A prepared call is open; one that returned, with a result or an error, is done.
CallState == [prepared |-> "open", none |-> "none", unknown |-> "unknown", done |-> "done"]

Ledger == INSTANCE ToolLedger WITH
            Ids <- Runs \X Calls,
            state <- [i \in Runs \X Calls |-> CallState[tool[i[1]][i[2]]]],
            effects <- [i \in Runs \X Calls |-> effects[i[1]][i[2]]]

\* Whatever workers die, are overtaken or are retried, the batch keeps the tool ledger: a call
\* takes effect once, and none is opened while another of the batch is in doubt
\* (ToolStart's refusal, recoverTranscript, Extend's and Retry's checks).
LedgerSpec == Ledger!Spec

\* One pair for every model call that nobody has ended.
Unended(b) == {i \in RunsOf(b) \X (1..batch[b].calls) : i[2] <= modelCalls[i[1]]}

\* What a batch has reserved is what the model calls still running will be charged: a
\* reservation that was interrupted is settled by whoever takes the run over (recovery.go 66-72).
BudgetAccounted == \A b \in Batches : batch[b].reserved = Cardinality(Unended(b))

\* A worker that may still write for its run made every sandbox call of that run itself, in a
\* sandbox it still has: nobody continues after calls whose files are gone.
SandboxKept ==
  \A w \in Workers :
     (~At(w, "idle") /\ run[worker[w].run].state = "running" /\ Leased(w)) =>
        \A c \in Sandboxed :
           tool[worker[w].run][c] # "none" => c \in worker[w].mine \cup {worker[w].call}

\* A batch at work has its latest run at work, and a queued one has it queued: neither cancel,
\* extension, retry, takeover nor a missing model leaves a batch that nothing can move.
Aligned == \A b \in Batches :
              batch[b].state \in {"queued", "running"} => run[Latest(b)].state = batch[b].state

\* Every queued or running batch is settled, however its workers die or are overtaken.
Settles == \A b \in Batches :
              batch[b].state \in {"queued", "running"} ~> batch[b].state \in Stopped

\* A retried run is not ended by a worker that executed it before the retry: Retry takes the
\* lease, and commit refuses without it.
RetryStands ==
  [][\A w \in Workers, r \in Runs :
       worker'[w] # worker[w] /\ run[r].state = "queued"
         => run'[r].state \notin {"succeeded", "failed"}]_vars

\* Two workers never work on runs of the same session (docs 05: serial per identity and
\* topic, one holder of the coordinator's session lease).
SerialSession ==
  \A v, w \in Workers :
     /\ v # w /\ ~At(v, "idle") /\ ~At(w, "idle")
     /\ SessionOf[worker[v].run[1]] = SessionOf[worker[w].run[1]]
     => ~(Fenced(v) /\ Fenced(w))
=============================================================================
