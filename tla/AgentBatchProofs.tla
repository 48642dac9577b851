-------------------------- MODULE AgentBatchProofs --------------------------
(***************************************************************************)
(* Proofs about AgentBatch for all sets of batches, workers and calls and  *)
(* all limits.  The inductive invariant IInv says what a worker that still *)
(* holds the lease of its run may rely on: the run is the latest one of    *)
(* its batch, no other call of the batch is in doubt, and the call in hand *)
(* is the one it opened itself.                                            *)
(***************************************************************************)
EXTENDS AgentBatch, FiniteSetTheorems, TLAPS

BatchRows == [state : BatchStates, runs : 1..MaxRuns, rounds : Nat, max : Nat,
              calls : Nat, reserved : Int]
RunRows == [state : RunStates, lease : Workers \cup {NoWorker}]
ToolStates == {"none", "prepared", "unknown", "done"}
Checkpoints == [some : BOOLEAN, asked : SUBSET Calls, final : BOOLEAN]
PCs == {"idle", "begun", "resumed", "model", "stream", "said", "tools", "effect", "record",
        "commit", "leaving"}
Executions == [pc : PCs, run : Runs \cup {NoRun}, job : JobIds \cup {NoRun},
               said : SUBSET Calls, todo : SUBSET Calls, call : Calls \cup {NoRun},
               mine : SUBSET Sandboxed, outcome : Outcomes]

Handling == {"effect", "record"}
Looping == {"model", "stream", "said", "tools", "effect", "record", "commit"}

TypeOK ==
  /\ active \in BOOLEAN /\ archives \in Nat /\ faults \in Nat
  /\ batch \in [Batches -> BatchRows]
  /\ run \in [Runs -> RunRows]
  /\ session \in [Sessions -> Runs \cup {NoRun}]
  /\ analysis \in [Batches -> BatchStates]
  /\ modelCalls \in [Runs -> Int]
  /\ tool \in [Runs -> [Calls -> ToolStates]]
  /\ saved \in [Runs -> Checkpoints]
  /\ job \in [JobIds -> Workers \cup {"none", "queued", "over"}]
  /\ worker \in [Workers -> Executions]
  /\ effects \in [Runs -> [Calls -> Nat]]

\* The rows of a batch fit together: nothing exists of one that was not started; one that is queued
\* or running has its latest run in that state; nobody has a lease on a run that waits to be
\* claimed; a run at work is in a round.
RowsFit(b) ==
  /\ \A q \in JobIds : q[1] = b /\ job[q] # "none" => batch[b].state # "none"
  /\ batch[b].state = "none" => analysis[b] = "none"
  /\ batch[b].state # "none" => run[Latest(b)].state # "none"
  /\ batch[b].state \in {"queued", "running"} => run[Latest(b)].state = batch[b].state
  /\ \A r \in Runs : r[1] = b =>
        /\ run[r].state # "none" => batch[b].state # "none" /\ r[2] <= batch[b].runs
        /\ run[r].state \in {"none", "queued"} => run[r].lease = NoWorker
        /\ run[r].state = "running" => batch[b].rounds > 0

RowsInv == \A b \in Batches : RowsFit(b)

\* A worker that is not idle executes a run; with a call in hand, one of its round.
OccupiedBy(w) ==
  /\ ~At(w, "idle") => /\ worker[w].run \in Runs /\ worker[w].job \in JobIds
                       /\ run[worker[w].run].state # "none"
  /\ worker[w].pc \in Handling => worker[w].call \in Calls
  /\ worker[w].pc \notin {"idle", "effect"} =>
       {worker[w].call} \cap Sandboxed \subseteq worker[w].mine

Occupied == \A w \in Workers : OccupiedBy(w)

\* Worker w may go on with its run as far as its lease and the state of the run tell.
Engaged(w) == /\ \/ worker[w].pc \in Looping
                 \/ worker[w].pc \in {"begun", "resumed"} /\ run[worker[w].run].state = "running"
              /\ Leased(w)

\* It may also write to the journal.
Writes(w) == /\ worker[w].pc \notin {"idle", "commit", "leaving"}
             /\ run[worker[w].run].state = "running" /\ Leased(w)

\* A batch is worked on in its latest run, and not extended meanwhile.
InLatest(w) ==
  Engaged(w) => /\ worker[w].run = Latest(worker[w].run[1])
                /\ batch[worker[w].run[1]].state \notin {"completed", "waiting_human"}

\* A worker that may write knows of every call in doubt: the one it opened itself.
KnowsDoubt(w) ==
  Writes(w) => \A r \in Runs, c \in Calls :
                 r[1] = worker[w].run[1] /\ tool[r][c] \in Undecided =>
                   /\ worker[w].pc \in Handling /\ tool[r][c] = "prepared"
                   /\ r = worker[w].run /\ c = worker[w].call

\* A call in hand was opened, and has not acted before it is carried out.
InHand(w) ==
  /\ worker[w].pc \in Handling => tool[worker[w].run][worker[w].call] # "none"
  /\ worker[w].pc \in Handling /\ Writes(w) => tool[worker[w].run][worker[w].call] = "prepared"
  /\ At(w, "effect") => /\ tool[worker[w].run][worker[w].call] \in Undecided
                        /\ effects[worker[w].run][worker[w].call] = 0

\* The model call a worker waits for is one of those running.
CallOut(w) == At(w, "stream") /\ Leased(w) => modelCalls[worker[w].run] >= 1

\* SandboxKept of one worker.
KeepsSandbox(w) ==
  ~At(w, "idle") /\ run[worker[w].run].state = "running" /\ Leased(w) =>
     \A c \in Sandboxed :
        tool[worker[w].run][c] # "none" => c \in worker[w].mine \cup {worker[w].call}

WorkerFits(w) == /\ OccupiedBy(w) /\ InLatest(w) /\ KnowsDoubt(w)
                 /\ InHand(w) /\ CallOut(w) /\ KeepsSandbox(w)

WorkersInv == \A w \in Workers : WorkerFits(w)

\* Calls are opened in a round, handled by one worker, and act when they are open; a run's model
\* calls are among those of its batch.
CallsInv ==
  /\ \A r \in Runs, c \in Calls : tool[r][c] # "none" => batch[r[1]].rounds > 0
  /\ \A r \in Runs, c \in Calls : tool[r][c] = "none" => effects[r][c] = 0
  /\ \A v, w \in Workers :
        v # w /\ worker[v].pc \in Handling /\ worker[w].pc \in Handling =>
          worker[v].run # worker[w].run \/ worker[v].call # worker[w].call
  /\ \A r \in Runs : modelCalls[r] \in 0..batch[r[1]].calls

IInv == TypeOK /\ RowsInv /\ WorkersInv /\ CallsInv /\ BudgetAccounted

----------------------------------------------------------------------------
(* Types.                                                                  *)

LEMMA TypeInit == Init => TypeOK
<1>1. Idle \in Executions
  BY DEF Idle, Executions, PCs, Outcomes
<1>2. 1 \in 1..MaxRuns /\ MaxRounds \in Nat
  BY LimitAssumption
<1>. QED BY <1>1, <1>2
     DEF Init, TypeOK, BatchRows, BatchStates, Stopped, RunRows, RunStates, Ended, ToolStates,
         Checkpoints, JobIds, Runs

LEMMA RunFacts ==
  /\ \A b \in Batches : batch \in [Batches -> BatchRows] =>
        Latest(b) \in Runs /\ Latest(b)[1] = b /\ Latest(b)[2] = batch[b].runs
  /\ \A r \in Runs : r[1] \in Batches /\ r[2] \in 1..MaxRuns /\ r = <<r[1], r[2]>>
  /\ \A q \in JobIds : q[1] \in Batches
  BY DEF Latest, Runs, JobIds, BatchRows

\* A worker gets an execution of the latest run of the batch that its job names.
LEMMA TakeType ==
  ASSUME TypeOK, NEW w \in Workers, NEW q \in JobIds, NEW pc \in PCs, NEW said \in SUBSET Calls,
         Take(w, q, pc, said)
  PROVE  /\ worker' \in [Workers -> Executions]
         /\ job' \in [JobIds -> Workers \cup {"none", "queued", "over"}]
<1>1. Latest(q[1]) \in Runs
  BY RunFacts DEF TypeOK
<1>2. [Idle EXCEPT !.pc = pc, !.run = Latest(q[1]), !.job = q, !.said = said] \in Executions
  BY <1>1 DEF Idle, Executions, PCs, Outcomes
<1>. QED BY <1>2 DEF Take, TypeOK

LEMMA WorkerType ==
  ASSUME TypeOK, NEW w \in Workers
  PROVE  /\ worker[w] \in Executions
         /\ \A pc \in PCs : Go(w, pc) => worker' \in [Workers -> Executions]
         /\ \A o \in Outcomes : StopWith(w, o) => worker' \in [Workers -> Executions]
         /\ worker' = [worker EXCEPT ![w] = Idle] => worker' \in [Workers -> Executions]
<1>1. worker[w] \in Executions
  BY DEF TypeOK
<1>2. \A pc \in PCs : [worker[w] EXCEPT !.pc = pc] \in Executions
  BY <1>1 DEF Executions
<1>3. \A o \in Outcomes : [worker[w] EXCEPT !.pc = "commit", !.outcome = o] \in Executions
  BY <1>1 DEF Executions, PCs
<1>4. Idle \in Executions
  BY DEF Idle, Executions, PCs, Outcomes
<1>5. ASSUME NEW e \in Executions PROVE [worker EXCEPT ![w] = e] \in [Workers -> Executions]
  BY DEF TypeOK
<1>6. \A pc \in PCs : Go(w, pc) => worker' = [worker EXCEPT ![w] = [worker[w] EXCEPT !.pc = pc]]
  BY DEF Go
<1>7. \A o \in Outcomes : StopWith(w, o) =>
        worker' = [worker EXCEPT ![w] = [worker[w] EXCEPT !.pc = "commit", !.outcome = o]]
  BY DEF StopWith
<1>. QED BY <1>1, <1>2, <1>3, <1>4, <1>5, <1>6, <1>7

LEMMA AnalysedType ==
  ASSUME TypeOK, NEW b \in Batches, NEW st \in BatchStates, Analysed(b, st)
  PROVE  analysis' \in [Batches -> BatchStates]
  BY DEF TypeOK, Analysed

LEMMA RunType ==
  ASSUME TypeOK, NEW w \in Workers, NEW b \in Batches, Run(w, b)
  PROVE  /\ run' \in [Runs -> RunRows]
         /\ session' \in [Sessions -> Runs \cup {NoRun}]
         /\ analysis' \in [Batches -> BatchStates]
<1>1. Latest(b) \in Runs /\ SessionOf[b] \in Sessions /\ "running" \in BatchStates
  BY RunFacts, SessionAssumption DEF TypeOK, BatchStates
<1>2. [state |-> "running", lease |-> w] \in RunRows
  BY DEF RunRows, RunStates
<1>. QED BY <1>1, <1>2, AnalysedType DEF Run, TypeOK

\* Rows with fields replaced are rows.
LEMMA RowTypes ==
  /\ \A x \in RunRows, st \in RunStates :
        /\ [x EXCEPT !.state = st] \in RunRows
        /\ [x EXCEPT !.state = st].state = st
        /\ [x EXCEPT !.state = st].lease = x.lease
  /\ \A x \in BatchRows, st \in BatchStates : [x EXCEPT !.state = st] \in BatchRows
  /\ \A x \in BatchRows, st \in BatchStates :
        [x EXCEPT !.state = st, !.rounds = x.rounds + 1] \in BatchRows
  /\ \A x \in BatchRows : [x EXCEPT !.calls = x.calls + 1, !.reserved = x.reserved + 1] \in BatchRows
  /\ \A x \in BatchRows, n \in Int : [x EXCEPT !.reserved = n] \in BatchRows
<1>1. ASSUME NEW x \in RunRows, NEW st \in RunStates
      PROVE  /\ [x EXCEPT !.state = st] \in RunRows
             /\ [x EXCEPT !.state = st].state = st
             /\ [x EXCEPT !.state = st].lease = x.lease
  BY DEF RunRows
<1>2. ASSUME NEW x \in BatchRows, NEW st \in BatchStates
      PROVE  [x EXCEPT !.state = st] \in BatchRows
  BY DEF BatchRows
<1>3. ASSUME NEW x \in BatchRows, NEW st \in BatchStates
      PROVE  [x EXCEPT !.state = st, !.rounds = x.rounds + 1] \in BatchRows
  <2>1. x.rounds + 1 \in Nat
    BY DEF BatchRows
  <2>2. \A n \in Nat : [x EXCEPT !.state = st, !.rounds = n] \in BatchRows
    BY DEF BatchRows
  <2>. QED BY <2>1, <2>2
<1>4. ASSUME NEW x \in BatchRows
      PROVE  [x EXCEPT !.calls = x.calls + 1, !.reserved = x.reserved + 1] \in BatchRows
  <2>1. x.calls + 1 \in Nat /\ x.reserved + 1 \in Int
    BY DEF BatchRows
  <2>2. \A n \in Nat, i \in Int : [x EXCEPT !.calls = n, !.reserved = i] \in BatchRows
    BY DEF BatchRows
  <2>. QED BY <2>1, <2>2
<1>5. ASSUME NEW x \in BatchRows, NEW n \in Int
      PROVE  [x EXCEPT !.reserved = n] \in BatchRows
  BY DEF BatchRows
<1>. QED BY <1>1, <1>2, <1>3, <1>4, <1>5

LEMMA DeliverType ==
  ASSUME TypeOK, NEW w \in Workers, NEW q \in JobIds, Deliver(w, q)
  PROVE  faults' \in Nat
  BY DEF Deliver, Fault, TypeOK

LEMMA ClaimType ==
  ASSUME TypeOK, NEW w \in Workers, NEW q \in JobIds, Claim(w, q)
  PROVE  TypeOK'
<1>. DEFINE b == q[1]
<1>0. /\ b \in Batches /\ Latest(b) \in Runs /\ faults' \in Nat
      /\ batch[b] \in BatchRows
  <2>1. Deliver(w, q)
    BY DEF Claim, ClaimNothing, ClaimArchived, ClaimBusy, Resume, HandOver, Begin
  <2>. QED BY <2>1, DeliverType, RunFacts DEF TypeOK
<1>1. CASE ClaimNothing(w, q)
  BY <1>1, <1>0 DEF ClaimNothing, Return, TypeOK, project, rows
<1>2. CASE ClaimArchived(w, q)
  <2>1. run' \in [Runs -> RunRows]
    <3>1. \A r \in Runs : run[r] \in RunRows /\ [run[r] EXCEPT !.state = "cancelled"] \in RunRows
      BY RowTypes DEF TypeOK, RunStates, Ended
    <3>. QED BY <1>2, <3>1 DEF ClaimArchived
  <2>2. batch' \in [Batches -> BatchRows] /\ analysis' \in [Batches -> BatchStates]
    BY <1>2, <1>0, AnalysedType DEF ClaimArchived, TypeOK, BatchRows, BatchStates, Stopped
  <2>3. Take(w, q, "begun", {})
    BY <1>2 DEF ClaimArchived
  <2>. QED BY <1>2, <1>0, <2>1, <2>2, <2>3, TakeType DEF ClaimArchived, TypeOK, project, PCs
<1>3. CASE ClaimBusy(w, q)
  BY <1>3, <1>0 DEF ClaimBusy, Return, TypeOK, project, rows
<1>4. CASE Resume(w, q)
  <2>1. /\ run' \in [Runs -> RunRows] /\ session' \in [Sessions -> Runs \cup {NoRun}]
        /\ analysis' \in [Batches -> BatchStates]
    BY <1>4, <1>0, RunType DEF Resume
  <2>2. Resumed(b) \in BatchRows
    <3>1. batch[b].reserved - modelCalls[Latest(b)] \in Int
      BY <1>0 DEF BatchRows, TypeOK
    <3>. QED BY <1>0, <3>1 DEF Resumed, BatchRows, BatchStates
  <2>3. batch' \in [Batches -> BatchRows] /\ modelCalls' \in [Runs -> Int]
    BY <1>4, <1>0, <2>2 DEF Resume, TypeOK
  <2>4. Take(w, q, "resumed", saved[Latest(b)].asked) /\ saved[Latest(b)].asked \in SUBSET Calls
    BY <1>4, <1>0 DEF Resume, TypeOK, Checkpoints
  <2>. QED BY <1>4, <1>0, <2>1, <2>3, <2>4, TakeType DEF Resume, TypeOK, project, PCs
<1>5. CASE HandOver(w, q)
  <2>1. run' \in [Runs -> RunRows]
    <3>1. [state |-> "waiting_human", lease |-> w] \in RunRows
      BY DEF RunRows, RunStates
    <3>. QED BY <1>5, <3>1 DEF HandOver, TypeOK
  <2>2. batch' \in [Batches -> BatchRows] /\ analysis' \in [Batches -> BatchStates]
    BY <1>5, <1>0, AnalysedType DEF HandOver, TypeOK, BatchRows, BatchStates, Stopped
  <2>3. tool' \in [Runs -> [Calls -> ToolStates]]
    BY <1>5 DEF HandOver, TypeOK, ToolStates
  <2>4. Take(w, q, "begun", {})
    BY <1>5 DEF HandOver
  <2>. QED BY <1>5, <1>0, <2>1, <2>2, <2>3, <2>4, TakeType DEF HandOver, TypeOK, project, PCs
<1>6. CASE Begin(w, q)
  <2>1. /\ run' \in [Runs -> RunRows] /\ session' \in [Sessions -> Runs \cup {NoRun}]
        /\ analysis' \in [Batches -> BatchStates]
    BY <1>6, <1>0, RunType DEF Begin
  <2>2. batch' \in [Batches -> BatchRows]
    <3>1. [batch[b] EXCEPT !.state = "running", !.rounds = @ + 1] \in BatchRows
      BY <1>0, RowTypes DEF BatchStates
    <3>2. batch' = [batch EXCEPT ![b] = [batch[b] EXCEPT !.state = "running", !.rounds = @ + 1]]
      BY <1>6, <1>0 DEF Begin, TypeOK
    <3>. QED BY <3>1, <3>2, <1>0 DEF TypeOK
  <2>3. Take(w, q, "begun", {})
    BY <1>6 DEF Begin
  <2>. QED BY <1>6, <1>0, <2>1, <2>2, <2>3, TakeType DEF Begin, TypeOK, project, PCs
<1>. QED BY <1>1, <1>2, <1>3, <1>4, <1>5, <1>6 DEF Claim

LEMMA EndCallType ==
  ASSUME TypeOK, NEW r \in Runs, EndCall(r)
  PROVE  batch' \in [Batches -> BatchRows] /\ modelCalls' \in [Runs -> Int]
<1>1. r[1] \in Batches /\ batch[r[1]] \in BatchRows
  BY RunFacts DEF TypeOK
<1>2. batch[r[1]].reserved - 1 \in Int
  BY <1>1 DEF BatchRows
<1>3. [batch[r[1]] EXCEPT !.reserved = @ - 1] \in BatchRows
  BY <1>1, <1>2, RowTypes
<1>. QED BY <1>1, <1>3 DEF EndCall, TypeOK

LEMMA EndJobType ==
  ASSUME TypeOK, NEW w \in Workers, NEW to \in {"queued", "over"}, EndJob(w, to)
  PROVE  job' \in [JobIds -> Workers \cup {"none", "queued", "over"}]
  BY DEF EndJob, TypeOK

LEMMA ReleaseType ==
  ASSUME TypeOK, NEW w \in Workers, Release(w)
  PROVE  session' \in [Sessions -> Runs \cup {NoRun}]
  BY DEF Release, TypeOK

LEMMA WorkType ==
  ASSUME TypeOK, Occupied, NEW w \in Workers, Work(w)
  PROVE  TypeOK'
<1>. DEFINE r == worker[w].run
<1>0. ~At(w, "idle") /\ r \in Runs /\ r[1] \in Batches
  <2>1. ~At(w, "idle")
    BY DEF Work, Enter, JournalRefuses, ModelStart, ModelEnd, Checkpoint, ToolStart, Execute,
           ToolEnd, Commit, Leave, At
  <2>. QED BY <2>1, RunFacts DEF Occupied, OccupiedBy
<1>0a. worker[w] \in Executions
  BY DEF TypeOK
<1>1. CASE Enter(w)
  BY <1>1, WorkerType DEF Enter, TypeOK, project, rows, PCs, Outcomes
<1>2. CASE JournalRefuses(w)
  BY <1>2, WorkerType DEF JournalRefuses, TypeOK, project, rows, Outcomes
<1>3. CASE ModelStart(w)
  <2>1. worker' \in [Workers -> Executions]
    BY <1>3, WorkerType DEF ModelStart, PCs, Outcomes
  <2>2. batch' \in [Batches -> BatchRows] /\ modelCalls' \in [Runs -> Int]
    <3>1. batch[r[1]] \in BatchRows
      BY <1>0 DEF TypeOK
    <3>2. [batch[r[1]] EXCEPT !.calls = @ + 1, !.reserved = @ + 1] \in BatchRows
      BY <3>1, RowTypes
    <3>3. CASE Spends(r[1])
      <4>1. batch' = [batch EXCEPT ![r[1]] = [batch[r[1]] EXCEPT !.calls = @ + 1, !.reserved = @ + 1]]
        BY <1>3, <3>3 DEF ModelStart
      <4>2. batch' \in [Batches -> BatchRows]
        BY <4>1, <3>2, <1>0 DEF TypeOK
      <4>. QED BY <1>3, <3>3, <4>2, <1>0 DEF ModelStart, TypeOK
    <3>4. CASE ~Spends(r[1])
      BY <1>3, <3>4 DEF ModelStart, TypeOK
    <3>. QED BY <3>3, <3>4
  <2>. QED BY <1>3, <2>1, <2>2 DEF ModelStart, TypeOK, project
<1>4. ASSUME NEW asked \in SUBSET Calls, ModelEnd(w, asked) PROVE TypeOK'
  <2>1. worker' \in [Workers -> Executions]
    BY <1>4, <1>0a DEF ModelEnd, Executions, PCs, TypeOK
  <2>2. batch' \in [Batches -> BatchRows] /\ modelCalls' \in [Runs -> Int]
    BY <1>4, <1>0, EndCallType DEF ModelEnd
  <2>. QED BY <1>4, <2>1, <2>2 DEF ModelEnd, TypeOK, project
<1>5. CASE Checkpoint(w)
  <2>0. worker[w].todo \in SUBSET Calls /\ worker[w].said \in SUBSET Calls
    BY <1>0a DEF Executions
  <2>1. CASE worker[w].todo = {}
    BY <1>5, <2>1, <2>0, <1>0, WorkerType DEF Checkpoint, TypeOK, Checkpoints, project, Outcomes
  <2>2. CASE worker[w].todo # {}
    <3>1. worker' \in [Workers -> Executions]
      <4>1. worker[w].said \cup worker[w].todo \in SUBSET Calls
        BY <2>0
      <4>2. \A said \in SUBSET Calls : [worker[w] EXCEPT !.pc = "tools", !.said = said] \in Executions
        BY <1>0a DEF Executions, PCs
      <4>. QED BY <1>5, <2>2, <4>1, <4>2 DEF Checkpoint, TypeOK
    <3>. QED BY <1>5, <2>0, <1>0, <3>1 DEF Checkpoint, TypeOK, Checkpoints, project
  <2>. QED BY <2>1, <2>2
<1>6. ASSUME NEW c \in Calls, ToolStart(w, c) PROVE TypeOK'
  <2>1. CASE Unrecorded(r, c)
    <3>1. worker' \in [Workers -> Executions]
      <4>1. [worker[w] EXCEPT !.pc = "effect", !.call = c] \in Executions
        BY <1>0a DEF Executions, PCs
      <4>. QED BY <1>6, <2>1, <4>1 DEF ToolStart, TypeOK
    <3>2. tool' \in [Runs -> [Calls -> ToolStates]]
      <4>1. [tool[r] EXCEPT ![c] = "prepared"] \in [Calls -> ToolStates]
        BY <1>0 DEF TypeOK, ToolStates
      <4>. QED BY <1>6, <2>1, <1>0, <4>1 DEF ToolStart, TypeOK
    <3>. QED BY <1>6, <3>1, <3>2 DEF ToolStart, TypeOK, project
  <2>2. CASE ~Unrecorded(r, c)
    BY <1>6, <2>2, WorkerType DEF ToolStart, TypeOK, project, Outcomes
  <2>. QED BY <2>1, <2>2
<1>7. CASE Execute(w)
  <2>0. worker[w].call \in Calls
    BY <1>7 DEF Execute, At, Occupied, OccupiedBy, Handling
  <2>1. worker' \in [Workers -> Executions]
    BY <1>7, <1>0a DEF Execute, Executions, PCs, TypeOK
  <2>2. effects' \in [Runs -> [Calls -> Nat]]
    BY <1>7, <1>0, <2>0 DEF Execute, TypeOK
  <2>. QED BY <1>7, <2>1, <2>2 DEF Execute, TypeOK, project, rows
<1>8. CASE ToolEnd(w)
  <2>0. worker[w].call \in Calls
    BY <1>8 DEF ToolEnd, At, Occupied, OccupiedBy, Handling
  <2>1. worker' \in [Workers -> Executions]
    BY ZenonT(60), <1>8, <1>0a DEF ToolEnd, Executions, PCs, TypeOK
  <2>2. tool' \in [Runs -> [Calls -> ToolStates]]
    BY <1>8, <1>0, <2>0 DEF ToolEnd, TypeOK, ToolStates
  <2>. QED BY <1>8, <2>1, <2>2 DEF ToolEnd, TypeOK, project
<1>9. CASE Commit(w)
  <2>1. worker' \in [Workers -> Executions]
    BY <1>9, WorkerType DEF Commit, PCs
  <2>2. worker[w].outcome \in Outcomes
    BY <1>0a DEF Executions
  <2>3. /\ run' \in [Runs -> RunRows] /\ batch' \in [Batches -> BatchRows]
        /\ analysis' \in [Batches -> BatchStates]
    <3>1. \A o \in Outcomes : o \in RunStates /\ BatchAfter(o) \in BatchStates
      BY DEF Outcomes, RunStates, Ended, BatchAfter, BatchStates, Stopped
    <3>2. run[r] \in RunRows /\ batch[r[1]] \in BatchRows
      BY <1>0 DEF TypeOK
    <3>3. \A st \in RunStates : [run EXCEPT ![r].state = st] \in [Runs -> RunRows]
      BY <3>2, RowTypes DEF TypeOK
    <3>4. \A st \in BatchStates : [batch EXCEPT ![r[1]].state = st] \in [Batches -> BatchRows]
      BY <3>2, RowTypes DEF TypeOK
    <3>5. "cancelled" \in Outcomes /\ "cancelled" \in BatchStates /\ "failed" \in BatchStates
      BY DEF Outcomes, BatchStates, Stopped
    <3>6. \A st \in BatchStates : Analysed(r[1], st) => analysis' \in [Batches -> BatchStates]
      BY <1>0, AnalysedType
    <3>7. CASE ~Leased(w)
      BY <1>9, <3>7 DEF Commit, TypeOK
    <3>8. CASE Leased(w)
      <4>1. PICK o \in Outcomes, after \in BatchStates :
               /\ run' = [run EXCEPT ![r].state = o]
               /\ batch' = [batch EXCEPT ![r[1]].state = after]
               /\ Analysed(r[1], after) \/ Analysed(r[1], "failed")
        BY <1>9, <3>8, <2>2, <3>1, <3>5 DEF Commit
      <4>. QED BY <4>1, <3>1, <3>3, <3>4, <3>5, <3>6
    <3>. QED BY <3>7, <3>8
  <2>. QED BY <1>9, <2>1, <2>3 DEF Commit, TypeOK, project
<1>10. CASE Leave(w)
  BY <1>10, WorkerType, ReleaseType, EndJobType DEF Leave, TypeOK, project
<1>. QED BY <1>1, <1>2, <1>3, <1>4, <1>5, <1>6, <1>7, <1>8, <1>9, <1>10 DEF Work

LEMMA FailType ==
  ASSUME TypeOK, Occupied, NEW w \in Workers, Fail(w)
  PROVE  TypeOK'
<1>. DEFINE r == worker[w].run
<1>0. ~At(w, "idle") /\ r \in Runs /\ faults' \in Nat
  <2>1. ~At(w, "idle") /\ Fault
    BY DEF Fail, GiveUp, ModelFails, ToolUnknown, CommitFails, Die, At
  <2>. QED BY <2>1 DEF Occupied, OccupiedBy, Fault, TypeOK
<1>1. ASSUME NEW o \in Outcomes, GiveUp(w, o) PROVE TypeOK'
  BY <1>1, <1>0, WorkerType DEF GiveUp, TypeOK, project, rows
<1>2. ASSUME NEW o \in Outcomes, ModelFails(w, o) PROVE TypeOK'
  <2>1. batch' \in [Batches -> BatchRows] /\ modelCalls' \in [Runs -> Int]
    BY <1>2, <1>0, EndCallType DEF ModelFails, TypeOK
  <2>. QED BY <1>2, <1>0, <2>1, WorkerType DEF ModelFails, TypeOK, project
<1>3. CASE ToolUnknown(w)
  <2>0. worker[w].call \in Calls
    BY <1>3 DEF ToolUnknown, At, Occupied, OccupiedBy, Handling
  <2>1. [tool[r] EXCEPT ![worker[w].call] = "unknown"] \in [Calls -> ToolStates]
    BY <1>0, <2>0 DEF TypeOK, ToolStates
  <2>2. tool' \in [Runs -> [Calls -> ToolStates]]
    BY <1>3, <1>0, <2>1 DEF ToolUnknown, TypeOK
  <2>. QED BY <1>3, <1>0, <2>2, WorkerType DEF ToolUnknown, TypeOK, project, Outcomes
<1>4. CASE CommitFails(w)
  BY <1>4, <1>0, WorkerType, ReleaseType, EndJobType DEF CommitFails, TypeOK, project
<1>5. CASE Die(w)
  BY <1>5, <1>0, WorkerType DEF Die, TypeOK, project, rows
<1>. QED BY <1>1, <1>2, <1>3, <1>4, <1>5 DEF Fail

LEMMA EnqueueType ==
  ASSUME TypeOK, NEW b \in Batches, Enqueue(b)
  PROVE  job' \in [JobIds -> Workers \cup {"none", "queued", "over"}]
  BY DEF Enqueue, TypeOK

LEMMA PeopleType ==
  ASSUME TypeOK,
         \/ \E b \in Batches : Start(b) \/ Extend(b) \/ Retry(b)
         \/ \E r \in Runs : Cancel(r)
         \/ \E q \in JobIds : Unavailable(q)
         \/ Archive \/ Restore
  PROVE  TypeOK'
<1>1. ASSUME NEW b \in Batches, Start(b) PROVE TypeOK'
  <2>1. batch[b] \in BatchRows /\ <<b, 1>> \in Runs /\ "queued" \in BatchStates /\ "queued" \in RunStates
    BY LimitAssumption DEF TypeOK, Runs, BatchStates, RunStates
  <2>2. [batch[b] EXCEPT !.state = "queued", !.runs = 1] \in BatchRows
    <3>1. 1 \in 1..MaxRuns
      BY LimitAssumption
    <3>. QED BY <2>1, <3>1 DEF BatchRows
  <2>3. batch' \in [Batches -> BatchRows]
    BY <1>1, <2>2 DEF Start, TypeOK
  <2>4. run' \in [Runs -> RunRows]
    BY <1>1, <2>1, RowTypes DEF Start, TypeOK
  <2>. QED BY <1>1, <2>1, <2>3, <2>4, AnalysedType, EnqueueType DEF Start, TypeOK, project
<1>2. ASSUME NEW b \in Batches, Extend(b) PROVE TypeOK'
  <2>1. batch[b] \in BatchRows /\ "queued" \in BatchStates /\ "queued" \in RunStates
    BY DEF TypeOK, BatchStates, RunStates
  <2>2. batch[b].runs + 1 \in 1..MaxRuns /\ batch[b].max + 1 \in Nat
    <3>1. MaxRuns \in Nat /\ batch[b].runs < MaxRuns
      BY <1>2, LimitAssumption DEF Extend
    <3>2. batch[b].runs \in 1..MaxRuns /\ batch[b].max \in Nat
      BY <2>1 DEF BatchRows
    <3>. QED BY <3>1, <3>2
  <2>3. \A n \in 1..MaxRuns, m \in Nat :
          [batch[b] EXCEPT !.state = "queued", !.runs = n, !.max = m] \in BatchRows
    BY <2>1 DEF BatchRows
  <2>4. batch' \in [Batches -> BatchRows]
    BY <1>2, <2>2, <2>3 DEF Extend, TypeOK
  <2>5. <<b, batch[b].runs + 1>> \in Runs
    BY <2>2 DEF Runs
  <2>6. run' \in [Runs -> RunRows]
    BY <1>2, <2>1, <2>5, RowTypes DEF Extend, TypeOK
  <2>. QED BY <1>2, <2>4, <2>6, EnqueueType DEF Extend, TypeOK, project
<1>3. ASSUME NEW b \in Batches, Retry(b) PROVE TypeOK'
  <2>1. batch[b] \in BatchRows /\ "queued" \in BatchStates
    BY DEF TypeOK, BatchStates
  <2>2. batch' \in [Batches -> BatchRows]
    BY <1>3, <2>1, RowTypes DEF Retry, TypeOK
  <2>3. \A r \in Runs : Requeued(r) \in RunRows
    BY DEF Requeued, RunRows, RunStates
  <2>4. run' \in [Runs -> RunRows]
    BY <1>3, <2>3 DEF Retry, TypeOK
  <2>. QED BY <1>3, <2>1, <2>2, <2>4, EnqueueType DEF Retry, TypeOK, project
<1>4. ASSUME NEW r \in Runs, Cancel(r) PROVE TypeOK'
  <2>1. /\ r[1] \in Batches /\ batch[r[1]] \in BatchRows
        /\ "cancelled" \in BatchStates /\ "cancelled" \in RunStates
    BY RunFacts DEF TypeOK, BatchStates, RunStates, Stopped, Ended
  <2>2. RunCancelled(r[1]) \in BatchRows
    BY <2>1, RowTypes DEF RunCancelled
  <2>3. batch' \in [Batches -> BatchRows]
    BY <1>4, <2>2 DEF Cancel, TypeOK
  <2>4. run' \in [Runs -> RunRows]
    BY <1>4, <2>1, RowTypes DEF Cancel, TypeOK
  <2>. QED BY <1>4, <2>3, <2>4 DEF Cancel, TypeOK, project
<1>5. ASSUME NEW q \in JobIds, Unavailable(q) PROVE TypeOK'
  <2>1. q[1] \in Batches /\ batch[q[1]] \in BatchRows /\ "failed" \in BatchStates
    BY RunFacts DEF TypeOK, BatchStates, Stopped
  <2>2. batch' \in [Batches -> BatchRows]
    BY <1>5, <2>1, RowTypes DEF Unavailable, TypeOK
  <2>3. \A st \in {"failed", "waiting_human"} : [state |-> st, lease |-> NoWorker] \in RunRows
    BY DEF RunRows, RunStates, Ended
  <2>4. run' \in [Runs -> RunRows]
    BY <1>5, <2>3 DEF Unavailable, TypeOK
  <2>5. tool' \in [Runs -> [Calls -> ToolStates]]
    BY <1>5 DEF Unavailable, TypeOK, ToolStates
  <2>6. session' \in [Sessions -> Runs \cup {NoRun}]
    BY <1>5 DEF Unavailable, TypeOK
  <2>7. job' \in [JobIds -> Workers \cup {"none", "queued", "over"}] /\ faults' \in Nat
    BY <1>5 DEF Unavailable, TypeOK, Fault
  <2>. QED BY <1>5, <2>1, <2>2, <2>4, <2>5, <2>6, <2>7, AnalysedType DEF Unavailable, TypeOK, project
<1>6. CASE Archive \/ Restore
  <2>1. active' \in BOOLEAN
    BY <1>6 DEF Archive, Restore
  <2>2. archives' = archives \/ archives' = archives + 1
    BY <1>6 DEF Archive, Restore
  <2>3. archives' \in Nat
    BY <2>2 DEF TypeOK
  <2>. QED BY <1>6, <2>1, <2>3 DEF Archive, Restore, TypeOK, rows
<1>. QED BY <1>1, <1>2, <1>3, <1>4, <1>5, <1>6

LEMMA TypeStep == TypeOK /\ Occupied /\ [Next]_vars => TypeOK'
<1>1. CASE UNCHANGED vars
  BY <1>1 DEF vars, rows, project, TypeOK
<1>. QED BY <1>1, ClaimType, WorkType, FailType, PeopleType DEF Next

----------------------------------------------------------------------------
(* Steps that leave the runs and the states of the batches as they are.    *)

RowsKept ==
  /\ run' = run /\ analysis' = analysis
  /\ \A b \in Batches : /\ batch'[b].state = batch[b].state /\ batch'[b].runs = batch[b].runs
                        /\ batch'[b].rounds = batch[b].rounds
  /\ \A q \in JobIds : job'[q] # "none" => job[q] # "none"

LEMMA EndCallKeeps ==
  ASSUME TypeOK, NEW r \in Runs, EndCall(r)
  PROVE  \A b \in Batches : /\ batch'[b].state = batch[b].state /\ batch'[b].runs = batch[b].runs
                            /\ batch'[b].rounds = batch[b].rounds /\ batch'[b].calls = batch[b].calls
                            /\ batch'[b].reserved =
                                 IF b = r[1] THEN batch[b].reserved - 1 ELSE batch[b].reserved
<1>1. r[1] \in Batches
  BY RunFacts
<1>2. \A b \in Batches : batch[b] \in BatchRows
  BY DEF TypeOK
<1>. QED BY <1>1, <1>2 DEF EndCall, TypeOK, BatchRows

LEMMA ModelStartCharges ==
  ASSUME TypeOK, NEW w \in Workers, ModelStart(w), worker[w].run[1] \in Batches, Spends(worker[w].run[1])
  PROVE  \A b \in Batches : /\ batch'[b].state = batch[b].state /\ batch'[b].runs = batch[b].runs
                            /\ batch'[b].rounds = batch[b].rounds
                            /\ IF b = worker[w].run[1]
                                 THEN /\ batch'[b].calls = batch[b].calls + 1
                                      /\ batch'[b].reserved = batch[b].reserved + 1
                                 ELSE /\ batch'[b].calls = batch[b].calls
                                      /\ batch'[b].reserved = batch[b].reserved
<1>. DEFINE d == worker[w].run[1]
<1>1. batch' = [batch EXCEPT ![d] = [batch[d] EXCEPT !.calls = @ + 1, !.reserved = @ + 1]]
  BY DEF ModelStart
<1>2. batch[d] \in BatchRows
  BY DEF TypeOK
<1>3. \A n, m \in Int :
        /\ [batch[d] EXCEPT !.calls = n, !.reserved = m].state = batch[d].state
        /\ [batch[d] EXCEPT !.calls = n, !.reserved = m].runs = batch[d].runs
        /\ [batch[d] EXCEPT !.calls = n, !.reserved = m].rounds = batch[d].rounds
        /\ [batch[d] EXCEPT !.calls = n, !.reserved = m].calls = n
        /\ [batch[d] EXCEPT !.calls = n, !.reserved = m].reserved = m
  BY <1>2 DEF BatchRows
<1>4. PICK n \in Int, m \in Int : n = batch[d].calls + 1 /\ m = batch[d].reserved + 1
  BY <1>2 DEF BatchRows
<1>5. batch'[d] = [batch[d] EXCEPT !.calls = n, !.reserved = m]
  BY <1>1, <1>4 DEF TypeOK
<1>6. \A b \in Batches : b # d => batch'[b] = batch[b]
  BY <1>1 DEF TypeOK
<1>7. /\ batch'[d].state = batch[d].state /\ batch'[d].runs = batch[d].runs
      /\ batch'[d].rounds = batch[d].rounds
      /\ batch'[d].calls = n /\ batch'[d].reserved = m
  BY <1>3, <1>5
<1>. QED BY <1>4, <1>6, <1>7

LEMMA LoopKeepsRows ==
  ASSUME TypeOK, Occupied, NEW w \in Workers, Work(w) \/ Fail(w), ~Commit(w)
  PROVE  RowsKept
<1>. DEFINE r == worker[w].run
<1>0. ~At(w, "idle") /\ r \in Runs /\ r[1] \in Batches
  <2>1. ~At(w, "idle")
    BY DEF Work, Enter, JournalRefuses, ModelStart, ModelEnd, Checkpoint, ToolStart, Execute,
           ToolEnd, Commit, Leave, At, Fail, GiveUp, ModelFails, ToolUnknown, CommitFails, Die
  <2>. QED BY <2>1, RunFacts DEF Occupied, OccupiedBy
<1>1. ASSUME UNCHANGED <<run, analysis, batch>>, UNCHANGED job \/ EndJob(w, "over") \/ EndJob(w, "queued")
      PROVE  RowsKept
  <2>1. \A q \in JobIds : job'[q] # "none" => job[q] # "none"
    <3>1. CASE UNCHANGED job
      BY <3>1
    <3>2. ASSUME NEW to \in {"over", "queued"}, EndJob(w, to)
          PROVE  \A q \in JobIds : job'[q] # "none" => job[q] # "none"
      BY <3>2, WorkerAssumption DEF EndJob, TypeOK
    <3>. QED BY <1>1, <3>1, <3>2
  <2>. QED BY <1>1, <2>1 DEF RowsKept
<1>2. CASE ModelStart(w)
  <2>1. batch[r[1]] \in BatchRows /\ \A b \in Batches : batch[b] \in BatchRows
    BY <1>0 DEF TypeOK
  <2>2. \A b \in Batches : /\ batch'[b].state = batch[b].state /\ batch'[b].runs = batch[b].runs
                           /\ batch'[b].rounds = batch[b].rounds
    <3>1. CASE Spends(r[1])
      BY <1>2, <1>0, <3>1, ModelStartCharges
    <3>2. CASE ~Spends(r[1])
      BY <1>2, <3>2 DEF ModelStart
    <3>. QED BY <3>1, <3>2
  <2>. QED BY <1>2, <2>2 DEF ModelStart, RowsKept
<1>3. ASSUME NEW asked \in SUBSET Calls, ModelEnd(w, asked) PROVE RowsKept
  BY <1>3, <1>0, EndCallKeeps DEF ModelEnd, RowsKept
<1>4. ASSUME NEW o \in Outcomes, ModelFails(w, o) PROVE RowsKept
  BY <1>4, <1>0, EndCallKeeps DEF ModelFails, RowsKept
<1>5. CASE Enter(w) \/ JournalRefuses(w) \/ Checkpoint(w) \/ Execute(w) \/ ToolEnd(w) \/ Leave(w)
  BY <1>5, <1>1 DEF Enter, JournalRefuses, Checkpoint, Execute, ToolEnd, Leave, rows
<1>6. ASSUME NEW c \in Calls, ToolStart(w, c) PROVE RowsKept
  BY <1>6, <1>1 DEF ToolStart
<1>7. ASSUME NEW o \in Outcomes, GiveUp(w, o) PROVE RowsKept
  BY <1>7, <1>1 DEF GiveUp, rows
<1>8. CASE ToolUnknown(w) \/ CommitFails(w) \/ Die(w)
  BY <1>8, <1>1 DEF ToolUnknown, CommitFails, Die, rows
<1>. QED BY <1>2, <1>3, <1>4, <1>5, <1>6, <1>7, <1>8 DEF Work, Fail

----------------------------------------------------------------------------
(* The rows of a batch fit together.                                       *)

LEMMA RowsInit == Init => RowsInv
  BY LimitAssumption DEF Init, RowsInv, RowsFit, Latest, Runs, JobIds

\* A step that changes the rows of one batch.
OnlyRowsOf(b) ==
  /\ \A d \in Batches : d # b => batch'[d] = batch[d] /\ analysis'[d] = analysis[d]
  /\ \A r \in Runs : r[1] # b => run'[r] = run[r]
  /\ \A q \in JobIds : q[1] # b => (job'[q] # "none" => job[q] # "none")

LEMMA OthersStillFit ==
  ASSUME TypeOK, RowsInv, NEW b \in Batches, OnlyRowsOf(b), RowsFit(b)'
  PROVE  RowsInv'
<1>1. ASSUME NEW d \in Batches, d # b PROVE RowsFit(d)'
  <2>1. RowsFit(d) /\ batch'[d] = batch[d] /\ analysis'[d] = analysis[d] /\ Latest(d)' = Latest(d)
    BY <1>1 DEF RowsInv, OnlyRowsOf, Latest
  <2>2. \A r \in Runs : r[1] = d => run'[r] = run[r]
    BY <1>1 DEF OnlyRowsOf
  <2>3. \A q \in JobIds : q[1] = d => (job'[q] # "none" => job[q] # "none")
    BY <1>1 DEF OnlyRowsOf
  <2>4. \A q \in JobIds : q[1] = d /\ job'[q] # "none" => batch'[d].state # "none"
    BY <2>1, <2>3 DEF RowsFit
  <2>5. run'[Latest(d)] = run[Latest(d)]
    BY <2>2, RunFacts DEF TypeOK
  <2>. QED BY <2>1, <2>2, <2>4, <2>5 DEF RowsFit
<1>. QED BY <1>1 DEF RowsInv

LEMMA KeptRowsFit == ASSUME RowsInv, RowsKept PROVE RowsInv'
<1>1. \A d \in Batches : Latest(d)' = Latest(d)
  BY DEF RowsKept, Latest
<1>. QED BY <1>1 DEF RowsInv, RowsFit, RowsKept

LEMMA BatchWith ==
  ASSUME TypeOK, NEW b \in Batches, NEW x \in BatchRows, batch' = [batch EXCEPT ![b] = x]
  PROVE  /\ batch'[b] = x
         /\ \A d \in Batches : d # b => batch'[d] = batch[d]
         /\ Latest(b)' = <<b, x.runs>>
  BY DEF TypeOK, Latest

LEMMA AnalysedKeeps ==
  ASSUME TypeOK, NEW b \in Batches, NEW st, Analysed(b, st)
  PROVE  \A d \in Batches : d # b => analysis'[d] = analysis[d]
  BY DEF Analysed, TypeOK

LEMMA RowStates ==
  \A x \in BatchRows, st \in BatchStates :
     /\ [x EXCEPT !.state = st].state = st
     /\ [x EXCEPT !.state = st].runs = x.runs
     /\ [x EXCEPT !.state = st].rounds = x.rounds
     /\ [x EXCEPT !.state = st].calls = x.calls
     /\ [x EXCEPT !.state = st].reserved = x.reserved
  BY DEF BatchRows

\* A run that goes to a worker in a batch at work.
LEMMA RunFits ==
  ASSUME TypeOK, RowsInv, NEW w \in Workers, NEW b \in Batches, Run(w, b),
         NEW x \in BatchRows, batch' = [batch EXCEPT ![b] = x],
         x.state = "running", x.runs = batch[b].runs, x.rounds > 0,
         batch[b].state # "none",
         \A q \in JobIds : q[1] # b => (job'[q] # "none" => job[q] # "none")
  PROVE  RowsInv'
<1>. DEFINE l == Latest(b)
<1>1. l \in Runs /\ l[1] = b /\ l[2] = batch[b].runs /\ Latest(b)' = l
  BY RunFacts, BatchWith DEF TypeOK, Latest
<1>2. /\ run'[l].state = "running"
      /\ \A r \in Runs : r # l => run'[r] = run[r]
  BY <1>1 DEF Run, TypeOK
<1>3. batch'[b] = x /\ \A d \in Batches : d # b => batch'[d] = batch[d]
  BY BatchWith
<1>4. OnlyRowsOf(b)
  <2>1. \A d \in Batches : d # b => analysis'[d] = analysis[d]
    BY AnalysedKeeps DEF Run
  <2>. QED BY <1>1, <1>2, <1>3, <2>1 DEF OnlyRowsOf
<1>5. RowsFit(b)
  BY DEF RowsInv
<1>6. RowsFit(b)'
  <2>1. ASSUME NEW r \in Runs, r[1] = b
        PROVE  /\ run'[r].state # "none" => r[2] <= x.runs
               /\ run'[r].state \in {"none", "queued"} => run'[r].lease = NoWorker
    BY <2>1, <1>1, <1>2, <1>5 DEF RowsFit, BatchRows
  <2>. QED BY <1>1, <1>2, <1>3, <2>1 DEF RowsFit
<1>. QED BY <1>4, <1>6, OthersStillFit

LEMMA ClaimFits ==
  ASSUME TypeOK, RowsInv, NEW w \in Workers, NEW q \in JobIds, Claim(w, q)
  PROVE  RowsInv'
<1>. DEFINE b == q[1]
            l == Latest(b)
<1>0. /\ b \in Batches /\ l \in Runs /\ l[1] = b /\ l[2] = batch[b].runs
      /\ batch[b] \in BatchRows /\ RowsFit(b)
  BY RunFacts DEF TypeOK, RowsInv
<1>a. batch[b].state # "none"
  <2>1. job[q] # "none"
    <3>1. Deliver(w, q)
      BY DEF Claim, ClaimNothing, ClaimArchived, ClaimBusy, Resume, HandOver, Begin
    <3>. QED BY <3>1, WorkerAssumption DEF Deliver
  <2>. QED BY <2>1, <1>0 DEF RowsFit
<1>b. \A pc, said : Take(w, q, pc, said) =>
        \A p \in JobIds : p[1] # b => (job'[p] # "none" => job[p] # "none")
  BY DEF Take, TypeOK
<1>1. ASSUME NEW to \in {"queued", "over"}, Return(w, q, to), UNCHANGED rows PROVE RowsInv'
  <2>1. \A p \in JobIds : p # q => job'[p] = job[p]
    BY <1>1 DEF Return, TypeOK
  <2>2. OnlyRowsOf(b) /\ Latest(b)' = Latest(b)
    BY <1>1, <2>1 DEF rows, OnlyRowsOf, Latest
  <2>3. RowsFit(b)'
    BY <1>1, <1>0, <1>a, <2>2 DEF RowsFit, rows
  <2>. QED BY <1>0, <2>2, <2>3, OthersStillFit
<1>2. ASSUME NEW st \in {"cancelled", "waiting_human"}, batch[b].state \notin Stopped,
             batch' = [batch EXCEPT ![b].state = st], Analysed(b, st),
             \A r \in Runs : r[1] # b => run'[r] = run[r],
             \A r \in Runs : r[1] = b =>
               IF run[r].state \in Ended \cup {"none"} THEN run'[r] = run[r] ELSE run'[r].state = st,
             \A p \in JobIds : p[1] # b => (job'[p] # "none" => job[p] # "none")
      PROVE  RowsInv'
  <2>1. PICK x \in BatchRows : x = [batch[b] EXCEPT !.state = st]
    BY <1>0, RowTypes DEF BatchStates, Stopped
  <2>2. x.state = st /\ x.runs = batch[b].runs
    BY <1>0, <2>1, RowStates DEF BatchStates, Stopped
  <2>3. batch'[b] = x /\ (\A d \in Batches : d # b => batch'[d] = batch[d]) /\ Latest(b)' = l
    BY <1>0, <1>2, <2>1, <2>2, BatchWith DEF Latest
  <2>4. OnlyRowsOf(b)
    BY <1>0, <1>2, <2>3, AnalysedKeeps DEF OnlyRowsOf
  <2>5. RowsFit(b)'
    BY <1>0, <1>2, <1>a, <2>2, <2>3 DEF RowsFit, Ended
  <2>. QED BY <1>0, <2>4, <2>5, OthersStillFit
<1>3. CASE ClaimNothing(w, q)
  BY <1>1, <1>3 DEF ClaimNothing
<1>4. CASE ClaimBusy(w, q)
  BY <1>1, <1>4 DEF ClaimBusy
<1>5. CASE ClaimArchived(w, q)
  <2>1. \A r \in Runs : r[1] # b => run'[r] = run[r]
    BY <1>5 DEF ClaimArchived
  <2>2. \A r \in Runs : r[1] = b =>
          IF run[r].state \in Ended \cup {"none"} THEN run'[r] = run[r]
                                                 ELSE run'[r].state = "cancelled"
    <3>1. \A r \in Runs : run[r] \in RunRows /\ "cancelled" \in RunStates
      BY DEF TypeOK, RunStates, Ended
    <3>. QED BY <1>5, <3>1, RowTypes DEF ClaimArchived
  <2>. QED BY <1>5, <1>2, <1>b, <2>1, <2>2 DEF ClaimArchived
<1>6. CASE HandOver(w, q)
  <2>1. \A r \in Runs : r[1] # b => run'[r] = run[r]
    BY <1>6 DEF HandOver
  <2>2. \A r \in Runs : r[1] = b =>
          IF run[r].state \in Ended \cup {"none"} THEN run'[r] = run[r]
                                                 ELSE run'[r].state = "waiting_human"
    BY <1>6 DEF HandOver
  <2>. QED BY <1>6, <1>2, <1>b, <2>1, <2>2 DEF HandOver
<1>7. CASE Resume(w, q)
  <2>1. batch[b].rounds > 0
    BY <1>7, <1>0, <1>a DEF Resume, Begun, RowsFit
  <2>2. PICK x \in BatchRows : x = Resumed(b)
    <3>1. batch[b].reserved - modelCalls[l] \in Int
      BY <1>0 DEF BatchRows, TypeOK
    <3>. QED BY <1>0, <3>1 DEF Resumed, BatchRows, BatchStates
  <2>3. x.state = "running" /\ x.runs = batch[b].runs /\ x.rounds = batch[b].rounds
    BY <1>0, <2>2 DEF Resumed, BatchRows
  <2>. QED BY <1>7, <1>0, <1>a, <1>b, <2>1, <2>2, <2>3, RunFits DEF Resume
<1>8. CASE Begin(w, q)
  <2>1. PICK x \in BatchRows : x = [batch[b] EXCEPT !.state = "running", !.rounds = @ + 1]
    BY <1>0, RowTypes DEF BatchStates
  <2>2. x.state = "running" /\ x.runs = batch[b].runs /\ x.rounds > 0
    <3>1. PICK n \in Nat : n = batch[b].rounds + 1
      BY <1>0 DEF BatchRows
    <3>2. x = [batch[b] EXCEPT !.state = "running", !.rounds = n]
      BY <2>1, <3>1
    <3>3. n > 0
      BY <3>1, <1>0 DEF BatchRows
    <3>. QED BY <3>2, <3>3, <1>0 DEF BatchRows
  <2>3. batch' = [batch EXCEPT ![b] = x]
    BY <1>8, <2>1 DEF Begin
  <2>. QED BY <1>8, <1>0, <1>a, <1>b, <2>2, <2>3, RunFits DEF Begin
<1>. QED BY <1>3, <1>4, <1>5, <1>6, <1>7, <1>8 DEF Claim

\* The rows of a batch that is over, some of whose runs were ended.
LEMMA StoppedFits ==
  ASSUME TypeOK, RowsInv, NEW b \in Batches, NEW st \in Stopped, batch[b].state # "none",
         batch' = [batch EXCEPT ![b].state = st], OnlyRowsOf(b),
         \A r \in Runs : r[1] = b =>
           \/ run'[r] = run[r]
           \/ run'[r].state \in {"waiting_human"} \cup Ended /\ run[r].state # "none"
  PROVE  RowsInv'
<1>. DEFINE l == Latest(b)
<1>0. l \in Runs /\ l[1] = b /\ batch[b] \in BatchRows /\ RowsFit(b)
  BY RunFacts DEF TypeOK, RowsInv
<1>1. PICK x \in BatchRows : x = [batch[b] EXCEPT !.state = st]
  BY <1>0, RowTypes DEF BatchStates
<1>2. x.state = st /\ x.runs = batch[b].runs /\ x.rounds = batch[b].rounds
  BY <1>0, <1>1, RowStates DEF BatchStates
<1>3. batch'[b] = x /\ Latest(b)' = l
  BY <1>0, <1>1, <1>2, BatchWith DEF Latest
<1>4. RowsFit(b)'
  BY <1>0, <1>2, <1>3 DEF RowsFit, Stopped, Ended
<1>. QED BY <1>4, OthersStillFit

LEMMA CommitFits ==
  ASSUME TypeOK, RowsInv, Occupied, NEW w \in Workers, Commit(w)
  PROVE  RowsInv'
<1>. DEFINE r == worker[w].run
            b == r[1]
<1>0. r \in Runs /\ b \in Batches /\ run[r].state # "none" /\ worker[w].outcome \in Outcomes
  BY RunFacts DEF Commit, At, Occupied, OccupiedBy, TypeOK, Executions
<1>1. batch[b].state # "none"
  BY <1>0 DEF RowsInv, RowsFit
<1>2. CASE ~Leased(w)
  BY <1>2, KeptRowsFit DEF Commit, RowsKept
<1>3. CASE Leased(w)
  <2>1. PICK o \in Outcomes, after \in Stopped :
           /\ run' = [run EXCEPT ![r].state = o]
           /\ batch' = [batch EXCEPT ![b].state = after]
           /\ Analysed(b, after) \/ Analysed(b, "failed")
    BY <1>3, <1>0 DEF Commit, Outcomes, Stopped, BatchAfter
  <2>2. run[r] \in RunRows /\ o \in RunStates
    BY <1>0 DEF TypeOK, Outcomes, RunStates, Ended
  <2>3. run'[r].state = o /\ \A s \in Runs : s # r => run'[s] = run[s]
    BY <1>0, <2>1, <2>2, RowTypes DEF TypeOK
  <2>4. \A d \in Batches : d # b => batch'[d] = batch[d] /\ analysis'[d] = analysis[d]
    BY <1>0, <2>1, AnalysedKeeps DEF TypeOK
  <2>5. OnlyRowsOf(b)
    BY <2>3, <2>4 DEF Commit, OnlyRowsOf
  <2>6. \A s \in Runs : s[1] = b =>
          \/ run'[s] = run[s]
          \/ run'[s].state \in {"waiting_human"} \cup Ended /\ run[s].state # "none"
    BY <2>3, <1>0 DEF Outcomes, Ended
  <2>. QED BY <2>1, <2>5, <2>6, <1>0, <1>1, StoppedFits
<1>. QED BY <1>2, <1>3

LEMMA PeopleFit ==
  ASSUME TypeOK, RowsInv,
         \/ \E b \in Batches : Start(b) \/ Extend(b) \/ Retry(b)
         \/ \E r \in Runs : Cancel(r)
         \/ \E q \in JobIds : Unavailable(q)
         \/ Archive \/ Restore
  PROVE  RowsInv'
<1>0. \A b \in Batches : /\ Latest(b) \in Runs /\ Latest(b)[1] = b /\ Latest(b)[2] = batch[b].runs
                         /\ batch[b] \in BatchRows /\ RowsFit(b)
  BY RunFacts DEF TypeOK, RowsInv
<1>e. \A b \in Batches : Enqueue(b) =>
        \A q \in JobIds : q[1] # b => job'[q] = job[q]
  BY DEF Enqueue, TypeOK, JobIds
<1>1. ASSUME NEW b \in Batches, Start(b) PROVE RowsInv'
  <2>0. <<b, 1>> \in Runs /\ 1 \in 1..MaxRuns /\ "queued" \in RunStates
    BY LimitAssumption DEF Runs, RunStates
  <2>1. PICK x \in BatchRows : /\ x = [batch[b] EXCEPT !.state = "queued", !.runs = 1]
                               /\ x.state = "queued" /\ x.runs = 1 /\ x.rounds = batch[b].rounds
    <3>1. PICK i \in 1..MaxRuns : i = 1
      BY <2>0
    <3>2. [batch[b] EXCEPT !.state = "queued", !.runs = i] \in BatchRows
      <4>1. "queued" \in BatchStates /\ batch[b] \in BatchRows
        BY <1>0 DEF BatchStates
      <4>2. \A k \in 1..MaxRuns : [batch[b] EXCEPT !.state = "queued", !.runs = k] \in BatchRows
        BY <4>1 DEF BatchRows
      <4>. QED BY <4>2
    <3>3. /\ [batch[b] EXCEPT !.state = "queued", !.runs = i].state = "queued"
          /\ [batch[b] EXCEPT !.state = "queued", !.runs = i].runs = i
          /\ [batch[b] EXCEPT !.state = "queued", !.runs = i].rounds = batch[b].rounds
      BY <1>0 DEF BatchRows
    <3>. QED BY <3>1, <3>2, <3>3
  <2>2. /\ batch'[b] = x /\ (\A d \in Batches : d # b => batch'[d] = batch[d])
        /\ Latest(b)' = <<b, 1>>
    <3>1. batch' = [batch EXCEPT ![b] = x]
      BY <1>1, <2>1 DEF Start
    <3>2. Latest(b)' = <<b, x.runs>>
      BY <3>1, BatchWith
    <3>. QED BY <3>1, <3>2, <2>1, BatchWith
  <2>3. run[<<b, 1>>] \in RunRows
    BY <2>0 DEF TypeOK
  <2>4. /\ run'[<<b, 1>>].state = "queued" /\ run'[<<b, 1>>].lease = run[<<b, 1>>].lease
        /\ \A r \in Runs : r # <<b, 1>> => run'[r] = run[r]
    BY <1>1, <2>0, <2>3, RowTypes DEF Start, TypeOK
  <2>5. OnlyRowsOf(b)
    <3>1. Enqueue(b) /\ Analysed(b, "queued")
      BY <1>1 DEF Start
    <3>2. \A d \in Batches : d # b => analysis'[d] = analysis[d]
      BY <3>1, AnalysedKeeps
    <3>3. \A r \in Runs : r[1] # b => run'[r] = run[r]
      BY <2>4
    <3>. QED BY <3>1, <3>2, <3>3, <1>e, <2>2 DEF OnlyRowsOf
  <2>6. \A r \in Runs : r[1] = b => run[r].state = "none" /\ run[r].lease = NoWorker
    BY <1>0, <1>1 DEF Start, RowsFit
  <2>7. RowsFit(b)'
    BY <2>0, <2>1, <2>2, <2>4, <2>6 DEF RowsFit
  <2>. QED BY <2>5, <2>7, OthersStillFit
<1>2. ASSUME NEW b \in Batches, Extend(b) PROVE RowsInv'
  <2>. DEFINE n == batch[b].runs + 1
  <2>0. n \in 1..MaxRuns /\ <<b, n>> \in Runs /\ "queued" \in RunStates /\ batch[b].max + 1 \in Nat
    <3>1. batch[b].runs \in 1..MaxRuns /\ batch[b].runs < MaxRuns /\ batch[b].max \in Nat
      BY <1>0, <1>2 DEF Extend, BatchRows
    <3>2. MaxRuns \in Nat
      BY LimitAssumption
    <3>3. n \in 1..MaxRuns /\ batch[b].max + 1 \in Nat
      BY <3>1, <3>2
    <3>. QED BY <3>3 DEF Runs, RunStates
  <2>1. PICK x \in BatchRows :
          /\ x = [batch[b] EXCEPT !.state = "queued", !.runs = @ + 1, !.max = @ + 1]
          /\ x.state = "queued" /\ x.runs = n /\ x.rounds = batch[b].rounds
    <3>1. PICK i \in 1..MaxRuns, m \in Nat : i = n /\ m = batch[b].max + 1
      BY <2>0
    <3>2. [batch[b] EXCEPT !.state = "queued", !.runs = i, !.max = m] \in BatchRows
      <4>1. "queued" \in BatchStates /\ batch[b] \in BatchRows
        BY <1>0 DEF BatchStates
      <4>2. \A k \in 1..MaxRuns, j \in Nat :
              [batch[b] EXCEPT !.state = "queued", !.runs = k, !.max = j] \in BatchRows
        BY <4>1 DEF BatchRows
      <4>. QED BY <4>2
    <3>3. /\ [batch[b] EXCEPT !.state = "queued", !.runs = i, !.max = m].state = "queued"
          /\ [batch[b] EXCEPT !.state = "queued", !.runs = i, !.max = m].runs = i
          /\ [batch[b] EXCEPT !.state = "queued", !.runs = i, !.max = m].rounds = batch[b].rounds
      BY <1>0 DEF BatchRows
    <3>. QED BY <3>1, <3>2, <3>3
  <2>2. /\ batch'[b] = x /\ (\A d \in Batches : d # b => batch'[d] = batch[d])
        /\ Latest(b)' = <<b, n>>
    <3>1. batch' = [batch EXCEPT ![b] = x]
      BY <1>2, <2>1 DEF Extend
    <3>. QED BY ZenonT(60), <3>1, <2>1, BatchWith
  <2>3. run[<<b, n>>] \in RunRows
    BY <2>0 DEF TypeOK
  <2>4. /\ run'[<<b, n>>].state = "queued" /\ run'[<<b, n>>].lease = run[<<b, n>>].lease
        /\ \A r \in Runs : r # <<b, n>> => run'[r] = run[r]
    BY <1>2, <2>0, <2>3, RowTypes DEF Extend, TypeOK
  <2>5. OnlyRowsOf(b)
    <3>1. Enqueue(b) /\ UNCHANGED analysis
      BY <1>2 DEF Extend
    <3>3. \A r \in Runs : r[1] # b => run'[r] = run[r]
      BY <2>4
    <3>. QED BY <3>1, <3>3, <1>e, <2>2 DEF OnlyRowsOf
  <2>6. run[<<b, n>>].state = "none"
    BY <1>0, <2>0 DEF RowsFit, BatchRows
  <2>7. RowsFit(b)'
    <3>1. batch[b].runs \in Int /\ \A r \in Runs : r[2] \in Int
      BY <1>0 DEF BatchRows, Runs
    <3>. QED BY <1>0, <2>0, <2>1, <2>2, <2>4, <2>6, <3>1 DEF RowsFit
  <2>. QED BY <2>5, <2>7, OthersStillFit
<1>3. ASSUME NEW b \in Batches, Retry(b) PROVE RowsInv'
  <2>0. batch[b].state # "none"
    BY <1>0, <1>3 DEF Retry, RowsFit
  <2>1. PICK x \in BatchRows : x = [batch[b] EXCEPT !.state = "queued"]
    BY <1>0, RowTypes DEF BatchStates
  <2>2. x.state = "queued" /\ x.runs = batch[b].runs /\ x.rounds = batch[b].rounds
    BY <1>0, <2>1, RowStates DEF BatchStates
  <2>3. /\ batch'[b] = x /\ (\A d \in Batches : d # b => batch'[d] = batch[d])
        /\ Latest(b)' = Latest(b)
    <3>1. batch' = [batch EXCEPT ![b] = x]
      BY <1>3, <2>1 DEF Retry
    <3>. QED BY <3>1, <2>2, BatchWith DEF Latest
  <2>4. \A r \in Runs : IF r[1] = b /\ run[r].state # "none"
                          THEN run'[r].state = "queued" /\ run'[r].lease = NoWorker
                          ELSE run'[r] = run[r]
    BY <1>3 DEF Retry, Requeued
  <2>5. OnlyRowsOf(b)
    BY <1>3, <1>e, <2>3, <2>4 DEF Retry, OnlyRowsOf, TypeOK
  <2>6. RowsFit(b)'
    BY <1>0, <2>0, <2>2, <2>3, <2>4 DEF RowsFit
  <2>. QED BY <2>5, <2>6, OthersStillFit
<1>4. ASSUME NEW r \in Runs, Cancel(r) PROVE RowsInv'
  <2>. DEFINE b == r[1]
  <2>0. b \in Batches /\ run[r] \in RunRows /\ "cancelled" \in RunStates /\ run[r].state # "none"
    BY <1>4, RunFacts DEF TypeOK, RunStates, Ended, Cancel
  <2>1. batch[b].state # "none"
    BY <1>0, <2>0 DEF RowsFit
  <2>2. run'[r].state = "cancelled" /\ \A s \in Runs : s # r => run'[s] = run[s]
    BY <1>4, <2>0, RowTypes DEF Cancel, TypeOK
  <2>3. batch' = [batch EXCEPT ![b].state = "cancelled"]
    BY <1>4 DEF Cancel, RunCancelled
  <2>4. OnlyRowsOf(b)
    BY <1>4, <2>0, <2>2, <2>3 DEF Cancel, OnlyRowsOf, TypeOK
  <2>. QED BY <2>0, <2>1, <2>2, <2>3, <2>4, StoppedFits DEF Stopped, Ended
<1>5. ASSUME NEW q \in JobIds, Unavailable(q) PROVE RowsInv'
  <2>. DEFINE b == q[1]
  <2>0. b \in Batches /\ batch[b].state # "none"
    <3>1. job[q] # "none"
      BY <1>5, WorkerAssumption DEF Unavailable
    <3>. QED BY <3>1, <1>0, RunFacts DEF RowsFit
  <2>1. \A s \in Runs : s[1] # b => run'[s] = run[s]
    BY <1>5 DEF Unavailable
  <2>2. \A s \in Runs : s[1] = b =>
          \/ run'[s] = run[s]
          \/ run'[s].state \in {"failed", "waiting_human"} /\ run[s].state # "none"
    BY <1>5 DEF Unavailable, Ended
  <2>3. OnlyRowsOf(b)
    BY <1>5, <2>0, <2>1, AnalysedKeeps DEF Unavailable, OnlyRowsOf, TypeOK
  <2>4. CASE batch[b].state \in {"queued", "running"}
    BY <1>5, <2>0, <2>2, <2>3, <2>4, StoppedFits DEF Unavailable, Stopped, Ended
  <2>5. CASE batch[b].state \notin {"queued", "running"}
    <3>1. batch' = batch
      BY <1>5, <2>5 DEF Unavailable
    <3>2. RowsFit(b)'
      BY <1>0, <2>0, <2>2, <2>5, <3>1 DEF RowsFit, Latest
    <3>. QED BY <2>0, <2>3, <3>2, OthersStillFit
  <2>. QED BY <2>4, <2>5
<1>6. CASE Archive \/ Restore
  BY <1>6, KeptRowsFit DEF Archive, Restore, RowsKept, rows
<1>. QED BY <1>1, <1>2, <1>3, <1>4, <1>5, <1>6

LEMMA RowsStep == TypeOK /\ Occupied /\ RowsInv /\ [Next]_vars => RowsInv'
<1>. SUFFICES ASSUME TypeOK, Occupied, RowsInv, [Next]_vars PROVE RowsInv'
  OBVIOUS
<1>1. CASE UNCHANGED vars
  BY <1>1, KeptRowsFit DEF vars, rows, RowsKept
<1>2. ASSUME NEW w \in Workers, Work(w) \/ Fail(w) PROVE RowsInv'
  BY <1>2, CommitFits, LoopKeepsRows, KeptRowsFit
<1>. QED BY <1>1, <1>2, ClaimFits, PeopleFit DEF Next

----------------------------------------------------------------------------
(* Workers that do not take part in a step.                                *)

LEMMA WorkerFacts ==
  ASSUME TypeOK, WorkersInv, NEW v \in Workers, ~At(v, "idle")
  PROVE  /\ worker[v].run \in Runs /\ worker[v].run[1] \in Batches
         /\ worker[v].pc \in Handling => worker[v].call \in Calls
         /\ WorkerFits(v) /\ Occupied
<1>1. WorkerFits(v) /\ Occupied
  BY DEF WorkersInv, WorkerFits, Occupied
<1>. QED BY <1>1, RunFacts DEF WorkerFits, OccupiedBy

\* A step leaves the leases of a worker and the runs it holds alone, or takes them away; the batch
\* of a run that it holds stays with it; and what changes in the journal is of runs it does not hold.
Spared(v) ==
  LET r == worker[v].run
      c == worker[v].call IN
  /\ worker'[v] = worker[v]
  /\ run'[r].state # "none"
  /\ run'[r].lease = v => run[r].lease = v
  /\ run'[r].lease = v /\ run'[r].state = "running" => run[r].state = "running"
  /\ worker[v].pc \in Handling => /\ tool'[r][c] # "none"
                                  /\ At(v, "effect") => /\ tool'[r][c] \in Undecided
                                                        /\ effects'[r][c] = effects[r][c]
  /\ Engaged(v) /\ run'[r].lease = v =>
       /\ batch'[r[1]].runs = batch[r[1]].runs
       /\ batch'[r[1]].state \notin {"completed", "waiting_human"}
  /\ run'[r].lease = v /\ run'[r].state = "running" =>
       \A d \in Calls : tool'[r][d] = tool[r][d]
  /\ Writes(v) /\ run'[r].lease = v /\ run'[r].state = "running" =>
       \A s \in Runs, d \in Calls : s[1] = r[1] => tool'[s][d] = tool[s][d]
  /\ At(v, "stream") /\ run'[r].lease = v => modelCalls'[r] = modelCalls[r]

LEMMA SparedFits ==
  ASSUME TypeOK, WorkersInv, NEW v \in Workers, ~At(v, "idle"), Spared(v)
  PROVE  WorkerFits(v)'
<1>. DEFINE r == worker[v].run
            c == worker[v].call
<1>0. r \in Runs /\ r[1] \in Batches /\ WorkerFits(v) /\ (worker[v].pc \in Handling => c \in Calls)
  BY WorkerFacts
<1>1. worker'[v] = worker[v] /\ (Leased(v)' => Leased(v)) /\ (Writes(v)' => Writes(v))
      /\ (Engaged(v)' => Engaged(v)) /\ (Leased(v)' => run'[r].lease = v)
  BY DEF Spared, Leased, Writes, Engaged
<1>2. OccupiedBy(v)'
  BY <1>0, <1>1 DEF Spared, WorkerFits, OccupiedBy, At
<1>3. InLatest(v)'
  <2>1. CASE ~Engaged(v)'
    BY <2>1 DEF InLatest
  <2>2. CASE Engaged(v)'
    <3>1. Engaged(v) /\ run'[r].lease = v
      BY <1>1, <2>2 DEF Engaged
    <3>2. /\ r = Latest(r[1]) /\ batch'[r[1]].runs = batch[r[1]].runs
          /\ batch'[r[1]].state \notin {"completed", "waiting_human"}
      BY <1>0, <3>1 DEF Spared, WorkerFits, InLatest
    <3>3. worker'[v].run = r
      BY <1>1
    <3>. QED BY <3>2, <3>3 DEF InLatest, Latest
  <2>. QED BY <2>1, <2>2
<1>4. KnowsDoubt(v)'
  BY <1>0, <1>1 DEF Spared, WorkerFits, KnowsDoubt, Writes
<1>5. InHand(v)'
  <2>1. Writes(v)' => tool'[r][c] = tool[r][c] \/ worker[v].pc \notin Handling
    BY <1>0, <1>1 DEF Spared, Writes
  <2>. QED BY <1>0, <1>1, <2>1 DEF Spared, WorkerFits, InHand, At, Handling
<1>6. CallOut(v)'
  BY <1>0, <1>1 DEF Spared, WorkerFits, CallOut, At
<1>7. KeepsSandbox(v)'
  BY <1>0, <1>1, KindAssumption DEF Spared, WorkerFits, KeepsSandbox, At, Leased
<1>. QED BY <1>2, <1>3, <1>4, <1>5, <1>6, <1>7 DEF WorkerFits

LEMMA IdleFits == ASSUME NEW v \in Workers, worker'[v].pc = "idle" PROVE WorkerFits(v)'
  BY DEF At, WorkerFits, OccupiedBy, InLatest, KnowsDoubt, InHand, CallOut, KeepsSandbox,
         Engaged, Writes, Handling, Looping

\* Of two workers that hold a run of a batch, one at most goes on with it.
LEMMA Apart ==
  ASSUME TypeOK, WorkersInv, NEW v \in Workers, NEW w \in Workers, v # w, Engaged(v), Engaged(w)
  PROVE  worker[v].run[1] # worker[w].run[1]
<1>1. worker[v].run = Latest(worker[v].run[1]) /\ worker[w].run = Latest(worker[w].run[1])
  BY DEF WorkersInv, WorkerFits, InLatest
<1>2. worker[v].run # worker[w].run
  BY DEF Engaged, Leased
<1>. QED BY <1>1, <1>2

LEMMA WritesEngaged == ASSUME TypeOK, NEW v \in Workers, Writes(v) PROVE Engaged(v)
<1>1. worker[v].pc \in PCs
  BY DEF TypeOK, Executions
<1>. QED BY <1>1 DEF Writes, Engaged, PCs, Looping

\* A step in the journal spares the workers whose calls and runs it does not write.
LEMMA JournalSpares ==
  ASSUME TypeOK, WorkersInv, RowsKept, NEW v \in Workers, ~At(v, "idle"), worker'[v] = worker[v],
         worker[v].pc \in Handling =>
           /\ tool'[worker[v].run][worker[v].call] = tool[worker[v].run][worker[v].call]
           /\ effects'[worker[v].run][worker[v].call] = effects[worker[v].run][worker[v].call],
         Leased(v) /\ run[worker[v].run].state = "running" =>
           \A d \in Calls : tool'[worker[v].run][d] = tool[worker[v].run][d],
         Writes(v) => \A s \in Runs, d \in Calls :
                        s[1] = worker[v].run[1] => tool'[s][d] = tool[s][d],
         At(v, "stream") /\ Leased(v) => modelCalls'[worker[v].run] = modelCalls[worker[v].run]
  PROVE  Spared(v)
<1>. DEFINE r == worker[v].run
            c == worker[v].call
<1>0. r \in Runs /\ r[1] \in Batches /\ WorkerFits(v) /\ (worker[v].pc \in Handling => c \in Calls)
  BY WorkerFacts
<1>1. run' = run /\ batch'[r[1]].state = batch[r[1]].state /\ batch'[r[1]].runs = batch[r[1]].runs
  BY <1>0 DEF RowsKept
<1>2. run[r].state # "none"
  BY <1>0 DEF WorkerFits, OccupiedBy
<1>3. worker[v].pc \in Handling =>
        /\ tool[r][c] # "none"
        /\ At(v, "effect") => tool[r][c] \in Undecided
  BY <1>0 DEF WorkerFits, InHand
<1>4. Engaged(v) => batch[r[1]].state \notin {"completed", "waiting_human"}
  BY <1>0 DEF WorkerFits, InLatest
<1>. QED BY <1>1, <1>2, <1>3, <1>4 DEF Spared, Leased

LEMMA LoopSpares ==
  ASSUME TypeOK, WorkersInv, CallsInv, NEW w \in Workers, Work(w) \/ Fail(w),
         NEW v \in Workers, v # w, ~At(v, "idle")
  PROVE  Spared(v)
<1>. DEFINE r == worker[v].run
            c == worker[v].call
            s == worker[w].run
            d == worker[w].call
<1>0. r \in Runs /\ WorkerFits(v) /\ Occupied /\ (worker[v].pc \in Handling => c \in Calls)
  BY WorkerFacts
<1>1. s \in Runs /\ s[1] \in Batches /\ (worker[w].pc \in Handling => d \in Calls)
  <2>1. ~At(w, "idle")
    BY DEF Work, Enter, JournalRefuses, ModelStart, ModelEnd, Checkpoint, ToolStart, Execute,
           ToolEnd, Commit, Leave, At, Fail, GiveUp, ModelFails, ToolUnknown, CommitFails, Die
  <2>. QED BY <2>1, WorkerFacts
<1>2. worker'[v] = worker[v]
  BY DEF Work, Enter, JournalRefuses, ModelStart, ModelEnd, Checkpoint, ToolStart, Execute,
         ToolEnd, Commit, Leave, Fail, GiveUp, ModelFails, ToolUnknown, CommitFails, Die, Go,
         StopWith, TypeOK
<1>3. ~Commit(w) => RowsKept
  BY <1>0, LoopKeepsRows
<1>4. CASE /\ ~Commit(w)
           /\ \/ Enter(w) \/ JournalRefuses(w) \/ Checkpoint(w) \/ Leave(w) \/ CommitFails(w)
              \/ Die(w) \/ \E o \in Outcomes : GiveUp(w, o)
  <2>1. RowsKept
    BY <1>4, <1>3
  <2>2. UNCHANGED <<tool, effects, modelCalls>>
    BY <1>4 DEF Enter, JournalRefuses, Checkpoint, Leave, CommitFails, Die, GiveUp, rows
  <2>. QED BY <2>1, <2>2, <1>2, JournalSpares
<1>5. ASSUME At(w, "model") \/ At(w, "stream"), RowsKept, UNCHANGED <<tool, effects>>,
             UNCHANGED modelCalls \/ (Leased(w) /\ \A i \in Runs : i # s => modelCalls'[i] = modelCalls[i])
      PROVE  Spared(v)
  <2>1. At(v, "stream") /\ Leased(v) => modelCalls'[r] = modelCalls[r]
    BY <1>5, <1>0 DEF Leased
  <2>. QED BY <2>1, <1>5, <1>2, JournalSpares
<1>6. CASE ModelStart(w)
  BY <1>6, <1>5, <1>3, <1>1 DEF ModelStart, Commit, At, Fenced, TypeOK
<1>7. ASSUME NEW asked \in SUBSET Calls, ModelEnd(w, asked) PROVE Spared(v)
  BY <1>7, <1>5, <1>3, <1>1 DEF ModelEnd, EndCall, Commit, At, Fenced, TypeOK
<1>8. ASSUME NEW o \in Outcomes, ModelFails(w, o) PROVE Spared(v)
  BY <1>8, <1>5, <1>3, <1>1 DEF ModelFails, EndCall, Commit, At, Fenced, TypeOK
<1>9. ASSUME worker[w].pc \in {"tools", "record"}, Fenced(w), RowsKept, UNCHANGED <<effects, modelCalls>>,
             NEW e \in Calls, NEW st, tool' = [tool EXCEPT ![s][e] = st] \/ UNCHANGED tool,
             worker[v].pc \in Handling => r # s \/ c # e
      PROVE  Spared(v)
  <2>0. \A i \in Runs, j \in Calls : i # s \/ j # e => tool'[i][j] = tool[i][j]
    BY <1>9 DEF TypeOK
  <2>1. Engaged(w)
    BY <1>9 DEF Fenced, Engaged, Looping
  <2>2. Writes(v) => \A i \in Runs, j \in Calls : i[1] = r[1] => tool'[i][j] = tool[i][j]
    BY <2>0, <2>1, WritesEngaged, Apart
  <2>3. Leased(v) => r # s
    BY <1>9 DEF Fenced, Leased
  <2>. QED BY <2>0, <2>2, <2>3, <1>9, <1>2, <1>0, JournalSpares
<1>10. ASSUME NEW e \in Calls, ToolStart(w, e) PROVE Spared(v)
  <2>1. CASE Unrecorded(s, e)
    <3>1. worker[v].pc \in Handling => r # s \/ c # e
      BY <2>1, <1>0 DEF Unrecorded, WorkerFits, InHand
    <3>2. tool' = [tool EXCEPT ![s][e] = "prepared"]
      BY <1>10, <2>1 DEF ToolStart
    <3>. QED BY <3>1, <3>2, <1>10, <1>9, <1>3 DEF ToolStart, Commit, At
  <2>2. CASE ~Unrecorded(s, e)
    BY <2>2, <1>10, <1>2, <1>3, JournalSpares DEF ToolStart, Commit, At
  <2>. QED BY <2>1, <2>2
<1>11. worker[v].pc \in Handling /\ worker[w].pc \in Handling => r # s \/ c # d
  BY DEF CallsInv
<1>12. CASE ToolEnd(w) \/ ToolUnknown(w)
  <2>1. At(w, "record") /\ Fenced(w) /\ RowsKept /\ UNCHANGED <<effects, modelCalls>> /\ d \in Calls
    BY <1>12, <1>1, <1>3 DEF ToolEnd, ToolUnknown, Commit, At, Handling
  <2>2. PICK st \in {"done", "unknown"} : tool' = [tool EXCEPT ![s][d] = st]
    BY <1>12 DEF ToolEnd, ToolUnknown
  <2>. QED BY <2>1, <2>2, <1>9, <1>11 DEF At, Handling
<1>13. CASE Execute(w)
  <2>1. d \in Calls /\ RowsKept /\ UNCHANGED <<tool, modelCalls>>
    BY <1>13, <1>1, <1>3 DEF Execute, Commit, At, Handling, rows
  <2>2. \A i \in Runs, j \in Calls : i # s \/ j # d => effects'[i][j] = effects[i][j]
    BY <1>13, <1>1, <2>1 DEF Execute, TypeOK
  <2>3. worker[v].pc \in Handling => effects'[r][c] = effects[r][c]
    BY <1>13, <2>2, <1>11, <1>0 DEF Execute, At, Handling
  <2>. QED BY <2>1, <2>3, <1>2, JournalSpares
<1>14. CASE Commit(w)
  <2>0. UNCHANGED <<tool, effects, modelCalls>>
    BY <1>14 DEF Commit
  <2>1. CASE ~Leased(w)
    BY <2>0, <2>1, <1>14, <1>2, JournalSpares DEF Commit, RowsKept
  <2>2. CASE Leased(w)
    <3>1. PICK o \in Outcomes, after \in Stopped :
             /\ run' = [run EXCEPT ![s].state = o]
             /\ batch' = [batch EXCEPT ![s[1]].state = after]
      <4>1. worker[w].outcome \in Outcomes
        BY DEF TypeOK, Executions
      <4>. QED BY <4>1, <1>14, <2>2 DEF Commit, Outcomes, Stopped, BatchAfter
    <3>2. run[s] \in RunRows /\ o \in RunStates
      BY <1>1 DEF TypeOK, Outcomes, RunStates, Ended
    <3>3. /\ run'[s].state = o /\ run'[s].lease = w
          /\ \A i \in Runs : i # s => run'[i] = run[i]
      BY <1>1, <2>2, <3>1, <3>2, RowTypes DEF TypeOK, Leased
    <3>4. Engaged(w)
      BY <1>14, <2>2 DEF Commit, At, Engaged, Looping
    <3>5. Engaged(v) => batch'[r[1]] = batch[r[1]]
      BY <3>1, <3>4, Apart, <1>0, <1>1 DEF TypeOK
    <3>6. Engaged(v) => batch[r[1]].state \notin {"completed", "waiting_human"}
      BY <1>0 DEF WorkerFits, InLatest
    <3>7. run'[r].state # "none"
      BY <1>0, <3>3 DEF Outcomes, WorkerFits, OccupiedBy
    <3>8. worker[v].pc \in Handling =>
            /\ tool[r][c] # "none"
            /\ At(v, "effect") => tool[r][c] \in Undecided
      BY <1>0 DEF WorkerFits, InHand
    <3>9. r = s => run'[r].lease # v
      BY <3>3
    <3>. QED BY <2>0, <1>2, <1>0, <3>3, <3>5, <3>6, <3>7, <3>8, <3>9 DEF Spared, Latest
  <2>. QED BY <2>1, <2>2
<1>. QED BY <1>4, <1>6, <1>7, <1>8, <1>10, <1>12, <1>13, <1>14 DEF Work, Fail

\* Nobody who holds a run of a batch that is over goes on with its latest run.
LEMMA NotQueuedOrRunning ==
  ASSUME TypeOK, RowsInv, WorkersInv, NEW v \in Workers, ~At(v, "idle"), Engaged(v),
         run[worker[v].run].state \in {"waiting_human"} \cup Ended
  PROVE  batch[worker[v].run[1]].state \in {"cancelled", "failed"}
<1>. DEFINE b == worker[v].run[1]
<1>1. /\ worker[v].run \in Runs /\ b \in Batches /\ WorkerFits(v) /\ batch[b] \in BatchRows
      /\ run[worker[v].run].state # "none"
  BY WorkerFacts DEF TypeOK, WorkerFits, OccupiedBy
<1>2. worker[v].run = Latest(b) /\ batch[b].state \notin {"completed", "waiting_human"}
  BY <1>1 DEF WorkerFits, InLatest
<1>3. RowsFit(b)
  BY <1>1 DEF RowsInv
<1>4. batch[b].state # "none"
  BY <1>1, <1>3 DEF RowsFit
<1>5. batch[b].state \notin {"queued", "running"}
  BY <1>2, <1>3 DEF RowsFit, Ended
<1>. QED BY <1>1, <1>2, <1>4, <1>5 DEF BatchRows, BatchStates, Stopped

LEMMA ClaimSpares ==
  ASSUME TypeOK, RowsInv, WorkersInv, NEW w \in Workers, NEW q \in JobIds, Claim(w, q),
         NEW v \in Workers, ~At(v, "idle")
  PROVE  v # w /\ Spared(v)
<1>. DEFINE b == q[1]
            l == Latest(b)
            r == worker[v].run
            c == worker[v].call
<1>0. /\ b \in Batches /\ l \in Runs /\ l[1] = b /\ batch[b] \in BatchRows
      /\ r \in Runs /\ r[1] \in Batches /\ WorkerFits(v) /\ (worker[v].pc \in Handling => c \in Calls)
      /\ run[r] \in RunRows /\ run[r].state # "none"
  BY RunFacts, WorkerFacts DEF TypeOK, WorkerFits, OccupiedBy
<1>1. v # w
  BY DEF Claim, ClaimNothing, ClaimArchived, ClaimBusy, Resume, HandOver, Begin, Deliver, At
<1>2. worker'[v] = worker[v]
  BY <1>1 DEF Claim, ClaimNothing, ClaimArchived, ClaimBusy, Resume, HandOver, Begin, Take, Return,
              TypeOK
<1>3. worker[v].pc \in Handling =>
        /\ tool[r][c] # "none"
        /\ At(v, "effect") => tool[r][c] \in Undecided
  BY <1>0 DEF WorkerFits, InHand
<1>4. Engaged(v) => /\ batch[r[1]].state \notin {"completed", "waiting_human"}
                    /\ r = Latest(r[1])
  BY <1>0 DEF WorkerFits, InLatest
<1>5. CASE ClaimNothing(w, q) \/ ClaimBusy(w, q)
  <2>1. run' = run /\ batch' = batch /\ tool' = tool /\ modelCalls' = modelCalls /\ effects' = effects
    BY <1>5 DEF ClaimNothing, ClaimBusy, rows
  <2>. QED BY <2>1, <1>0, <1>1, <1>2, <1>3, <1>4 DEF Spared
<1>6. CASE ClaimArchived(w, q)
  <2>1. UNCHANGED <<tool, effects, modelCalls>>
    BY <1>6 DEF ClaimArchived
  <2>2. /\ run'[r].state \in {run[r].state, "cancelled"} /\ run'[r].lease = run[r].lease
    <3>1. "cancelled" \in RunStates
      BY DEF RunStates, Ended
    <3>. QED BY <3>1, <1>6, <1>0, RowTypes DEF ClaimArchived
  <2>3. /\ batch'[r[1]].runs = batch[r[1]].runs
        /\ batch'[r[1]].state \in {batch[r[1]].state, "cancelled"}
    <3>1. PICK x \in BatchRows : x = [batch[b] EXCEPT !.state = "cancelled"]
      BY <1>0, RowTypes DEF BatchStates, Stopped
    <3>2. x.state = "cancelled" /\ x.runs = batch[b].runs
      BY <3>1, <1>0, RowStates DEF BatchStates, Stopped
    <3>3. batch' = [batch EXCEPT ![b] = x]
      BY <3>1, <1>6 DEF ClaimArchived
    <3>4. batch'[b] = x /\ (r[1] # b => batch'[r[1]] = batch[r[1]])
      BY <3>2, <3>3, <1>0, BatchWith DEF Latest
    <3>5. CASE r[1] = b
      BY <3>4, <3>5, <3>2
    <3>6. CASE r[1] # b
      BY <3>4, <3>6
    <3>. QED BY <3>5, <3>6
  <2>4. Engaged(v) => batch'[r[1]].state \notin {"completed", "waiting_human"}
    BY <2>3, <1>4
  <2>5. run'[r].state # "none" /\ (run'[r].state = "running" => run[r].state = "running")
    BY <2>2, <1>0
  <2>. QED BY <2>1, <2>2, <2>3, <2>4, <2>5, <1>0, <1>1, <1>2, <1>3 DEF Spared
<1>7. CASE HandOver(w, q)
  <2>1. UNCHANGED <<effects, modelCalls>>
    BY <1>7 DEF HandOver
  <2>2. \/ run'[r] = run[r] /\ (r[1] = b => run[r].state \in Ended)
        \/ run'[r].state = "waiting_human" /\ run'[r].lease = w
    BY <1>7, <1>0 DEF HandOver
  <2>3. /\ \A s \in Runs, d \in Calls : tool'[s][d] = IF s[1] = b /\ tool[s][d] = "prepared"
                                                        THEN "unknown" ELSE tool[s][d]
    BY <1>7 DEF HandOver
  <2>4. Engaged(v) /\ run'[r].lease = v => r[1] # b
    <3>1. batch[b].state \notin Stopped
      BY <1>7 DEF HandOver
    <3>. QED BY <3>1, <2>2, <1>1, NotQueuedOrRunning DEF Stopped
  <2>5. r[1] # b => batch'[r[1]] = batch[r[1]]
    BY <1>7, <1>0 DEF HandOver, TypeOK
  <2>6. run'[r].lease = v /\ run'[r].state = "running" => r[1] # b
    BY <2>2, <1>1 DEF Ended
  <2>. QED BY <2>1, <2>2, <2>3, <2>4, <2>5, <2>6, <1>0, <1>1, <1>2, <1>3, <1>4
           DEF Spared, Latest, Undecided
<1>8. CASE Resume(w, q) \/ Begin(w, q)
  <2>1. UNCHANGED <<effects, tool>> /\ (\A s \in Runs : s # l => modelCalls'[s] = modelCalls[s])
    BY <1>8, <1>0 DEF Resume, Begin, TypeOK
  <2>2. IF r = l THEN run'[r].state = "running" /\ run'[r].lease = w ELSE run'[r] = run[r]
    BY <1>8, <1>0 DEF Resume, Begin, Run, TypeOK
  <2>3. r[1] # b => batch'[r[1]] = batch[r[1]]
    BY <1>8, <1>0 DEF Resume, Begin, TypeOK
  <2>. QED BY <2>1, <2>2, <2>3, <1>0, <1>1, <1>2, <1>3, <1>4 DEF Spared, Latest
<1>. QED BY <1>1, <1>5, <1>6, <1>7, <1>8 DEF Claim

LEMMA PeopleSpare ==
  ASSUME TypeOK, RowsInv, WorkersInv,
         \/ \E b \in Batches : Start(b) \/ Extend(b) \/ Retry(b)
         \/ \E i \in Runs : Cancel(i)
         \/ \E q \in JobIds : Unavailable(q)
         \/ Archive \/ Restore,
         NEW v \in Workers, ~At(v, "idle")
  PROVE  Spared(v)
<1>. DEFINE r == worker[v].run
            c == worker[v].call
            d == r[1]
<1>0. /\ r \in Runs /\ d \in Batches /\ WorkerFits(v) /\ (worker[v].pc \in Handling => c \in Calls)
      /\ run[r] \in RunRows /\ run[r].state # "none" /\ RowsFit(d) /\ batch[d] \in BatchRows
  BY WorkerFacts DEF TypeOK, WorkerFits, OccupiedBy, RowsInv
<1>1. batch[d].state # "none" /\ r[2] <= batch[d].runs /\ v # NoWorker
  BY <1>0, WorkerAssumption DEF RowsFit, NoWorker
<1>2. worker' = worker /\ effects' = effects /\ modelCalls' = modelCalls
  BY DEF Start, Extend, Retry, Cancel, Unavailable, Archive, Restore, rows
<1>3. worker[v].pc \in Handling =>
        /\ tool[r][c] # "none"
        /\ At(v, "effect") => tool[r][c] \in Undecided
  BY <1>0 DEF WorkerFits, InHand
<1>4. Engaged(v) => batch[d].state \notin {"completed", "waiting_human"} /\ r = Latest(d)
  BY <1>0 DEF WorkerFits, InLatest
<1>5. ASSUME run'[r] = run[r], batch'[d] = batch[d], tool' = tool PROVE Spared(v)
  BY <1>5, <1>0, <1>2, <1>3, <1>4 DEF Spared
<1>6. ASSUME NEW b \in Batches, Start(b) PROVE Spared(v)
  <2>1. d # b
    BY <1>6, <1>1 DEF Start
  <2>. QED BY <2>1, <1>5, <1>6, <1>0 DEF Start, TypeOK
<1>7. ASSUME NEW b \in Batches, Extend(b) PROVE Spared(v)
  <2>1. r # <<b, batch[b].runs + 1>>
    <3>1. d = b => r[2] \in Int /\ batch[b].runs \in Int /\ r[2] <= batch[b].runs
      BY <1>0, <1>1 DEF BatchRows, Runs
    <3>. QED BY <3>1
  <2>2. run'[r] = run[r] /\ tool' = tool
    BY <2>1, <1>7, <1>0 DEF Extend, TypeOK
  <2>3. d = b => ~Engaged(v)
    BY <1>4, <1>7 DEF Extend
  <2>4. d # b => batch'[d] = batch[d]
    BY <1>7, <1>0 DEF Extend, TypeOK
  <2>. QED BY <2>2, <2>3, <2>4, <1>0, <1>2, <1>3, <1>4 DEF Spared
<1>8. ASSUME NEW b \in Batches, Retry(b) PROVE Spared(v)
  <2>1. CASE d = b
    <3>1. run'[r].state = "queued" /\ run'[r].lease = NoWorker /\ tool' = tool
      BY <2>1, <1>8, <1>0 DEF Retry, Requeued
    <3>. QED BY <3>1, <1>0, <1>1, <1>2, <1>3 DEF Spared
  <2>2. CASE d # b
    BY <2>2, <1>5, <1>8, <1>0 DEF Retry, TypeOK
  <2>. QED BY <2>1, <2>2
<1>9. ASSUME NEW i \in Runs, Cancel(i) PROVE Spared(v)
  <2>1. tool' = tool /\ "cancelled" \in RunStates /\ i[1] \in Batches
    BY <1>9, RunFacts DEF Cancel, RunStates, Ended
  <2>2. run'[r].state \in {run[r].state, "cancelled"} /\ run'[r].lease = run[r].lease
    <3>1. run'[r] = IF r = i THEN [run[r] EXCEPT !.state = "cancelled"] ELSE run[r]
      BY <1>9, <1>0 DEF Cancel, TypeOK
    <3>2. /\ [run[r] EXCEPT !.state = "cancelled"].state = "cancelled"
          /\ [run[r] EXCEPT !.state = "cancelled"].lease = run[r].lease
      BY <2>1, <1>0, RowTypes
    <3>. QED BY <3>1, <3>2
  <2>3. batch'[d].runs = batch[d].runs /\ batch'[d].state \in {batch[d].state, "cancelled"}
    <3>1. \A x \in BatchRows : /\ [x EXCEPT !.state = "cancelled"].runs = x.runs
                               /\ [x EXCEPT !.state = "cancelled"].state = "cancelled"
      BY DEF BatchRows
    <3>2. batch'[d] = IF d = i[1] THEN [batch[d] EXCEPT !.state = "cancelled"] ELSE batch[d]
      BY <1>9, <1>0 DEF Cancel, RunCancelled, TypeOK
    <3>. QED BY <3>1, <3>2, <1>0
  <2>4. Engaged(v) => batch'[d].state \notin {"completed", "waiting_human"}
    BY <2>3, <1>4
  <2>5. run'[r].state # "none" /\ (run'[r].state = "running" => run[r].state = "running")
    BY <2>2, <1>0
  <2>. QED BY <2>1, <2>2, <2>3, <2>4, <2>5, <1>2, <1>3 DEF Spared
<1>10. ASSUME NEW q \in JobIds, Unavailable(q) PROVE Spared(v)
  <2>. DEFINE b == q[1]
  <2>0. b \in Batches
    BY RunFacts
  <2>1. CASE d # b
    <3>1. run'[r] = run[r] /\ batch'[d] = batch[d]
      BY <2>1, <1>10, <1>0 DEF Unavailable, TypeOK
    <3>2. \A i \in Runs, e \in Calls : i[1] = d => tool'[i][e] = tool[i][e]
      BY <2>1, <1>10 DEF Unavailable
    <3>. QED BY <3>1, <3>2, <1>0, <1>2, <1>3, <1>4 DEF Spared
  <2>2. CASE d = b
    <3>1. \/ run'[r].state \in {"failed", "waiting_human"} /\ run'[r].lease = NoWorker
          \/ run'[r] = run[r] /\ run[r].state \in Ended \cup {"waiting_human"}
      BY <2>2, <1>10, <1>0 DEF Unavailable, Ended
    <3>2. \A i \in Runs, e \in Calls : tool'[i][e] \in {tool[i][e], "unknown"}
      BY <1>10 DEF Unavailable
    <3>2a. \A i \in Runs, e \in Calls : tool'[i][e] = tool[i][e] \/ tool[i][e] = "prepared"
      BY <1>10 DEF Unavailable
    <3>3. Engaged(v) /\ run'[r].lease = v => batch'[d] = batch[d]
      <4>1. SUFFICES ASSUME Engaged(v), run'[r].lease = v PROVE batch[d].state \notin {"queued", "running"}
        BY <1>10, <2>2 DEF Unavailable
      <4>2. run[r].state \in {"waiting_human"} \cup Ended
        BY <3>1, <4>1, <1>1
      <4>. QED BY <4>1, <4>2, NotQueuedOrRunning
    <3>4. run'[r].state # "none"
      BY <3>1, <1>0
    <3>5. run'[r].state # "running"
      BY <3>1 DEF Ended
    <3>6. run'[r].lease = v => run[r].lease = v
      BY <3>1, <1>1
    <3>7. worker[v].pc \in Handling =>
            /\ tool'[r][c] # "none"
            /\ At(v, "effect") => tool'[r][c] \in Undecided
      BY <3>2, <1>0, <1>3 DEF Undecided
    <3>. QED BY <3>3, <3>4, <3>5, <3>6, <3>7, <1>2, <1>4 DEF Spared
  <2>. QED BY <2>1, <2>2
<1>11. CASE Archive \/ Restore
  BY <1>11, <1>5 DEF Archive, Restore, rows
<1>. QED BY <1>6, <1>7, <1>8, <1>9, <1>10, <1>11

----------------------------------------------------------------------------
(* The worker that takes a step.                                           *)

\* It goes on, or stops, with no call in hand and the same calls recorded.
LEMMA FreeHanded ==
  ASSUME TypeOK, WorkersInv, RowsKept, tool' = tool, NEW w \in Workers,
         worker[w].pc \notin {"idle", "effect"},
         worker'[w].run = worker[w].run, worker'[w].job = worker[w].job,
         worker'[w].call = worker[w].call, worker'[w].mine = worker[w].mine,
         worker'[w].pc \in {"model", "stream", "said", "tools", "commit", "leaving"},
         \/ worker'[w].pc \in {"commit", "leaving"}
         \/ worker[w].pc \notin Handling \cup {"commit", "leaving"},
         \/ worker'[w].pc = "leaving"
         \/ worker[w].pc \in Looping
         \/ worker[w].pc \in {"begun", "resumed"} /\ run[worker[w].run].state = "running",
         worker'[w].pc = "stream" /\ Leased(w) => modelCalls'[worker[w].run] >= 1
  PROVE  WorkerFits(w)'
<1>. DEFINE r == worker[w].run
<1>0. /\ r \in Runs /\ r[1] \in Batches /\ WorkerFits(w)
  BY WorkerFacts DEF At
<1>1. /\ run' = run /\ batch'[r[1]].state = batch[r[1]].state
      /\ batch'[r[1]].runs = batch[r[1]].runs
  BY <1>0 DEF RowsKept
<1>2. OccupiedBy(w)'
  BY <1>0, <1>1 DEF WorkerFits, OccupiedBy, At, Handling
<1>3. Engaged(w)' => Engaged(w)
  BY <1>1 DEF Engaged, Leased, Looping
<1>4. InLatest(w)'
  BY <1>0, <1>1, <1>3 DEF WorkerFits, InLatest, Latest
<1>5. Writes(w)' => Writes(w) /\ worker[w].pc \notin Handling
  BY <1>1 DEF Writes, Leased
<1>6. KnowsDoubt(w)'
  BY <1>0, <1>5 DEF WorkerFits, KnowsDoubt
<1>7. InHand(w)' /\ CallOut(w)'
  BY <1>1 DEF InHand, CallOut, At, Handling, Leased
<1>8. KeepsSandbox(w)'
  BY <1>0, <1>1 DEF WorkerFits, KeepsSandbox, At, Leased
<1>. QED BY <1>2, <1>4, <1>6, <1>7, <1>8 DEF WorkerFits

LEMMA WorkFits ==
  ASSUME TypeOK, WorkersInv, CallsInv, NEW w \in Workers, Work(w)
  PROVE  WorkerFits(w)'
<1>. DEFINE r == worker[w].run
            d == worker[w].call
<1>0. ~At(w, "idle") /\ worker[w] \in Executions /\ Occupied
  <2>1. ~At(w, "idle")
    BY DEF Work, Enter, JournalRefuses, ModelStart, ModelEnd, Checkpoint, ToolStart, Execute,
           ToolEnd, Commit, Leave, At
  <2>. QED BY <2>1, WorkerFacts DEF TypeOK
<1>1. /\ r \in Runs /\ r[1] \in Batches /\ WorkerFits(w) /\ (worker[w].pc \in Handling => d \in Calls)
      /\ run[r].state # "none" /\ worker[w].job \in JobIds
  BY <1>0, WorkerFacts DEF WorkerFits, OccupiedBy
<1>2. ~Commit(w) => RowsKept
  BY <1>0, LoopKeepsRows
<1>3. ASSUME NEW pc, Go(w, pc)
      PROVE  /\ worker'[w].pc = pc /\ worker'[w].run = r /\ worker'[w].job = worker[w].job
             /\ worker'[w].call = d /\ worker'[w].mine = worker[w].mine
  BY <1>0, <1>3 DEF Go, TypeOK, Executions
<1>4. ASSUME NEW o, StopWith(w, o)
      PROVE  /\ worker'[w].pc = "commit" /\ worker'[w].run = r /\ worker'[w].job = worker[w].job
             /\ worker'[w].call = d /\ worker'[w].mine = worker[w].mine
  BY <1>0, <1>4 DEF StopWith, TypeOK, Executions
<1>7. CASE Enter(w)
  <2>1. RowsKept /\ tool' = tool
    BY <1>7, <1>2 DEF Enter, Commit, At, rows
  <2>2. CASE Go(w, "leaving") /\ run[r].state # "running"
    BY <2>1, <2>2, <1>7, <1>3, FreeHanded DEF Enter
  <2>3. CASE StopWith(w, "succeeded") /\ run[r].state = "running"
    BY <2>1, <2>3, <1>7, <1>4, FreeHanded DEF Enter
  <2>4. CASE Go(w, "model") /\ run[r].state = "running"
    BY <2>1, <2>4, <1>7, <1>3, FreeHanded DEF Enter, Handling
  <2>. QED BY <2>2, <2>3, <2>4, <1>7 DEF Enter
<1>8. CASE JournalRefuses(w)
  <2>1. RowsKept /\ tool' = tool
    BY <1>8, <1>2 DEF JournalRefuses, Commit, At, rows
  <2>. QED BY <2>1, <1>8, <1>4, FreeHanded DEF JournalRefuses, Looping
<1>9. CASE ModelStart(w)
  <2>1. RowsKept /\ tool' = tool
    BY <1>9, <1>2 DEF ModelStart, Commit, At
  <2>2. CASE Spends(r[1])
    <3>1. modelCalls[r] >= 0 /\ modelCalls[r] \in Int
      BY <1>1 DEF CallsInv, TypeOK, BatchRows
    <3>2. modelCalls'[r] >= 1
      BY <3>1, <2>2, <1>9, <1>1 DEF ModelStart, TypeOK
    <3>. QED BY <2>1, <3>2, <2>2, <1>9, <1>3, FreeHanded DEF ModelStart, At, Looping, Handling
  <2>3. CASE ~Spends(r[1])
    BY <2>1, <2>3, <1>9, <1>4, FreeHanded DEF ModelStart, At, Looping
  <2>. QED BY <2>2, <2>3
<1>10. ASSUME NEW asked \in SUBSET Calls, ModelEnd(w, asked) PROVE WorkerFits(w)'
  <2>1. RowsKept /\ tool' = tool
    BY <1>10, <1>2 DEF ModelEnd, Commit, At
  <2>2. /\ worker'[w].pc = "said" /\ worker'[w].run = r /\ worker'[w].job = worker[w].job
        /\ worker'[w].call = d /\ worker'[w].mine = worker[w].mine
    BY <1>10, <1>0 DEF ModelEnd, TypeOK, Executions
  <2>. QED BY <2>1, <2>2, <1>10, FreeHanded DEF ModelEnd, At, Looping, Handling
<1>11. CASE Checkpoint(w)
  <2>1. RowsKept /\ tool' = tool
    BY <1>11, <1>2 DEF Checkpoint, Commit, At
  <2>2. CASE worker[w].todo = {}
    BY <2>1, <2>2, <1>11, <1>4, FreeHanded DEF Checkpoint, At, Looping
  <2>3. CASE worker[w].todo # {}
    <3>1. /\ worker'[w].pc = "tools" /\ worker'[w].run = r /\ worker'[w].job = worker[w].job
          /\ worker'[w].call = d /\ worker'[w].mine = worker[w].mine
      BY <2>3, <1>11, <1>0 DEF Checkpoint, TypeOK, Executions
    <3>. QED BY <2>1, <3>1, <1>11, FreeHanded DEF Checkpoint, At, Looping, Handling
  <2>. QED BY <2>2, <2>3
<1>12. ASSUME NEW c \in Calls, ToolStart(w, c) PROVE WorkerFits(w)'
  <2>1. RowsKept /\ effects' = effects
    BY <1>12, <1>2 DEF ToolStart, Commit, At
  <2>2. CASE ~Unrecorded(r, c)
    BY <2>1, <2>2, <1>12, <1>4, FreeHanded DEF ToolStart, At, Looping
  <2>3. CASE Unrecorded(r, c)
    <3>1. /\ worker'[w].pc = "effect" /\ worker'[w].run = r /\ worker'[w].job = worker[w].job
          /\ worker'[w].call = c /\ worker'[w].mine = worker[w].mine
      BY <2>3, <1>12, <1>0 DEF ToolStart, TypeOK, Executions
    <3>2. /\ tool'[r][c] = "prepared"
          /\ \A s \in Runs, e \in Calls : s # r \/ e # c => tool'[s][e] = tool[s][e]
      BY <2>3, <1>12, <1>1 DEF ToolStart, TypeOK
    <3>3. Writes(w) /\ Engaged(w) /\ worker[w].pc \notin Handling
      BY <1>12 DEF ToolStart, At, Fenced, Writes, Engaged, Looping, Handling
    <3>4. \A s \in Runs, e \in Calls : s[1] = r[1] => tool[s][e] \notin Undecided
      BY <1>1, <3>3 DEF WorkerFits, KnowsDoubt
    <3>5. run' = run /\ batch'[r[1]].state = batch[r[1]].state /\ batch'[r[1]].runs = batch[r[1]].runs
      BY <2>1, <1>1 DEF RowsKept
    <3>6. OccupiedBy(w)'
      BY <3>1, <3>5, <1>1 DEF OccupiedBy, At, Handling
    <3>7. InLatest(w)'
      BY <3>1, <3>3, <3>5, <1>1 DEF WorkerFits, InLatest, Latest
    <3>8. KnowsDoubt(w)'
      BY <3>1, <3>2, <3>4 DEF KnowsDoubt, Handling
    <3>9. InHand(w)' /\ CallOut(w)'
      <4>1. effects[r][c] = 0
        BY <2>3, <1>1 DEF Unrecorded, CallsInv
      <4>. QED BY <4>1, <2>1, <3>1, <3>2 DEF InHand, CallOut, At, Handling, Undecided
    <3>10. KeepsSandbox(w)'
      <4>1. ASSUME NEW e \in Sandboxed, tool'[r][e] # "none"
            PROVE  e \in worker[w].mine \cup {c}
        <5>1. e # c => tool[r][e] # "none"
          BY <4>1, <3>2, <1>1, KindAssumption
        <5>2. e # c => e \in worker[w].mine \cup {d}
          BY <5>1, <3>3, <1>1, <1>0 DEF WorkerFits, KeepsSandbox, Writes
        <5>3. d \in Sandboxed => d \in worker[w].mine
          BY <1>1, <1>12 DEF WorkerFits, OccupiedBy, ToolStart, At
        <5>. QED BY <5>2, <5>3
      <4>. QED BY <4>1, <3>1 DEF KeepsSandbox
    <3>. QED BY <3>6, <3>7, <3>8, <3>9, <3>10 DEF WorkerFits
  <2>. QED BY <2>2, <2>3
<1>13. CASE Execute(w)
  <2>1. RowsKept /\ tool' = tool
    BY <1>13, <1>2 DEF Execute, Commit, At, rows
  <2>2. /\ worker'[w].pc = "record" /\ worker'[w].run = r /\ worker'[w].job = worker[w].job
        /\ worker'[w].call = d /\ worker'[w].mine = worker[w].mine \cup ({d} \cap Sandboxed)
    BY <1>13, <1>0 DEF Execute, TypeOK, Executions
  <2>3. run' = run /\ batch'[r[1]].state = batch[r[1]].state /\ batch'[r[1]].runs = batch[r[1]].runs
    BY <2>1, <1>1 DEF RowsKept
  <2>4. worker[w].pc = "effect" /\ d \in Calls
    BY <1>13, <1>1 DEF Execute, At, Handling
  <2>5. OccupiedBy(w)'
    BY <2>2, <2>3, <2>4, <1>1 DEF OccupiedBy, At, Handling
  <2>6. (Engaged(w)' => Engaged(w)) /\ (Writes(w)' => Writes(w))
    BY <2>2, <2>3, <2>4 DEF Engaged, Writes, Leased, Looping
  <2>7. InLatest(w)'
    BY <2>2, <2>3, <2>6, <1>1 DEF WorkerFits, InLatest, Latest
  <2>8. KnowsDoubt(w)'
    BY <2>1, <2>2, <2>4, <2>6, <1>1 DEF WorkerFits, KnowsDoubt, Handling
  <2>9. InHand(w)' /\ CallOut(w)'
    BY <2>1, <2>2, <2>4, <2>6, <1>1 DEF WorkerFits, InHand, CallOut, At, Handling
  <2>10. KeepsSandbox(w)'
    BY <2>1, <2>2, <2>3, <2>4, <1>1 DEF WorkerFits, KeepsSandbox, At, Leased
  <2>. QED BY <2>5, <2>7, <2>8, <2>9, <2>10 DEF WorkerFits
<1>14. CASE ToolEnd(w)
  <2>1. RowsKept
    BY <1>14, <1>2 DEF ToolEnd, Commit, At
  <2>2. /\ worker'[w].pc \in {"model", "tools"} /\ worker'[w].run = r
        /\ worker'[w].job = worker[w].job
        /\ worker'[w].call = NoRun /\ worker'[w].mine = worker[w].mine
    BY <1>14, <1>0 DEF ToolEnd, TypeOK, Executions
  <2>3. run' = run /\ batch'[r[1]].state = batch[r[1]].state /\ batch'[r[1]].runs = batch[r[1]].runs
    BY <2>1, <1>1 DEF RowsKept
  <2>4. worker[w].pc = "record" /\ d \in Calls
    BY <1>14, <1>1 DEF ToolEnd, At, Handling
  <2>5. /\ tool'[r][d] = "done"
        /\ \A s \in Runs, e \in Calls : s # r \/ e # d => tool'[s][e] = tool[s][e]
    BY <1>14, <1>1, <2>4 DEF ToolEnd, TypeOK
  <2>6. Engaged(w) /\ Writes(w)
    BY <1>14 DEF ToolEnd, At, Fenced, Writes, Engaged, Looping
  <2>7. OccupiedBy(w)'
    BY <2>2, <2>3, <2>4, <1>1, KindAssumption DEF OccupiedBy, At, Handling, NoRun
  <2>8. InLatest(w)'
    BY <2>2, <2>3, <2>6, <1>1 DEF WorkerFits, InLatest, Latest
  <2>9. KnowsDoubt(w)'
    <3>1. \A s \in Runs, e \in Calls : s[1] = r[1] /\ tool[s][e] \in Undecided => s = r /\ e = d
      BY <2>6, <1>1 DEF WorkerFits, KnowsDoubt
    <3>2. \A s \in Runs, e \in Calls : s[1] = r[1] => tool'[s][e] \notin Undecided
      BY <3>1, <2>5 DEF Undecided
    <3>. QED BY <3>2, <2>2 DEF KnowsDoubt
  <2>10. InHand(w)' /\ CallOut(w)'
    BY <2>2 DEF InHand, CallOut, At, Handling
  <2>11. KeepsSandbox(w)'
    <3>1. ASSUME NEW e \in Sandboxed, tool'[r][e] # "none"
          PROVE  e \in worker[w].mine
      <4>1. e # d => tool[r][e] # "none"
        BY <3>1, <2>5, <1>1, KindAssumption
      <4>2. e # d => e \in worker[w].mine \cup {d}
        BY <4>1, <2>6, <1>1, <1>0 DEF WorkerFits, KeepsSandbox, Writes
      <4>3. d \in Sandboxed => d \in worker[w].mine
        BY <1>1, <2>4 DEF WorkerFits, OccupiedBy
      <4>. QED BY <4>2, <4>3
    <3>. QED BY <3>1, <2>2 DEF KeepsSandbox
  <2>. QED BY <2>7, <2>8, <2>9, <2>10, <2>11 DEF WorkerFits
<1>15. CASE Commit(w)
  <2>1. /\ worker'[w].pc = "leaving" /\ worker'[w].run = r /\ worker'[w].job = worker[w].job
        /\ worker'[w].call = d /\ worker'[w].mine = worker[w].mine
    BY <1>15, <1>3 DEF Commit
  <2>2. IF Leased(w) THEN run'[r].state \in Outcomes ELSE run' = run
    <3>1. worker[w].outcome \in Outcomes
      BY <1>0 DEF Executions
    <3>2. run[r] \in RunRows /\ Outcomes \subseteq RunStates /\ "cancelled" \in Outcomes
      BY <1>1 DEF TypeOK, Outcomes, RunStates, Ended
    <3>3. \A st \in Outcomes : [run[r] EXCEPT !.state = st].state \in Outcomes
      BY <3>2, RowTypes
    <3>. QED BY <1>15, <1>1, <3>1, <3>2, <3>3 DEF Commit, TypeOK
  <2>3. run'[r].state # "none"
    BY <2>2, <1>1 DEF Outcomes
  <2>4. OccupiedBy(w)'
    BY <2>1, <2>3, <1>1, <1>15 DEF WorkerFits, OccupiedBy, At, Handling, Commit
  <2>5. InLatest(w)' /\ KnowsDoubt(w)' /\ InHand(w)' /\ CallOut(w)'
    BY <2>1 DEF InLatest, KnowsDoubt, InHand, CallOut, At, Engaged, Writes, Handling, Looping
  <2>6. KeepsSandbox(w)'
    BY <2>1, <2>2 DEF KeepsSandbox, Leased, Outcomes
  <2>. QED BY <2>4, <2>5, <2>6 DEF WorkerFits
<1>16. CASE Leave(w)
  <2>1. worker'[w].pc = "idle"
    BY <1>16 DEF Leave, Idle, TypeOK
  <2>. QED BY <2>1, IdleFits
<1>. QED BY <1>7, <1>8, <1>9, <1>10, <1>11, <1>12, <1>13, <1>14, <1>15, <1>16 DEF Work

LEMMA FailFits ==
  ASSUME TypeOK, WorkersInv, CallsInv, NEW w \in Workers, Fail(w)
  PROVE  WorkerFits(w)'
<1>. DEFINE r == worker[w].run
            d == worker[w].call
<1>0. ~At(w, "idle") /\ worker[w] \in Executions /\ Occupied
  <2>1. ~At(w, "idle")
    BY DEF Fail, GiveUp, ModelFails, ToolUnknown, CommitFails, Die, At
  <2>. QED BY <2>1, WorkerFacts DEF TypeOK
<1>1. /\ r \in Runs /\ r[1] \in Batches /\ WorkerFits(w) /\ (worker[w].pc \in Handling => d \in Calls)
      /\ run[r].state # "none" /\ worker[w].job \in JobIds
  BY <1>0, WorkerFacts DEF WorkerFits, OccupiedBy
<1>2. ~Commit(w) => RowsKept
  BY <1>0, LoopKeepsRows
<1>3. ASSUME NEW o, StopWith(w, o)
      PROVE  /\ worker'[w].pc = "commit" /\ worker'[w].run = r /\ worker'[w].job = worker[w].job
             /\ worker'[w].call = d /\ worker'[w].mine = worker[w].mine
  BY <1>0, <1>3 DEF StopWith, TypeOK, Executions
<1>4. ASSUME NEW o \in Outcomes, GiveUp(w, o) PROVE WorkerFits(w)'
  <2>1. RowsKept /\ tool' = tool
    BY <1>4, <1>2 DEF GiveUp, Commit, At, rows
  <2>. QED BY <2>1, <1>4, <1>3, FreeHanded DEF GiveUp, Looping
<1>5. ASSUME NEW o \in Outcomes, ModelFails(w, o) PROVE WorkerFits(w)'
  <2>1. RowsKept /\ tool' = tool
    BY <1>5, <1>2 DEF ModelFails, Commit, At
  <2>. QED BY <2>1, <1>5, <1>3, FreeHanded DEF ModelFails, At, Looping
<1>6. CASE ToolUnknown(w)
  <2>1. RowsKept
    BY <1>6, <1>2 DEF ToolUnknown, Commit, At
  <2>2. /\ worker'[w].pc = "commit" /\ worker'[w].run = r /\ worker'[w].job = worker[w].job
        /\ worker'[w].call = d /\ worker'[w].mine = worker[w].mine
    BY <1>6, <1>3 DEF ToolUnknown
  <2>3. run' = run /\ batch'[r[1]].state = batch[r[1]].state /\ batch'[r[1]].runs = batch[r[1]].runs
    BY <2>1, <1>1 DEF RowsKept
  <2>4. worker[w].pc = "record" /\ d \in Calls
    BY <1>6, <1>1 DEF ToolUnknown, At, Handling
  <2>5. \A e \in Calls : e # d => tool'[r][e] = tool[r][e]
    BY <1>6, <1>1, <2>4 DEF ToolUnknown, TypeOK
  <2>6. Engaged(w) /\ Writes(w)
    BY <1>6 DEF ToolUnknown, At, Fenced, Writes, Engaged, Looping
  <2>7. OccupiedBy(w)'
    BY <2>2, <2>3, <2>4, <1>1 DEF WorkerFits, OccupiedBy, At, Handling
  <2>8. InLatest(w)'
    BY <2>2, <2>3, <2>6, <1>1 DEF WorkerFits, InLatest, Latest
  <2>9. KnowsDoubt(w)' /\ InHand(w)' /\ CallOut(w)'
    BY <2>2 DEF KnowsDoubt, InHand, CallOut, At, Writes, Handling
  <2>10. KeepsSandbox(w)'
    <3>1. ASSUME NEW e \in Sandboxed, tool'[r][e] # "none"
          PROVE  e \in worker[w].mine \cup {d}
      <4>1. e # d => tool[r][e] # "none"
        BY <3>1, <2>5, KindAssumption
      <4>. QED BY <4>1, <2>6, <1>1, <1>0 DEF WorkerFits, KeepsSandbox, Writes
    <3>. QED BY <3>1, <2>2 DEF KeepsSandbox
  <2>. QED BY <2>7, <2>8, <2>9, <2>10 DEF WorkerFits
<1>7. CASE CommitFails(w) \/ Die(w)
  <2>1. worker'[w].pc = "idle"
    BY <1>7 DEF CommitFails, Die, Idle, TypeOK
  <2>. QED BY <2>1, IdleFits
<1>. QED BY <1>4, <1>5, <1>6, <1>7 DEF Fail

\* A worker that was given the latest run of its batch, whose calls can be continued if it runs.
LEMMA TakeFits ==
  ASSUME TypeOK, NEW w \in Workers, NEW q \in JobIds, NEW pc \in {"begun", "resumed"}, NEW said,
         Take(w, q, pc, said), run'[Latest(q[1])].state # "none",
         run'[Latest(q[1])].state = "running" =>
           /\ Latest(q[1])' = Latest(q[1])
           /\ batch'[q[1]].state = "running"
           /\ \A r \in RunsOf(q[1]), c \in Calls : /\ tool'[r][c] \notin Undecided
                                                   /\ c \in Sandboxed => tool'[r][c] = "none"
  PROVE  WorkerFits(w)'
<1>. DEFINE b == q[1]
            l == Latest(b)
<1>1. b \in Batches /\ l \in Runs /\ l[1] = b
  BY RunFacts DEF TypeOK
<1>2. /\ worker'[w].pc = pc /\ worker'[w].run = l /\ worker'[w].job = q
      /\ worker'[w].call = NoRun /\ worker'[w].mine = {}
  BY DEF Take, TypeOK, Idle
<1>3. OccupiedBy(w)'
  BY <1>1, <1>2, KindAssumption DEF OccupiedBy, At, Handling, NoRun
<1>4. InLatest(w)'
  <2>1. Engaged(w)' => run'[l].state = "running"
    BY <1>2 DEF Engaged, Looping
  <2>. QED BY <2>1, <1>1, <1>2 DEF InLatest, Latest
<1>5. KnowsDoubt(w)'
  BY <1>1, <1>2 DEF KnowsDoubt, Writes, RunsOf
<1>6. InHand(w)' /\ CallOut(w)'
  BY <1>2 DEF InHand, CallOut, At, Handling
<1>7. KeepsSandbox(w)'
  BY <1>1, <1>2, KindAssumption DEF KeepsSandbox, RunsOf
<1>. QED BY <1>3, <1>4, <1>5, <1>6, <1>7 DEF WorkerFits

LEMMA ClaimantFits ==
  ASSUME TypeOK, RowsInv, CallsInv, NEW w \in Workers, NEW q \in JobIds, Claim(w, q)
  PROVE  WorkerFits(w)'
<1>. DEFINE b == q[1]
            l == Latest(b)
<1>0. /\ b \in Batches /\ l \in Runs /\ l[1] = b /\ batch[b] \in BatchRows /\ RowsFit(b)
      /\ run[l] \in RunRows
  BY RunFacts DEF TypeOK, RowsInv
<1>1. Deliver(w, q)
  BY DEF Claim, ClaimNothing, ClaimArchived, ClaimBusy, Resume, HandOver, Begin
<1>2. worker[w].pc = "idle" /\ batch[b].state # "none" /\ run[l].state # "none"
  <2>1. worker[w].pc = "idle" /\ job[q] # "none"
    BY <1>1, WorkerAssumption DEF Deliver, At
  <2>. QED BY <2>1, <1>0 DEF RowsFit
<1>3. batch[b].state \notin Stopped => run[l].state \in {"queued", "running"}
  BY <1>0, <1>2 DEF RowsFit, BatchRows, BatchStates
<1>4. CASE ClaimNothing(w, q) \/ ClaimBusy(w, q)
  <2>1. worker' = worker
    BY <1>4 DEF ClaimNothing, ClaimBusy, Return
  <2>. QED BY <2>1, <1>2, IdleFits
<1>5. CASE ClaimArchived(w, q)
  <2>1. run'[l].state = "cancelled"
    <3>1. "cancelled" \in RunStates
      BY DEF RunStates, Ended
    <3>. QED BY <3>1, <1>5, <1>0, <1>3, RowTypes DEF ClaimArchived, Ended
  <2>. QED BY <2>1, <1>5, TakeFits DEF ClaimArchived
<1>6. CASE HandOver(w, q)
  <2>1. run'[l].state = "waiting_human"
    BY <1>6, <1>0, <1>3 DEF HandOver, Ended
  <2>. QED BY <2>1, <1>6, TakeFits DEF HandOver
<1>7. CASE Resume(w, q)
  <2>1. run'[l].state = "running" /\ tool' = tool
    BY <1>7, <1>0 DEF Resume, Run, TypeOK
  <2>2. batch'[b].state = "running" /\ batch'[b].runs = batch[b].runs
    <3>1. batch[b].reserved - modelCalls[l] \in Int
      BY <1>0 DEF BatchRows, TypeOK
    <3>2. Resumed(b).state = "running" /\ Resumed(b).runs = batch[b].runs
      BY <3>1, <1>0 DEF Resumed, BatchRows
    <3>. QED BY <3>2, <1>7, <1>0 DEF Resume, TypeOK
  <2>3. \A r \in RunsOf(b), c \in Calls : /\ tool[r][c] \notin Undecided
                                          /\ c \in Sandboxed => tool[r][c] = "none"
    BY <1>7 DEF Resume, Safe
  <2>4. Latest(b)' = Latest(b)
    BY <2>2 DEF Latest
  <2>. QED BY <2>1, <2>2, <2>3, <2>4, <1>7, TakeFits DEF Resume, RunsOf
<1>8. CASE Begin(w, q)
  <2>1. run'[l].state = "running" /\ tool' = tool
    BY <1>8, <1>0 DEF Begin, Run, TypeOK
  <2>2. batch'[b].state = "running" /\ batch'[b].runs = batch[b].runs
    <3>1. \A n : /\ [batch[b] EXCEPT !.state = "running", !.rounds = n].state = "running"
                 /\ [batch[b] EXCEPT !.state = "running", !.rounds = n].runs = batch[b].runs
      BY <1>0 DEF BatchRows
    <3>2. PICK n : n = batch[b].rounds + 1
      OBVIOUS
    <3>3. batch'[b] = [batch[b] EXCEPT !.state = "running", !.rounds = n]
      BY <3>2, <1>8, <1>0 DEF Begin, TypeOK
    <3>. QED BY <3>1, <3>3
  <2>3. \A r \in RunsOf(b), c \in Calls : tool[r][c] = "none"
    <3>1. ~(batch[b].rounds > 0 /\ UsedTools(b))
      BY <1>8 DEF Begin, Nothing, Begun
    <3>2. CASE UsedTools(b)
      <4>1. ~(batch[b].rounds > 0)
        BY <3>1, <3>2
      <4>. QED BY <4>1, <1>0 DEF CallsInv, RunsOf
    <3>3. CASE ~UsedTools(b)
      BY <3>3 DEF UsedTools
    <3>. QED BY <3>2, <3>3
  <2>4. Latest(b)' = Latest(b)
    BY <2>2 DEF Latest
  <2>5. \A r \in RunsOf(b), c \in Calls : /\ tool'[r][c] \notin Undecided
                                          /\ c \in Sandboxed => tool'[r][c] = "none"
    BY <2>1, <2>3 DEF Undecided
  <2>. QED BY <2>1, <2>2, <2>4, <2>5, <1>8, TakeFits DEF Begin
<1>. QED BY <1>4, <1>5, <1>6, <1>7, <1>8 DEF Claim

LEMMA WorkersInit == Init => WorkersInv
  BY DEF Init, Idle, WorkersInv, At, WorkerFits, OccupiedBy, InLatest, KnowsDoubt, InHand, CallOut,
         KeepsSandbox, Engaged, Writes, Handling, Looping

LEMMA WorkersStep ==
  TypeOK /\ RowsInv /\ WorkersInv /\ CallsInv /\ [Next]_vars => WorkersInv'
<1>. SUFFICES ASSUME TypeOK, RowsInv, WorkersInv, CallsInv, [Next]_vars, NEW v \in Workers
              PROVE  WorkerFits(v)'
  BY DEF WorkersInv
<1>1. CASE UNCHANGED vars
  <2>1. WorkerFits(v)
    BY DEF WorkersInv
  <2>. QED BY <2>1, <1>1 DEF vars, rows, project, WorkerFits, At, OccupiedBy, InLatest, KnowsDoubt,
              InHand, CallOut, KeepsSandbox, Engaged, Writes, Leased, Latest
<1>2. ASSUME NEW w \in Workers, Work(w) \/ Fail(w) PROVE WorkerFits(v)'
  <2>1. CASE v = w
    BY <1>2, <2>1, WorkFits, FailFits
  <2>2. CASE v # w /\ ~At(v, "idle")
    BY <1>2, <2>2, LoopSpares, SparedFits
  <2>3. CASE v # w /\ At(v, "idle")
    <3>1. worker'[v] = worker[v]
      BY <1>2, <2>3 DEF Work, Enter, JournalRefuses, ModelStart, ModelEnd, Checkpoint, ToolStart,
             Execute, ToolEnd, Commit, Leave, Fail, GiveUp, ModelFails, ToolUnknown, CommitFails,
             Die, Go, StopWith, TypeOK
    <3>. QED BY <3>1, <2>3, IdleFits DEF At
  <2>. QED BY <2>1, <2>2, <2>3
<1>3. ASSUME NEW w \in Workers, NEW q \in JobIds, Claim(w, q) PROVE WorkerFits(v)'
  <2>1. CASE v = w
    BY <1>3, <2>1, ClaimantFits
  <2>2. CASE v # w /\ ~At(v, "idle")
    BY <1>3, <2>2, ClaimSpares, SparedFits
  <2>3. CASE v # w /\ At(v, "idle")
    <3>1. worker'[v] = worker[v]
      BY <1>3, <2>3 DEF Claim, ClaimNothing, ClaimArchived, ClaimBusy, Resume, HandOver, Begin, Take,
                        Return, TypeOK
    <3>. QED BY <3>1, <2>3, IdleFits DEF At
  <2>. QED BY <2>1, <2>2, <2>3
<1>4. ASSUME \/ \E b \in Batches : Start(b) \/ Extend(b) \/ Retry(b)
             \/ \E r \in Runs : Cancel(r)
             \/ \E q \in JobIds : Unavailable(q)
             \/ Archive \/ Restore
      PROVE  WorkerFits(v)'
  <2>1. worker' = worker
    BY <1>4 DEF Start, Extend, Retry, Cancel, Unavailable, Archive, Restore
  <2>2. CASE At(v, "idle")
    BY <2>1, <2>2, IdleFits DEF At
  <2>3. CASE ~At(v, "idle")
    BY <1>4, <2>3, PeopleSpare, SparedFits
  <2>. QED BY <2>2, <2>3
<1>. QED BY <1>1, <1>2, <1>3, <1>4 DEF Next

----------------------------------------------------------------------------
(* Calls, and what is reserved for them.                                   *)

LEMMA CallsInit == Init => CallsInv
<1>1. 0 \in 0..0
  OBVIOUS
<1>. QED BY <1>1, RunFacts DEF Init, Idle, CallsInv, Handling

\* What a step does with the budgets of the batches and the model calls that run.
Spending ==
  \A b \in Batches :
    /\ batch'[b].rounds >= batch[b].rounds
    /\ batch'[b].calls >= batch[b].calls
    /\ batch'[b].calls \in Nat /\ batch[b].calls \in Nat
    /\ \/ /\ batch'[b].reserved = batch[b].reserved
          /\ \A r \in RunsOf(b) : modelCalls'[r] = modelCalls[r]
          /\ batch'[b].calls = batch[b].calls
       \/ \E r \in RunsOf(b) :
             /\ \A s \in RunsOf(b) : s # r => modelCalls'[s] = modelCalls[s]
             /\ batch'[b].reserved = batch[b].reserved + (modelCalls'[r] - modelCalls[r])
             /\ \/ modelCalls'[r] = modelCalls[r] + 1 /\ batch'[b].calls = batch[b].calls + 1
                \/ /\ modelCalls'[r] \in 0..modelCalls[r]
                   /\ batch'[b].calls = batch[b].calls

LEMMA NoSpending ==
  ASSUME TypeOK, TypeOK', modelCalls' = modelCalls,
         \A b \in Batches : /\ batch'[b].rounds >= batch[b].rounds
                            /\ batch'[b].calls = batch[b].calls
                            /\ batch'[b].reserved = batch[b].reserved
  PROVE  Spending
<1>1. \A b \in Batches : batch'[b].calls \in Nat /\ batch[b].calls \in Nat
  BY DEF TypeOK, BatchRows
<1>. QED BY <1>1 DEF Spending

\* A model call ends, for the worker that waits for it.
LEMMA EndCallSpends ==
  ASSUME TypeOK, TypeOK', NEW r \in Runs, EndCall(r), modelCalls[r] >= 1
  PROVE  Spending
<1>1. /\ modelCalls'[r] = modelCalls[r] - 1
      /\ \A s \in Runs : s # r => modelCalls'[s] = modelCalls[s]
      /\ modelCalls[r] \in Int
  BY DEF EndCall, TypeOK
<1>2. r[1] \in Batches /\ r \in RunsOf(r[1])
  BY RunFacts DEF RunsOf
<1>3. ASSUME NEW b \in Batches
      PROVE  /\ batch'[b].rounds = batch[b].rounds /\ batch'[b].calls = batch[b].calls
             /\ batch'[b].reserved = IF b = r[1] THEN batch[b].reserved - 1 ELSE batch[b].reserved
             /\ batch'[b].calls \in Nat /\ batch[b].calls \in Nat /\ batch[b].reserved \in Int
             /\ batch[b].rounds \in Int
  BY EndCallKeeps DEF TypeOK, BatchRows
<1>4. \A b \in Batches : b # r[1] => \A s \in RunsOf(b) : modelCalls'[s] = modelCalls[s]
  BY <1>1 DEF RunsOf
<1>5. \A s \in RunsOf(r[1]) : s # r => modelCalls'[s] = modelCalls[s]
  BY <1>1 DEF RunsOf
<1>6. modelCalls'[r] \in 0..modelCalls[r] /\ modelCalls'[r] - modelCalls[r] = -1
  BY <1>1
<1>7. ASSUME NEW b \in Batches, b # r[1]
      PROVE  /\ batch'[b].reserved = batch[b].reserved
             /\ \A s \in RunsOf(b) : modelCalls'[s] = modelCalls[s]
  BY <1>3, <1>4, <1>7
<1>8. batch'[r[1]].reserved = batch[r[1]].reserved + (modelCalls'[r] - modelCalls[r])
  BY <1>2, <1>3, <1>6
<1>9. ASSUME NEW b \in Batches
      PROVE  batch'[b].rounds >= batch[b].rounds
  BY <1>3
<1>. QED BY <1>2, <1>3, <1>5, <1>6, <1>7, <1>8, <1>9 DEF Spending

LEMMA LoopSpends ==
  ASSUME TypeOK, TypeOK', WorkersInv, NEW w \in Workers, Work(w) \/ Fail(w)
  PROVE  Spending
<1>. DEFINE r == worker[w].run
<1>0. r \in Runs /\ r[1] \in Batches /\ WorkerFits(w)
  <2>1. ~At(w, "idle")
    BY DEF Work, Enter, JournalRefuses, ModelStart, ModelEnd, Checkpoint, ToolStart, Execute,
           ToolEnd, Commit, Leave, At, Fail, GiveUp, ModelFails, ToolUnknown, CommitFails, Die
  <2>. QED BY <2>1, WorkerFacts
<1>1. \A b \in Batches : batch[b] \in BatchRows /\ batch[b].rounds \in Nat
  BY DEF TypeOK, BatchRows
<1>2. ASSUME batch' = batch, modelCalls' = modelCalls PROVE Spending
  BY <1>1, <1>2, NoSpending
<1>3. CASE ModelStart(w)
  <2>1. CASE Spends(r[1])
    <3>1. /\ modelCalls'[r] = modelCalls[r] + 1 /\ modelCalls[r] \in Int
          /\ \A s \in Runs : s # r => modelCalls'[s] = modelCalls[s]
      BY <2>1, <1>0, <1>3 DEF ModelStart, TypeOK
    <3>2. ASSUME NEW b \in Batches
          PROVE  /\ batch'[b].rounds >= batch[b].rounds
                 /\ b # r[1] => /\ batch'[b].calls = batch[b].calls
                                /\ batch'[b].reserved = batch[b].reserved
      BY <1>1, <2>1, <1>0, <1>3, ModelStartCharges
    <3>3. /\ batch'[r[1]].calls = batch[r[1]].calls + 1
          /\ batch'[r[1]].reserved = batch[r[1]].reserved + 1
      BY <2>1, <1>0, <1>3, ModelStartCharges
    <3>4. \A b \in Batches : batch'[b].calls \in Nat /\ batch[b].calls \in Nat
      BY DEF TypeOK, BatchRows
    <3>5. batch[r[1]].calls + 1 >= batch[r[1]].calls /\ modelCalls'[r] - modelCalls[r] = 1
      BY <3>1, <3>4, <1>0
    <3>6. r \in RunsOf(r[1]) /\ \A b \in Batches : \A s \in RunsOf(b) : s \in Runs /\ s[1] = b
      BY <1>0 DEF RunsOf
    <3>7. ASSUME NEW b \in Batches, b # r[1]
          PROVE  \A s \in RunsOf(b) : modelCalls'[s] = modelCalls[s]
      BY <3>1, <3>6, <3>7
    <3>8. \A s \in RunsOf(r[1]) : s # r => modelCalls'[s] = modelCalls[s]
      BY <3>1, <3>6, <1>0
    <3>9. batch'[r[1]].reserved = batch[r[1]].reserved + (modelCalls'[r] - modelCalls[r])
      BY <3>3, <3>5
    <3>10. ASSUME NEW b \in Batches PROVE batch'[b].calls >= batch[b].calls
      BY <3>2, <3>3, <3>4, <3>5
    <3>. QED BY <3>1, <3>2, <3>3, <3>4, <3>6, <3>7, <3>8, <3>9, <3>10 DEF Spending
  <2>2. CASE ~Spends(r[1])
    BY <2>2, <1>2, <1>3 DEF ModelStart
  <2>. QED BY <2>1, <2>2
<1>4. ASSUME NEW asked \in SUBSET Calls, ModelEnd(w, asked) PROVE Spending
  BY <1>4, <1>0, EndCallSpends DEF ModelEnd, WorkerFits, CallOut, Fenced
<1>5. ASSUME NEW o \in Outcomes, ModelFails(w, o) PROVE Spending
  <2>1. CASE Fenced(w)
    BY <2>1, <1>5, <1>0, EndCallSpends DEF ModelFails, WorkerFits, CallOut, Fenced
  <2>2. CASE ~Fenced(w)
    BY <2>2, <1>5, <1>2 DEF ModelFails
  <2>. QED BY <2>1, <2>2
<1>6. CASE Enter(w) \/ JournalRefuses(w) \/ Checkpoint(w) \/ Execute(w) \/ ToolEnd(w) \/ Leave(w)
           \/ ToolUnknown(w) \/ CommitFails(w) \/ Die(w)
  BY <1>6, <1>2 DEF Enter, JournalRefuses, Checkpoint, Execute, ToolEnd, Leave, ToolUnknown,
                    CommitFails, Die, rows
<1>7. ASSUME NEW c \in Calls, ToolStart(w, c) PROVE Spending
  BY <1>7, <1>2 DEF ToolStart
<1>8. ASSUME NEW o \in Outcomes, GiveUp(w, o) PROVE Spending
  BY <1>8, <1>2 DEF GiveUp, rows
<1>9. CASE Commit(w)
  <2>1. modelCalls' = modelCalls
    BY <1>9 DEF Commit
  <2>2. ASSUME NEW b \in Batches
        PROVE  /\ batch'[b].rounds = batch[b].rounds /\ batch'[b].calls = batch[b].calls
               /\ batch'[b].reserved = batch[b].reserved
    <3>1. \A st : /\ [batch[b] EXCEPT !.state = st].rounds = batch[b].rounds
                  /\ [batch[b] EXCEPT !.state = st].calls = batch[b].calls
                  /\ [batch[b] EXCEPT !.state = st].reserved = batch[b].reserved
      BY <1>1 DEF BatchRows
    <3>2. batch'[b] = batch[b] \/ \E st : batch'[b] = [batch[b] EXCEPT !.state = st]
      <4>1. PICK st : batch' = batch \/ batch' = [batch EXCEPT ![r[1]].state = st]
        BY <1>9 DEF Commit
      <4>2. batch'[b] = batch[b] \/ batch'[b] = [batch[b] EXCEPT !.state = st]
        BY <4>1 DEF TypeOK
      <4>. QED BY <4>2
    <3>. QED BY <3>1, <3>2
  <2>. QED BY <2>1, <2>2, <1>1, NoSpending
<1>. QED BY <1>3, <1>4, <1>5, <1>6, <1>7, <1>8, <1>9 DEF Work, Fail

LEMMA ClaimSpends ==
  ASSUME TypeOK, TypeOK', CallsInv, NEW w \in Workers, NEW q \in JobIds, Claim(w, q)
  PROVE  Spending
<1>. DEFINE b == q[1]
            l == Latest(b)
<1>0. /\ b \in Batches /\ l \in Runs /\ l[1] = b /\ l \in RunsOf(b) /\ batch[b] \in BatchRows
  BY RunFacts DEF TypeOK, RunsOf
<1>1. \A d \in Batches : batch[d] \in BatchRows /\ batch[d].rounds \in Nat /\ batch[d].calls \in Nat
  BY DEF TypeOK, BatchRows
<1>2. ASSUME NEW st, batch' = [batch EXCEPT ![b].state = st] \/ batch' = batch, modelCalls' = modelCalls
      PROVE  Spending
  <2>1. ASSUME NEW d \in Batches
        PROVE  /\ batch'[d].rounds >= batch[d].rounds /\ batch'[d].calls = batch[d].calls
               /\ batch'[d].reserved = batch[d].reserved
    <3>1. /\ [batch[d] EXCEPT !.state = st].rounds = batch[d].rounds
          /\ [batch[d] EXCEPT !.state = st].calls = batch[d].calls
          /\ [batch[d] EXCEPT !.state = st].reserved = batch[d].reserved
      BY <1>1 DEF BatchRows
    <3>2. batch'[d] = batch[d] \/ batch'[d] = [batch[d] EXCEPT !.state = st]
      BY <1>2 DEF TypeOK
    <3>3. /\ batch'[d].rounds = batch[d].rounds /\ batch'[d].calls = batch[d].calls
          /\ batch'[d].reserved = batch[d].reserved
      BY <3>1, <3>2
    <3>4. batch[d].rounds >= batch[d].rounds
      BY <1>1
    <3>. QED BY <3>3, <3>4
  <2>. QED BY <2>1, <1>2, NoSpending
<1>3. CASE ClaimNothing(w, q) \/ ClaimBusy(w, q) \/ ClaimArchived(w, q) \/ HandOver(w, q)
  BY <1>3, <1>2 DEF ClaimNothing, ClaimBusy, ClaimArchived, HandOver, rows
<1>4. CASE Begin(w, q)
  <2>1. PICK n \in Nat : n = batch[b].rounds + 1
    BY <1>0 DEF BatchRows
  <2>2. batch'[b] = [batch[b] EXCEPT !.state = "running", !.rounds = n]
    BY <1>4, <1>0, <2>1 DEF Begin, TypeOK
  <2>3. batch'[b].rounds = n /\ batch'[b].calls = batch[b].calls /\ batch'[b].reserved = batch[b].reserved
    BY <2>2, <1>0 DEF BatchRows
  <2>4. \A d \in Batches : d # b => batch'[d] = batch[d]
    BY <1>4 DEF Begin, TypeOK
  <2>5. n >= batch[b].rounds
    BY <2>1, <1>1, <1>0
  <2>6. \A d \in Batches : batch'[d].rounds >= batch[d].rounds
    BY <2>3, <2>4, <2>5, <1>1
  <2>. QED BY <2>3, <2>4, <2>6, <1>4, NoSpending DEF Begin
<1>5. CASE Resume(w, q)
  <2>1. /\ modelCalls'[l] = 0 /\ modelCalls[l] \in 0..batch[b].calls
        /\ \A s \in Runs : s # l => modelCalls'[s] = modelCalls[s]
    BY <1>5, <1>0 DEF Resume, TypeOK, CallsInv
  <2>2. modelCalls'[l] \in 0..modelCalls[l] /\ modelCalls'[l] - modelCalls[l] = 0 - modelCalls[l]
        /\ batch[b].reserved - modelCalls[l] = batch[b].reserved + (0 - modelCalls[l])
    BY <2>1, <1>0 DEF BatchRows
  <2>3. /\ batch'[b].rounds = batch[b].rounds /\ batch'[b].calls = batch[b].calls
        /\ batch'[b].reserved = batch[b].reserved - modelCalls[l]
    <3>1. batch'[b] = Resumed(b)
      BY <1>5, <1>0 DEF Resume, TypeOK
    <3>. QED BY <3>1, <1>0 DEF Resumed, BatchRows
  <2>4. \A d \in Batches : d # b => batch'[d] = batch[d]
    BY <1>5 DEF Resume, TypeOK
  <2>5. \A d \in Batches : \A s \in RunsOf(d) : s # l => modelCalls'[s] = modelCalls[s]
    BY <2>1 DEF RunsOf
  <2>6. \A d \in Batches : d # b => l \notin RunsOf(d)
    BY <1>0 DEF RunsOf
  <2>7. batch'[b].reserved = batch[b].reserved + (modelCalls'[l] - modelCalls[l])
    BY <2>2, <2>3
  <2>8. \A d \in Batches : batch'[d].rounds >= batch[d].rounds /\ batch'[d].calls >= batch[d].calls
                           /\ batch'[d].calls = batch[d].calls
    BY <2>3, <2>4, <1>1
  <2>. QED BY <1>0, <1>1, <2>2, <2>4, <2>5, <2>6, <2>7, <2>8 DEF Spending
<1>. QED BY <1>3, <1>4, <1>5 DEF Claim

LEMMA PeopleSpend ==
  ASSUME TypeOK, TypeOK',
         \/ \E b \in Batches : Start(b) \/ Extend(b) \/ Retry(b)
         \/ \E r \in Runs : Cancel(r)
         \/ \E q \in JobIds : Unavailable(q)
         \/ Archive \/ Restore
  PROVE  Spending
<1>1. \A d \in Batches : batch[d] \in BatchRows /\ batch[d].rounds \in Nat
  BY DEF TypeOK, BatchRows
<1>2. modelCalls' = modelCalls
  BY DEF Start, Extend, Retry, Cancel, Unavailable, Archive, Restore, rows
<1>. DEFINE Kept(x, y) == x.rounds = y.rounds /\ x.calls = y.calls /\ x.reserved = y.reserved
<1>3. ASSUME NEW x \in BatchRows, NEW st, NEW n, NEW m
      PROVE  /\ Kept([x EXCEPT !.state = st, !.runs = n, !.max = m], x)
             /\ Kept([x EXCEPT !.state = st, !.runs = n], x)
             /\ Kept([x EXCEPT !.state = st], x)
  BY DEF BatchRows
<1>4. ASSUME NEW d \in Batches
      PROVE  \/ batch'[d] = batch[d]
             \/ \E st : batch'[d] = [batch[d] EXCEPT !.state = st]
             \/ \E st, n : batch'[d] = [batch[d] EXCEPT !.state = st, !.runs = n]
             \/ \E st, n, m : batch'[d] = [batch[d] EXCEPT !.state = st, !.runs = n, !.max = m]
  <2>1. ASSUME NEW b \in Batches, Start(b)
        PROVE  batch'[d] = batch[d] \/ \E st, n : batch'[d] = [batch[d] EXCEPT !.state = st, !.runs = n]
    BY <2>1 DEF Start, TypeOK
  <2>2. ASSUME NEW b \in Batches, Extend(b)
        PROVE  \/ batch'[d] = batch[d]
               \/ \E st, n, m : batch'[d] = [batch[d] EXCEPT !.state = st, !.runs = n, !.max = m]
    BY <2>2 DEF Extend, TypeOK
  <2>3. ASSUME NEW b \in Batches, Retry(b)
        PROVE  batch'[d] = batch[d] \/ \E st : batch'[d] = [batch[d] EXCEPT !.state = st]
    BY <2>3 DEF Retry, TypeOK
  <2>4. ASSUME NEW r \in Runs, Cancel(r)
        PROVE  batch'[d] = batch[d] \/ \E st : batch'[d] = [batch[d] EXCEPT !.state = st]
    BY <2>4 DEF Cancel, RunCancelled, TypeOK
  <2>5. ASSUME NEW q \in JobIds, Unavailable(q)
        PROVE  batch'[d] = batch[d] \/ \E st : batch'[d] = [batch[d] EXCEPT !.state = st]
    BY <2>5 DEF Unavailable, TypeOK
  <2>6. CASE Archive \/ Restore
    BY <2>6 DEF Archive, Restore, rows
  <2>. QED BY <2>1, <2>2, <2>3, <2>4, <2>5, <2>6
<1>5. ASSUME NEW d \in Batches
      PROVE  /\ batch'[d].rounds = batch[d].rounds /\ batch'[d].calls = batch[d].calls
             /\ batch'[d].reserved = batch[d].reserved
  <2>1. Kept(batch'[d], batch[d])
    <3>. HIDE DEF Kept
    <3>1. CASE batch'[d] = batch[d]
      BY <3>1 DEF Kept
    <3>2. CASE \E st : batch'[d] = [batch[d] EXCEPT !.state = st]
      BY <3>2, <1>1, <1>3
    <3>3. CASE \E st, n : batch'[d] = [batch[d] EXCEPT !.state = st, !.runs = n]
      <4>1. PICK st, n : batch'[d] = [batch[d] EXCEPT !.state = st, !.runs = n]
        BY <3>3
      <4>2. Kept([batch[d] EXCEPT !.state = st, !.runs = n], batch[d])
        BY <1>1, <1>3
      <4>. QED BY <4>1, <4>2
    <3>4. CASE \E st, n, m : batch'[d] = [batch[d] EXCEPT !.state = st, !.runs = n, !.max = m]
      <4>1. PICK st, n, m : batch'[d] = [batch[d] EXCEPT !.state = st, !.runs = n, !.max = m]
        BY <3>4
      <4>2. Kept([batch[d] EXCEPT !.state = st, !.runs = n, !.max = m], batch[d])
        BY <1>1, <1>3
      <4>. QED BY <4>1, <4>2
    <3>. QED BY <3>1, <3>2, <3>3, <3>4, <1>4
  <2>. QED BY <2>1
<1>6. \A d \in Batches : batch'[d].rounds >= batch[d].rounds
  BY <1>1, <1>5
<1>. QED BY <1>2, <1>5, <1>6, NoSpending

LEMMA UnendedFinite ==
  ASSUME TypeOK, NEW b \in Batches
  PROVE  IsFiniteSet(Unended(b)) /\ Cardinality(Unended(b)) \in Nat
<1>1. batch[b].calls \in Nat /\ MaxRuns \in Nat
  BY LimitAssumption DEF TypeOK, BatchRows
<1>2. IsFiniteSet(1..batch[b].calls) /\ IsFiniteSet(1..MaxRuns)
  <2>1. 1 \in Int /\ batch[b].calls \in Int /\ MaxRuns \in Int
    BY <1>1
  <2>2. IsFiniteSet(1..batch[b].calls)
    BY <2>1, FS_Interval
  <2>3. IsFiniteSet(1..MaxRuns)
    BY <2>1, FS_Interval
  <2>. QED BY <2>2, <2>3
<1>3. IsFiniteSet({b} \X (1..MaxRuns))
  BY <1>2, FS_Singleton, FS_Product
<1>4. RunsOf(b) \in SUBSET ({b} \X (1..MaxRuns))
  BY DEF RunsOf, Runs
<1>5. IsFiniteSet(RunsOf(b))
  BY <1>3, <1>4, FS_Subset
<1>6. IsFiniteSet(RunsOf(b) \X (1..batch[b].calls))
  BY <1>2, <1>5, FS_Product
<1>7. Unended(b) \in SUBSET (RunsOf(b) \X (1..batch[b].calls))
  BY DEF Unended
<1>8. IsFiniteSet(Unended(b))
  BY <1>6, <1>7, FS_Subset
<1>. QED BY <1>8, FS_CardinalityType

\* What is reserved follows the model calls that nobody has ended.
LEMMA BudgetStep ==
  ASSUME TypeOK, TypeOK', CallsInv, BudgetAccounted, Spending
  PROVE  BudgetAccounted'
<1>. SUFFICES ASSUME NEW b \in Batches PROVE batch'[b].reserved = Cardinality(Unended(b)')
  BY DEF BudgetAccounted
<1>. DEFINE U == Unended(b)
            n == batch[b].calls
<1>0. /\ IsFiniteSet(U) /\ Cardinality(U) \in Nat /\ batch[b].reserved = Cardinality(U)
      /\ n \in Nat /\ batch'[b].calls \in Nat
  BY UnendedFinite DEF BudgetAccounted, TypeOK, BatchRows
<1>1. \A r \in RunsOf(b) : modelCalls[r] \in 0..n /\ modelCalls'[r] \in Int
  BY DEF CallsInv, RunsOf, TypeOK
<1>2. /\ \A i \in U : i[1] \in RunsOf(b) /\ i[2] \in 1..n /\ i[2] <= modelCalls[i[1]] /\ i = <<i[1], i[2]>>
      /\ \A r \in RunsOf(b), k \in 1..n : k <= modelCalls[r] => <<r, k>> \in U
  BY DEF Unended
<1>3. /\ \A i \in Unended(b)' : /\ i[1] \in RunsOf(b) /\ i[2] \in 1..batch'[b].calls
                                /\ i[2] <= modelCalls'[i[1]] /\ i = <<i[1], i[2]>>
      /\ \A r \in RunsOf(b), k \in 1..batch'[b].calls : k <= modelCalls'[r] => <<r, k>> \in Unended(b)'
  BY DEF Unended, RunsOf
<1>4. CASE /\ batch'[b].reserved = batch[b].reserved
           /\ \A r \in RunsOf(b) : modelCalls'[r] = modelCalls[r]
           /\ batch'[b].calls = batch[b].calls
  <2>1. Unended(b)' = U
    BY <1>4 DEF Unended, RunsOf
  <2>. QED BY <2>1, <1>0, <1>4
<1>5. ASSUME NEW r \in RunsOf(b),
             \A s \in RunsOf(b) : s # r => modelCalls'[s] = modelCalls[s],
             batch'[b].reserved = batch[b].reserved + (modelCalls'[r] - modelCalls[r]),
             modelCalls'[r] = modelCalls[r] + 1 /\ batch'[b].calls = batch[b].calls + 1
      PROVE  batch'[b].reserved = Cardinality(Unended(b)')
  <2>. DEFINE m == modelCalls[r]
  <2>0. m \in 0..n /\ m \in Int /\ modelCalls'[r] = m + 1 /\ batch'[b].calls = n + 1
    BY <1>1, <1>5
  <2>1. <<r, m + 1>> \notin U
    BY <1>2, <2>0
  <2>2. Unended(b)' \subseteq U \cup {<<r, m + 1>>}
    <3>1. ASSUME NEW i \in Unended(b)', i # <<r, m + 1>> PROVE i \in U
      <4>1. /\ i[1] \in RunsOf(b) /\ i[2] \in 1..(n + 1) /\ i[2] <= modelCalls'[i[1]]
            /\ i = <<i[1], i[2]>>
        BY <1>3, <2>0
      <4>2. i[2] <= modelCalls[i[1]]
        <5>1. CASE i[1] = r
          <6>1. i[2] # m + 1
            BY <5>1, <4>1, <3>1
          <6>. QED BY <6>1, <5>1, <4>1, <2>0
        <5>2. CASE i[1] # r
          BY <5>2, <4>1, <1>5
        <5>. QED BY <5>1, <5>2
      <4>3. i[2] \in 1..n
        BY <4>1, <4>2, <1>1, <1>0
      <4>. QED BY <4>1, <4>2, <4>3, <1>2
    <3>. QED BY <3>1
  <2>3. U \cup {<<r, m + 1>>} \subseteq Unended(b)'
    <3>1. <<r, m + 1>> \in Unended(b)'
      <4>1. m + 1 \in 1..batch'[b].calls
        BY <2>0, <1>0
      <4>. QED BY <4>1, <2>0, <1>3
    <3>2. ASSUME NEW i \in U PROVE i \in Unended(b)'
      <4>1. i[1] \in RunsOf(b) /\ i[2] \in 1..n /\ i[2] <= modelCalls[i[1]] /\ i = <<i[1], i[2]>>
        BY <1>2
      <4>2. i[2] \in 1..batch'[b].calls
        BY <4>1, <2>0, <1>0
      <4>3. i[2] <= modelCalls'[i[1]]
        BY <4>1, <2>0, <1>5
      <4>. QED BY <4>1, <4>2, <4>3, <1>3
    <3>. QED BY <3>1, <3>2
  <2>4. Cardinality(Unended(b)') = Cardinality(U) + 1
    <3>1. Unended(b)' = U \cup {<<r, m + 1>>}
      BY <2>2, <2>3
    <3>. QED BY <3>1, <2>1, <1>0, FS_AddElement
  <2>5. modelCalls'[r] - modelCalls[r] = 1
    BY <2>0
  <2>. QED BY <2>4, <2>5, <1>0, <1>5
<1>6. ASSUME NEW r \in RunsOf(b),
             \A s \in RunsOf(b) : s # r => modelCalls'[s] = modelCalls[s],
             batch'[b].reserved = batch[b].reserved + (modelCalls'[r] - modelCalls[r]),
             modelCalls'[r] \in 0..modelCalls[r] /\ batch'[b].calls = batch[b].calls
      PROVE  batch'[b].reserved = Cardinality(Unended(b)')
  <2>. DEFINE m == modelCalls[r]
              k == modelCalls'[r]
              D == {r} \X ((k + 1)..m)
  <2>0. m \in 0..n /\ k \in 0..m /\ k \in Int /\ m \in Int /\ batch'[b].calls = n
    BY <1>1, <1>6
  <2>1. D \subseteq U
    <3>1. ASSUME NEW j \in (k + 1)..m PROVE <<r, j>> \in U
      <4>1. j \in 1..n /\ j <= modelCalls[r]
        BY <2>0, <1>0
      <4>. QED BY <4>1, <1>2
    <3>. QED BY <3>1
  <2>2. Unended(b)' \subseteq U \ D
    <3>1. ASSUME NEW i \in Unended(b)' PROVE i \in U /\ i \notin D
      <4>1. /\ i[1] \in RunsOf(b) /\ i[2] \in 1..n /\ i[2] <= modelCalls'[i[1]]
            /\ i = <<i[1], i[2]>>
        BY <1>3, <2>0
      <4>2. i[2] <= modelCalls[i[1]] /\ (i[1] = r => i[2] <= k)
        BY <4>1, <2>0, <1>6
      <4>3. i \notin D
        BY <4>1, <4>2, <2>0
      <4>. QED BY <4>1, <4>2, <4>3, <1>2
    <3>. QED BY <3>1
  <2>3. U \ D \subseteq Unended(b)'
    <3>1. ASSUME NEW i \in U, i \notin D PROVE i \in Unended(b)'
      <4>1. i[1] \in RunsOf(b) /\ i[2] \in 1..n /\ i[2] <= modelCalls[i[1]] /\ i = <<i[1], i[2]>>
        BY <1>2
      <4>2. i[2] <= modelCalls'[i[1]]
        <5>1. CASE i[1] = r
          <6>1. i[2] \notin (k + 1)..m
            BY <5>1, <4>1, <3>1
          <6>. QED BY <6>1, <5>1, <4>1, <2>0
        <5>2. CASE i[1] # r
          BY <5>2, <4>1, <1>6
        <5>. QED BY <5>1, <5>2
      <4>. QED BY <4>1, <4>2, <2>0, <1>3
    <3>. QED BY <3>1
  <2>4. IsFiniteSet((k + 1)..m) /\ Cardinality((k + 1)..m) = m - k
    <3>1. k + 1 \in Int /\ m \in Int
      BY <2>0
    <3>2. /\ IsFiniteSet((k + 1)..m)
          /\ Cardinality((k + 1)..m) = IF k + 1 > m THEN 0 ELSE m - (k + 1) + 1
      BY <3>1, FS_Interval
    <3>. QED BY <3>2, <2>0
  <2>5. Cardinality(D) = m - k
    <3>1. Cardinality({r}) = 1 /\ IsFiniteSet({r})
      BY FS_Singleton
    <3>2. Cardinality(D) = Cardinality({r}) * Cardinality((k + 1)..m)
      BY <3>1, <2>4, FS_Product
    <3>. QED BY <3>1, <3>2, <2>4, <2>0
  <2>6. Cardinality(Unended(b)') = Cardinality(U) - (m - k)
    <3>1. Unended(b)' = U \ D /\ U \cap D = D
      BY <2>1, <2>2, <2>3
    <3>2. Cardinality(U \ D) = Cardinality(U) - Cardinality(U \cap D)
      BY <1>0, FS_Difference
    <3>. QED BY <3>1, <3>2, <2>5
  <2>. QED BY <2>6, <2>0, <1>0, <1>6
<1>. QED BY <1>4, <1>5, <1>6 DEF Spending

\* Calls are only recorded for a run at work, none is forgotten, and what acts was recorded.
JournalGrows ==
  /\ \A r \in Runs, c \in Calls :
       /\ tool'[r][c] # "none" => tool[r][c] # "none" \/ run[r].state = "running"
       /\ tool[r][c] # "none" => tool'[r][c] # "none"
       /\ effects'[r][c] = effects[r][c] \/ tool[r][c] # "none"
  /\ \/ \A v \in Workers : worker'[v].pc \in Handling =>
          /\ worker[v].pc \in Handling
          /\ worker'[v].run = worker[v].run /\ worker'[v].call = worker[v].call
     \/ \E w \in Workers : /\ worker'[w].run \in Runs /\ worker'[w].call \in Calls
                           /\ tool[worker'[w].run][worker'[w].call] = "none"
                           /\ \A v \in Workers : v # w => worker'[v] = worker[v]

LEMMA LoopGrows ==
  ASSUME TypeOK, WorkersInv, NEW w \in Workers, Work(w) \/ Fail(w)
  PROVE  JournalGrows
<1>. DEFINE r == worker[w].run
            d == worker[w].call
<1>0. /\ r \in Runs /\ WorkerFits(w) /\ (worker[w].pc \in Handling => d \in Calls)
      /\ worker[w] \in Executions
  <2>1. ~At(w, "idle")
    BY DEF Work, Enter, JournalRefuses, ModelStart, ModelEnd, Checkpoint, ToolStart, Execute,
           ToolEnd, Commit, Leave, At, Fail, GiveUp, ModelFails, ToolUnknown, CommitFails, Die
  <2>. QED BY <2>1, WorkerFacts DEF TypeOK
<1>1. \A v \in Workers : v # w => worker'[v] = worker[v]
  BY DEF Work, Enter, JournalRefuses, ModelStart, ModelEnd, Checkpoint, ToolStart, Execute,
         ToolEnd, Commit, Leave, Fail, GiveUp, ModelFails, ToolUnknown, CommitFails, Die, Go,
         StopWith, TypeOK
<1>2. ASSUME worker'[w].pc \notin Handling, UNCHANGED <<tool, effects>> PROVE JournalGrows
  BY <1>1, <1>2 DEF JournalGrows
<1>3. ASSUME NEW pc, Go(w, pc) PROVE worker'[w].pc = pc
  BY <1>0, <1>3 DEF Go, TypeOK, Executions
<1>4. ASSUME NEW o, StopWith(w, o) PROVE worker'[w].pc = "commit"
  BY <1>0, <1>4 DEF StopWith, TypeOK, Executions
<1>5. CASE Enter(w)
  BY <1>5, <1>2, <1>3, <1>4 DEF Enter, rows, Handling
<1>6. CASE JournalRefuses(w)
  BY <1>6, <1>2, <1>4 DEF JournalRefuses, rows, Handling
<1>7. CASE ModelStart(w)
  BY <1>7, <1>2, <1>3, <1>4 DEF ModelStart, Handling
<1>8. ASSUME NEW asked \in SUBSET Calls, ModelEnd(w, asked) PROVE JournalGrows
  <2>1. worker'[w].pc = "said"
    BY <1>8, <1>0 DEF ModelEnd, TypeOK, Executions
  <2>. QED BY <2>1, <1>8, <1>2 DEF ModelEnd, Handling
<1>9. CASE Checkpoint(w)
  <2>1. worker'[w].pc \in {"commit", "tools"}
    BY <1>9, <1>0, <1>4 DEF Checkpoint, TypeOK, Executions
  <2>. QED BY <2>1, <1>9, <1>2 DEF Checkpoint, Handling
<1>10. ASSUME NEW c \in Calls, ToolStart(w, c) PROVE JournalGrows
  <2>1. CASE ~Unrecorded(r, c)
    BY <2>1, <1>10, <1>2, <1>4 DEF ToolStart, Handling
  <2>2. CASE Unrecorded(r, c)
    <3>1. worker'[w].run = r /\ worker'[w].call = c /\ tool[r][c] = "none" /\ run[r].state = "running"
      BY <2>2, <1>10, <1>0 DEF ToolStart, TypeOK, Executions, Unrecorded, Fenced
    <3>2. /\ tool'[r][c] = "prepared" /\ effects' = effects
          /\ \A s \in Runs, e \in Calls : s # r \/ e # c => tool'[s][e] = tool[s][e]
      BY SMTT(30), <2>2, <1>10, <1>0 DEF ToolStart, TypeOK
    <3>. QED BY <3>1, <3>2, <1>0, <1>1 DEF JournalGrows
  <2>. QED BY <2>1, <2>2
<1>11. CASE Execute(w)
  <2>1. /\ worker[w].pc \in Handling /\ worker'[w].run = r /\ worker'[w].call = d
        /\ tool' = tool
    BY <1>11, <1>0 DEF Execute, At, Handling, TypeOK, Executions, rows
  <2>2. tool[r][d] # "none" /\ d \in Calls
    BY <2>1, <1>0 DEF WorkerFits, InHand
  <2>3. \A s \in Runs, e \in Calls : s # r \/ e # d => effects'[s][e] = effects[s][e]
    BY <1>11, <1>0, <2>2 DEF Execute, TypeOK
  <2>. QED BY <2>1, <2>2, <2>3, <1>1 DEF JournalGrows
<1>12. CASE ToolEnd(w) \/ ToolUnknown(w)
  <2>1. worker[w].pc \in Handling /\ worker'[w].pc \in {"model", "tools", "commit"} /\ effects' = effects
    <3>1. ASSUME ToolEnd(w) PROVE worker'[w].pc \in {"model", "tools"}
      BY <3>1, <1>0 DEF ToolEnd, TypeOK, Executions
    <3>2. ToolUnknown(w) => worker'[w].pc = "commit"
      BY <1>4 DEF ToolUnknown
    <3>. QED BY <3>1, <3>2, <1>12 DEF ToolEnd, ToolUnknown, At, Handling
  <2>2. tool[r][d] # "none" /\ d \in Calls
    BY <2>1, <1>0 DEF WorkerFits, InHand
  <2>3. /\ tool'[r][d] # "none"
        /\ \A s \in Runs, e \in Calls : s # r \/ e # d => tool'[s][e] = tool[s][e]
    <3>1. PICK st \in {"done", "unknown"} : tool' = [tool EXCEPT ![r][d] = st]
      BY <1>12 DEF ToolEnd, ToolUnknown
    <3>. QED BY <3>1, <1>0, <2>2 DEF TypeOK
  <2>. QED BY <2>1, <2>2, <2>3, <1>1 DEF JournalGrows, Handling
<1>13. CASE Commit(w)
  BY <1>13, <1>2, <1>3 DEF Commit, Handling
<1>14. CASE Leave(w) \/ CommitFails(w) \/ Die(w)
  <2>1. worker'[w].pc = "idle"
    BY <1>14 DEF Leave, CommitFails, Die, Idle, TypeOK
  <2>. QED BY <2>1, <1>14, <1>2 DEF Leave, CommitFails, Die, Handling, rows
<1>15. ASSUME NEW o \in Outcomes, GiveUp(w, o) PROVE JournalGrows
  BY <1>15, <1>2, <1>4 DEF GiveUp, Handling, rows
<1>16. ASSUME NEW o \in Outcomes, ModelFails(w, o) PROVE JournalGrows
  BY <1>16, <1>2, <1>4 DEF ModelFails, Handling
<1>. QED BY <1>5, <1>6, <1>7, <1>8, <1>9, <1>10, <1>11, <1>12, <1>13, <1>14, <1>15, <1>16
         DEF Work, Fail

LEMMA OthersGrow ==
  ASSUME TypeOK,
         \/ \E w \in Workers, q \in JobIds : Claim(w, q)
         \/ \E b \in Batches : Start(b) \/ Extend(b) \/ Retry(b)
         \/ \E r \in Runs : Cancel(r)
         \/ \E q \in JobIds : Unavailable(q)
         \/ Archive \/ Restore
  PROVE  JournalGrows
<1>1. effects' = effects
  BY ZenonT(60) DEF Claim, ClaimNothing, ClaimArchived, ClaimBusy, Resume, HandOver, Begin, Start, Extend, Retry,
         Cancel, Unavailable, Archive, Restore
<1>2. \A r \in Runs, c \in Calls : \/ tool'[r][c] = tool[r][c]
                                   \/ tool[r][c] = "prepared" /\ tool'[r][c] = "unknown"
  <2>. DEFINE Given(b) == [r \in Runs |-> [c \in Calls |->
                   IF r[1] = b /\ tool[r][c] = "prepared" THEN "unknown" ELSE tool[r][c]]]
  <2>1. tool' = tool \/ \E b : tool' = Given(b)
    <3>1. ASSUME NEW w \in Workers, NEW q \in JobIds, Claim(w, q)
          PROVE  tool' = tool \/ tool' = Given(q[1])
      BY <3>1 DEF Claim, ClaimNothing, ClaimArchived, ClaimBusy, Resume, HandOver, Begin, rows
    <3>2. ASSUME NEW q \in JobIds, Unavailable(q) PROVE tool' = Given(q[1])
      BY <3>2 DEF Unavailable
    <3>. HIDE DEF Given
    <3>. QED BY <3>1, <3>2 DEF Start, Extend, Retry, Cancel, Archive, Restore, rows
  <2>. QED BY <2>1
<1>3. \A v \in Workers : worker'[v].pc \in Handling =>
        /\ worker[v].pc \in Handling
        /\ worker'[v].run = worker[v].run /\ worker'[v].call = worker[v].call
  <2>1. CASE UNCHANGED worker
    BY <2>1
  <2>2. ASSUME NEW w \in Workers, NEW q \in JobIds, NEW pc \in {"begun", "resumed"}, NEW said,
               Take(w, q, pc, said)
        PROVE  \A v \in Workers : worker'[v].pc \in Handling => worker'[v] = worker[v]
    BY <2>2 DEF Take, TypeOK, Idle, Handling
  <2>3. ASSUME NEW w \in Workers, NEW q \in JobIds, Claim(w, q)
        PROVE  \A v \in Workers : worker'[v].pc \in Handling => worker'[v] = worker[v]
    BY <2>3, <2>2 DEF Claim, ClaimNothing, ClaimArchived, ClaimBusy, Resume, HandOver, Begin, Return
  <2>. QED BY <2>1, <2>3 DEF Start, Extend, Retry, Cancel, Unavailable, Archive, Restore
<1>. QED BY <1>1, <1>2, <1>3 DEF JournalGrows

LEMMA CallsKept ==
  ASSUME TypeOK, TypeOK', RowsInv, WorkersInv, CallsInv, Spending, JournalGrows
  PROVE  CallsInv'
<1>1. \A b \in Batches : batch[b].rounds \in Nat /\ batch'[b].rounds \in Nat
                         /\ batch'[b].rounds >= batch[b].rounds
  BY DEF TypeOK, BatchRows, Spending
<1>2. ASSUME NEW r \in Runs, NEW c \in Calls, tool'[r][c] # "none" PROVE batch'[r[1]].rounds > 0
  <2>1. batch[r[1]].rounds > 0
    BY <1>2, RunFacts DEF JournalGrows, CallsInv, RowsInv, RowsFit
  <2>. QED BY <2>1, <1>1, RunFacts
<1>3. ASSUME NEW r \in Runs, NEW c \in Calls, tool'[r][c] = "none" PROVE effects'[r][c] = 0
  BY <1>3 DEF JournalGrows, CallsInv
<1>4. \A v \in Workers : worker[v].pc \in Handling =>
        /\ worker[v].run \in Runs /\ worker[v].call \in Calls
        /\ tool[worker[v].run][worker[v].call] # "none"
  BY DEF WorkersInv, WorkerFits, OccupiedBy, InHand, At, Handling
<1>5. ASSUME NEW v \in Workers, NEW w \in Workers, v # w,
             worker'[v].pc \in Handling, worker'[w].pc \in Handling
      PROVE  worker'[v].run # worker'[w].run \/ worker'[v].call # worker'[w].call
  BY <1>4, <1>5 DEF JournalGrows, CallsInv
<1>6. ASSUME NEW r \in Runs PROVE modelCalls'[r] \in 0..batch'[r[1]].calls
  <2>. DEFINE b == r[1]
  <2>1. b \in Batches /\ r \in RunsOf(b) /\ modelCalls[r] \in 0..batch[b].calls
    BY RunFacts DEF RunsOf, CallsInv
  <2>2. batch'[b].calls >= batch[b].calls /\ batch'[b].calls \in Nat /\ batch[b].calls \in Nat
    BY <2>1 DEF Spending
  <2>3. \/ modelCalls'[r] = modelCalls[r]
        \/ modelCalls'[r] = modelCalls[r] + 1 /\ batch'[b].calls = batch[b].calls + 1
        \/ modelCalls'[r] \in 0..modelCalls[r]
    BY <2>1 DEF Spending
  <2>. QED BY <2>1, <2>2, <2>3
<1>. QED BY <1>2, <1>3, <1>5, <1>6 DEF CallsInv

LEMMA CallsStep ==
  ASSUME TypeOK, TypeOK', RowsInv, WorkersInv, CallsInv, BudgetAccounted, [Next]_vars
  PROVE  CallsInv' /\ BudgetAccounted'
<1>1. CASE UNCHANGED vars
  BY <1>1 DEF vars, rows, CallsInv, BudgetAccounted, Unended, RunsOf
<1>2. CASE Next
  <2>1. ASSUME NEW w \in Workers, Work(w) \/ Fail(w) PROVE Spending /\ JournalGrows
    BY <2>1, LoopSpends, LoopGrows
  <2>2. ASSUME NEW w \in Workers, NEW q \in JobIds, Claim(w, q) PROVE Spending /\ JournalGrows
    BY <2>2, ClaimSpends, OthersGrow
  <2>3. ASSUME \/ \E b \in Batches : Start(b) \/ Extend(b) \/ Retry(b)
               \/ \E r \in Runs : Cancel(r)
               \/ \E q \in JobIds : Unavailable(q)
               \/ Archive \/ Restore
        PROVE  Spending /\ JournalGrows
    BY <2>3, PeopleSpend, OthersGrow
  <2>4. Spending /\ JournalGrows
    BY <1>2, <2>1, <2>2, <2>3 DEF Next
  <2>. QED BY <2>4, CallsKept, BudgetStep
<1>. QED BY <1>1, <1>2

LEMMA InvInit == Init => IInv
<1>1. ASSUME Init PROVE BudgetAccounted
  <2>1. \A b \in Batches : batch[b].calls = 0 /\ batch[b].reserved = 0
    BY <1>1 DEF Init
  <2>2. 1..0 = {}
    OBVIOUS
  <2>3. \A b \in Batches : Unended(b) = {}
    BY <2>1, <2>2 DEF Unended
  <2>. QED BY <2>1, <2>3, FS_EmptySet DEF BudgetAccounted
<1>. QED BY <1>1, TypeInit, RowsInit, WorkersInit, CallsInit DEF IInv

LEMMA InvStep == IInv /\ [Next]_vars => IInv'
<1>. SUFFICES ASSUME IInv, [Next]_vars PROVE IInv'
  OBVIOUS
<1>1. TypeOK /\ RowsInv /\ WorkersInv /\ CallsInv /\ BudgetAccounted /\ Occupied
  BY DEF IInv, WorkersInv, WorkerFits, Occupied
<1>2. TypeOK' /\ RowsInv' /\ WorkersInv'
  BY <1>1, TypeStep, RowsStep, WorkersStep
<1>. QED BY <1>1, <1>2, CallsStep DEF IInv

\* The strengthening that the theorems below are read off.
THEOREM Invariant == Spec => []IInv
  BY InvInit, InvStep, PTL DEF Spec

----------------------------------------------------------------------------
(* What a run checks on small instances.                                   *)

\* Every row and every worker of internal/agent/batch is one the code knows.
THEOREM TypeCorrect == Spec => []TypeOK
  BY Invariant, PTL DEF IInv

\* A queued or running batch has its latest run in the same state, whoever cancels, extends, retries
\* or takes over (service.go, recovery.go, collaboration's Retry).
THEOREM RowsAligned == Spec => []Aligned
<1>1. IInv => Aligned
  BY DEF IInv, RowsInv, RowsFit, Aligned
<1>. QED BY <1>1, Invariant, PTL

\* Nobody writes for a run after sandbox calls it did not make itself (recoverTranscript).
THEOREM SandboxIsKept == Spec => []SandboxKept
<1>1. IInv => SandboxKept
  BY DEF IInv, WorkersInv, WorkerFits, KeepsSandbox, SandboxKept
<1>. QED BY <1>1, Invariant, PTL

\* What is reserved is one unit per model call that nobody has ended, through every takeover.
THEOREM BudgetIsAccounted == Spec => []BudgetAccounted
  BY Invariant, PTL DEF IInv

\* A worker that was overtaken by a retry does not end the retried run (commit's lease check).
THEOREM RetriesStand == Spec => RetryStands
<1>1. ASSUME IInv, Next, NEW v \in Workers, NEW r \in Runs,
             worker'[v] # worker[v], run[r].state = "queued"
      PROVE  run'[r].state \notin {"succeeded", "failed"}
  <2>0. TypeOK /\ Occupied /\ run[r] \in RunRows /\ run[r].lease = NoWorker
    <3>1. RowsFit(r[1])
      BY <1>1, RunFacts DEF IInv, RowsInv
    <3>. QED BY <3>1, <1>1 DEF IInv, WorkersInv, WorkerFits, Occupied, TypeOK, RowsFit
  <2>1. ASSUME NEW w \in Workers, Work(w) \/ Fail(w) PROVE run'[r].state = "queued"
    <3>1. CASE ~Commit(w)
      BY <2>0, <2>1, <3>1, <1>1, LoopKeepsRows DEF RowsKept
    <3>2. CASE Commit(w)
      <4>1. worker[w].run \in Runs
        BY <2>0, <3>2 DEF Commit, At, Occupied, OccupiedBy
      <4>2. Leased(w) => worker[w].run # r
        BY <2>0, WorkerAssumption DEF Leased, NoWorker
      <4>3. run' = run \/ (Leased(w) /\ \E st : run' = [run EXCEPT ![worker[w].run].state = st])
        BY <3>2 DEF Commit
      <4>. QED BY <4>1, <4>2, <4>3, <1>1, <2>0 DEF TypeOK
    <3>. QED BY <3>1, <3>2
  <2>2. ASSUME NEW w \in Workers, NEW q \in JobIds, Claim(w, q)
        PROVE  run'[r].state \in {"queued", "running", "cancelled", "waiting_human"}
    <3>1. "cancelled" \in RunStates
      BY DEF RunStates, Ended
    <3>2. [run[r] EXCEPT !.state = "cancelled"].state = "cancelled"
      BY <3>1, <2>0, RowTypes
    <3>3. CASE ClaimNothing(w, q) \/ ClaimBusy(w, q)
      BY <3>3, <1>1 DEF ClaimNothing, ClaimBusy, rows
    <3>4. CASE ClaimArchived(w, q)
      BY <3>4, <3>2, <1>1 DEF ClaimArchived
    <3>5. CASE HandOver(w, q)
      BY <3>5, <1>1 DEF HandOver
    <3>6. CASE Resume(w, q) \/ Begin(w, q)
      <4>1. run' = [run EXCEPT ![Latest(q[1])] = [state |-> "running", lease |-> w]]
        BY <3>6 DEF Resume, Begin, Run
      <4>. QED BY <4>1, <2>0, <1>1 DEF TypeOK
    <3>. QED BY <2>2, <3>3, <3>4, <3>5, <3>6 DEF Claim
  <2>3. worker' # worker
    BY <1>1
  <2>. QED BY <1>1, <2>1, <2>2, <2>3
           DEF Next, Start, Extend, Retry, Cancel, Unavailable, Archive, Restore
<1>2. IInv /\ [Next]_vars =>
        [\A w \in Workers, r \in Runs :
           worker'[w] # worker[w] /\ run[r].state = "queued"
             => run'[r].state \notin {"succeeded", "failed"}]_vars
  BY <1>1
<1>. QED BY <1>2, Invariant, PTL DEF Spec, RetryStands

----------------------------------------------------------------------------
(* The tool ledger.                                                        *)

LEMMA LedgerInit == Init => Ledger!Init
  BY RunFacts DEF Init, Ledger!Init, CallState

LEMMA LoopLedger ==
  ASSUME IInv, IInv', NEW w \in Workers, Work(w) \/ Fail(w)
  PROVE  [Ledger!Next]_(Ledger!ledger)
<1>. DEFINE r == worker[w].run
            d == worker[w].call
            S == [i \in Runs \X Calls |-> CallState[tool[i[1]][i[2]]]]
            E == [i \in Runs \X Calls |-> effects[i[1]][i[2]]]
<1>0. /\ TypeOK /\ r \in Runs /\ r[1] \in Batches /\ WorkerFits(w) /\ Occupied
      /\ (worker[w].pc \in Handling => d \in Calls) /\ worker[w] \in Executions
  <2>1. ~At(w, "idle")
    BY DEF Work, Enter, JournalRefuses, ModelStart, ModelEnd, Checkpoint, ToolStart, Execute,
           ToolEnd, Commit, Leave, At, Fail, GiveUp, ModelFails, ToolUnknown, CommitFails, Die
  <2>. QED BY <2>1, WorkerFacts DEF TypeOK, IInv
<1>1. ASSUME UNCHANGED <<tool, effects>> PROVE UNCHANGED Ledger!ledger
  BY <1>1 DEF Ledger!ledger
<1>2. /\ \A i \in Runs \X Calls : S[i] = CallState[tool[i[1]][i[2]]] /\ E[i] = effects[i[1]][i[2]]
      /\ \A i \in Runs \X Calls : S'[i] = CallState[tool'[i[1]][i[2]]] /\ E'[i] = effects'[i[1]][i[2]]
  OBVIOUS
<1>3. \A i \in Runs \X Calls : i[1] \in Runs /\ i[2] \in Calls /\ i = <<i[1], i[2]>>
                              /\ tool[i[1]][i[2]] \in ToolStates
  BY <1>0 DEF TypeOK
<1>4. /\ CallState["prepared"] = "open" /\ CallState["none"] = "none"
      /\ CallState["unknown"] = "unknown" /\ CallState["done"] = "done"
  BY DEF CallState
<1>e. ASSUME NEW i \in Runs \X Calls, Ledger!Open(i) \/ Ledger!Act(i) \/ Ledger!Close(i)
      PROVE  Ledger!Next
  BY <1>e DEF Ledger!Next
<1>f. ASSUME NEW b \in Batches, Ledger!Doubt(b) PROVE Ledger!Next
  BY <1>f DEF Ledger!Next
<1>5. ASSUME NEW c \in Calls, ToolStart(w, c), Unrecorded(r, c) PROVE Ledger!Next
  <2>0. PICK k \in Runs \X Calls : k = <<r, c>>
    BY <1>0
  <2>1. \A s \in Runs, e \in Calls : s[1] = r[1] => tool[s][e] \notin Undecided
    <3>1. Writes(w) /\ worker[w].pc \notin Handling
      BY <1>5 DEF ToolStart, At, Fenced, Writes, Handling
    <3>. QED BY <3>1, <1>0 DEF WorkerFits, KnowsDoubt
  <2>2. \A i \in Runs \X Calls : i[1][1] = r[1] => S[i] \in {"none", "done"}
    <3>1. ASSUME NEW i \in Runs \X Calls, i[1][1] = r[1] PROVE tool[i[1]][i[2]] \in {"none", "done"}
      BY <2>1, <1>3, <3>1 DEF ToolStates, Undecided
    <3>. QED BY <3>1, <1>2, <1>4
  <2>3. S[<<r, c>>] = "none"
    BY <1>0, <1>4, <1>5 DEF Unrecorded
  <2>4. tool' = [tool EXCEPT ![r][c] = "prepared"] /\ effects' = effects
    BY <1>5 DEF ToolStart
  <2>5. S' = [S EXCEPT ![<<r, c>>] = "open"]
    <3>1. \A i \in Runs \X Calls : tool'[i[1]][i[2]] =
                                     IF i = <<r, c>> THEN "prepared" ELSE tool[i[1]][i[2]]
      BY <2>4, <1>0, <1>3 DEF TypeOK
    <3>. QED BY <3>1, <1>4
  <2>6. E' = E
    BY <2>4
  <2>7. Ledger!Open(k)
    BY <2>0, <2>2, <2>3, <2>5, <2>6 DEF Ledger!Open, Ledger!Quiet, Ledger!BatchOf
  <2>. QED BY <2>7, <1>e
<1>6. CASE Execute(w)
  <2>1. worker[w].pc \in Handling /\ At(w, "effect") /\ tool' = tool /\ d \in Calls
    BY <1>6, <1>0 DEF Execute, At, Handling, rows
  <2>2. tool[r][d] \in Undecided /\ effects[r][d] = 0
    BY <2>1, <1>0 DEF WorkerFits, InHand
  <2>3. CASE effects' = effects
    BY <2>1, <2>3, <1>1
  <2>4. CASE effects' = [effects EXCEPT ![r][d] = @ + 1]
    <3>1. <<r, d>> \in Runs \X Calls /\ S[<<r, d>>] \in {"open", "unknown"} /\ E[<<r, d>>] = 0
      BY <2>1, <2>2, <1>0, <1>4 DEF Undecided
    <3>2. E' = [E EXCEPT ![<<r, d>>] = 1]
      <4>1. effects' = [effects EXCEPT ![r] = [effects[r] EXCEPT ![d] = 1]]
        BY <2>4, <2>2
      <4>2. \A i \in Runs \X Calls : effects'[i[1]][i[2]] =
                                       IF i = <<r, d>> THEN 1 ELSE effects[i[1]][i[2]]
        BY <4>1, <2>1, <1>0, <1>3 DEF TypeOK
      <4>. QED BY <4>2
    <3>3. S' = S
      BY <2>1
    <3>4. PICK k \in Runs \X Calls : k = <<r, d>>
      BY <3>1
    <3>5. Ledger!Act(k)
      BY <3>1, <3>2, <3>3, <3>4 DEF Ledger!Act
    <3>. QED BY <3>5, <1>e
  <2>. QED BY <2>3, <2>4, <1>6 DEF Execute
<1>7. CASE ToolEnd(w)
  <2>1. worker[w].pc \in Handling /\ Writes(w) /\ effects' = effects /\ d \in Calls
    BY <1>7, <1>0 DEF ToolEnd, At, Fenced, Writes, Handling
  <2>2. tool[r][d] = "prepared"
    BY <2>1, <1>0 DEF WorkerFits, InHand
  <2>3. <<r, d>> \in Runs \X Calls /\ S[<<r, d>>] = "open"
    BY <2>1, <2>2, <1>0, <1>4
  <2>4. tool' = [tool EXCEPT ![r][d] = "done"]
    BY <1>7 DEF ToolEnd
  <2>5. S' = [S EXCEPT ![<<r, d>>] = "done"]
    <3>1. \A i \in Runs \X Calls : tool'[i[1]][i[2]] =
                                     IF i = <<r, d>> THEN "done" ELSE tool[i[1]][i[2]]
      BY <2>1, <2>4, <1>0, <1>3 DEF TypeOK
    <3>. QED BY <3>1, <1>4
  <2>6. E' = E
    BY <2>1
  <2>7. PICK k \in Runs \X Calls : k = <<r, d>>
    BY <2>3
  <2>8. Ledger!Close(k)
    BY <2>3, <2>5, <2>6, <2>7 DEF Ledger!Close
  <2>. QED BY <2>8, <1>e
<1>8. CASE ToolUnknown(w)
  <2>1. worker[w].pc \in Handling /\ Writes(w) /\ effects' = effects /\ d \in Calls
    BY <1>8, <1>0 DEF ToolUnknown, At, Fenced, Writes, Handling
  <2>2. tool[r][d] = "prepared"
    BY <2>1, <1>0 DEF WorkerFits, InHand
  <2>3. tool' = [tool EXCEPT ![r][d] = "unknown"]
    BY <1>8 DEF ToolUnknown
  <2>4. \A s \in Runs, e \in Calls : s[1] = r[1] /\ tool[s][e] = "prepared" => s = r /\ e = d
    BY <2>1, <1>0 DEF WorkerFits, KnowsDoubt, Undecided
  <2>5. S' = [i \in Runs \X Calls |-> IF i[1][1] = r[1] /\ S[i] = "open" THEN "unknown" ELSE S[i]]
    <3>1. \A i \in Runs \X Calls : tool'[i[1]][i[2]] =
                                     IF i = <<r, d>> THEN "unknown" ELSE tool[i[1]][i[2]]
      BY <2>1, <2>3, <1>0, <1>3 DEF TypeOK
    <3>2. \A i \in Runs \X Calls : S[i] = "open" => tool[i[1]][i[2]] = "prepared"
      BY <1>2, <1>3, <1>4 DEF ToolStates
    <3>3. \A i \in Runs \X Calls : i[1][1] = r[1] /\ S[i] = "open" <=> i = <<r, d>>
      <4>1. ASSUME NEW i \in Runs \X Calls, i[1][1] = r[1], S[i] = "open" PROVE i = <<r, d>>
        BY <4>1, <3>2, <2>4, <1>3
      <4>2. S[<<r, d>>] = "open" /\ <<r, d>>[1] = r
        BY <2>1, <2>2, <1>0, <1>4
      <4>. QED BY <4>1, <4>2
    <3>. HIDE DEF S
    <3>4. \A i \in Runs \X Calls : S'[i] = IF i = <<r, d>> THEN "unknown" ELSE S[i]
      BY <3>1, <1>2, <1>4
    <3>5. S' = [i \in Runs \X Calls |-> S'[i]]
      BY DEF S
    <3>. QED BY <3>3, <3>4, <3>5
  <2>6. E' = E
    BY <2>1
  <2>7. PICK b \in Batches : b = r[1]
    BY <1>0
  <2>8. Ledger!Doubt(b)
    BY <2>5, <2>6, <2>7 DEF Ledger!Doubt, Ledger!BatchOf
  <2>. QED BY <2>8, <1>f
<1>9. ASSUME NEW c \in Calls, ToolStart(w, c) PROVE Ledger!Next \/ UNCHANGED Ledger!ledger
  <2>1. CASE Unrecorded(r, c)
    BY <2>1, <1>5, <1>9
  <2>2. CASE ~Unrecorded(r, c)
    BY <2>2, <1>9, <1>1 DEF ToolStart
  <2>. QED BY <2>1, <2>2
<1>10. ASSUME Work(w) \/ Fail(w), ~ToolEnd(w), ~ToolUnknown(w), ~Execute(w),
              \A c \in Calls : ~ToolStart(w, c)
       PROVE  UNCHANGED Ledger!ledger
  BY <1>10, <1>1 DEF Work, Fail, Enter, JournalRefuses, ModelStart, ModelEnd, Checkpoint, Commit, Leave,
                     GiveUp, ModelFails, CommitFails, Die, rows
<1>. QED BY <1>6, <1>7, <1>8, <1>9, <1>10

\* A takeover and a process without a model give up every open call of the batch.
LEMMA OthersLedger ==
  ASSUME IInv,
         \/ \E w \in Workers, q \in JobIds : Claim(w, q)
         \/ \E b \in Batches : Start(b) \/ Extend(b) \/ Retry(b)
         \/ \E r \in Runs : Cancel(r)
         \/ \E q \in JobIds : Unavailable(q)
         \/ Archive \/ Restore
  PROVE  [Ledger!Next]_(Ledger!ledger)
<1>. DEFINE S == [i \in Runs \X Calls |-> CallState[tool[i[1]][i[2]]]]
            Given(b) == [r \in Runs |-> [c \in Calls |->
                           IF r[1] = b /\ tool[r][c] = "prepared" THEN "unknown" ELSE tool[r][c]]]
<1>1. ASSUME UNCHANGED <<tool, effects>> PROVE UNCHANGED Ledger!ledger
  BY <1>1 DEF Ledger!ledger
<1>2. ASSUME NEW b \in Batches, tool' = Given(b), effects' = effects PROVE Ledger!Next
  <2>1. \A i \in Runs \X Calls : /\ i[1] \in Runs /\ i[2] \in Calls /\ i = <<i[1], i[2]>>
                                 /\ tool[i[1]][i[2]] \in ToolStates
    BY DEF TypeOK, IInv
  <2>2. /\ CallState["prepared"] = "open" /\ CallState["none"] = "none"
        /\ CallState["unknown"] = "unknown" /\ CallState["done"] = "done"
    BY DEF CallState
  <2>3. \A i \in Runs \X Calls :
          tool'[i[1]][i[2]] = IF i[1][1] = b /\ tool[i[1]][i[2]] = "prepared"
                                THEN "unknown" ELSE tool[i[1]][i[2]]
    BY <1>2, <2>1
  <2>4. \A i \in Runs \X Calls :
          CallState[tool'[i[1]][i[2]]] =
             IF i[1][1] = b /\ CallState[tool[i[1]][i[2]]] = "open"
               THEN "unknown" ELSE CallState[tool[i[1]][i[2]]]
    BY <2>1, <2>2, <2>3 DEF ToolStates
  <2>5. S' = [i \in Runs \X Calls |-> IF i[1][1] = b /\ S[i] = "open" THEN "unknown" ELSE S[i]]
    BY <2>4
  <2>6. Ledger!Doubt(b)
    BY <2>5, <1>2 DEF Ledger!Doubt, Ledger!BatchOf
  <2>. QED BY <2>6 DEF Ledger!Next
<1>3. ASSUME NEW w \in Workers, NEW q \in JobIds, Claim(w, q)
      PROVE  Ledger!Next \/ UNCHANGED Ledger!ledger
  <2>1. CASE HandOver(w, q)
    <3>1. tool' = Given(q[1]) /\ effects' = effects
      BY <2>1 DEF HandOver
    <3>. HIDE DEF Given
    <3>. QED BY <3>1, <1>2, RunFacts
  <2>2. CASE ~HandOver(w, q)
    BY <2>2, <1>3, <1>1 DEF Claim, ClaimNothing, ClaimArchived, ClaimBusy, Resume, Begin, rows
  <2>. QED BY <2>1, <2>2
<1>4. ASSUME NEW q \in JobIds, Unavailable(q) PROVE Ledger!Next
  <2>1. tool' = Given(q[1]) /\ effects' = effects
    BY <1>4 DEF Unavailable
  <2>. HIDE DEF Given
  <2>. QED BY <2>1, <1>2, RunFacts
<1>. QED BY <1>1, <1>3, <1>4 DEF Start, Extend, Retry, Cancel, Archive, Restore, rows

LEMMA LedgerStep == IInv /\ IInv' /\ [Next]_vars => [Ledger!Next]_(Ledger!ledger)
<1>1. UNCHANGED vars => UNCHANGED Ledger!ledger
  BY DEF vars, rows, Ledger!ledger
<1>. QED BY <1>1, LoopLedger, OthersLedger DEF Next

\* Whatever workers die, are overtaken or are retried: a tool call takes effect at most once, and no
\* call of a batch is opened while another one is in doubt (ToolStart, recovery.go).
THEOREM ImplementsToolLedger == Spec => LedgerSpec
  BY LedgerInit, LedgerStep, Invariant, PTL DEF Spec, LedgerSpec, Ledger!Spec
=============================================================================
