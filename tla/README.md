# Judex: a TLA+ model

Judex is a project collaboration server: people and AI agents work on plans and
tasks, every consequential change goes through a review with approval seats, and
slow work (agents, countdowns, previews) runs as background jobs. The server is
Go over PostgreSQL (`internal/`). The React front end (`web/`) holds more than a
client of it: its preview mode carries the whole of the work domain in TypeScript,
and its API mode a cache, an event stream and the requests of every command. A CLI
(`cmd/judex`, `pkg/client`) completes it.

This directory holds TLA+ modules of the parts where order matters, TLC
configurations that check them on small instances, and proofs of most of the safety
properties, of the server, of the preview and of the client, for every instance. All paths below are relative
to the repository's source root; web paths without a prefix are under
`web/src/features/`.

## 1. The system

### 1.1 How state is shared

**Server.** All durable state is in PostgreSQL. Three rules decide what can interleave:

- **A command is one transaction under the row lock of its project**
  (`postgres.Pool.Transact`, `Tx.LockActiveProject`). The lock refuses an archived
  project. Two commands of a project never interleave; a command is one action.
- **A background job is several transactions** (claim, the handler's own ones,
  heartbeats, finish) made by goroutines of any number of processes. Between any
  two of them the process may die, or lose its lease to another.
- **A timer is a job.** Nothing is driven by process memory; a countdown is a row
  in `background_jobs` that is delivered at least once.

**Web, preview mode.** One `WorkState` value holds everything. Every command is a pure
function from a state to a state or a refusal, run by `act` (`work/demoStore.tsx`), which
commits the result with `ensureDemoMainTopics`. A command is one action. What can
interleave are the persons: pages and dialogs hold what they read when they were
opened, while others act.

**Web, API mode.** The pages show a query cache. A command is several requests; between
any two of them others change the project, answers are lost and the session may end.
Project events mark queries stale. The route, the tabs and the drafts are state of one
browser window and its session storage.

### 1.2 Components

| component | state it keeps | operations | what is hard | what makes it correct |
|---|---|---|---|---|
| job engine, `internal/job` | `background_jobs`: state, attempt, lease, fencing token | Enqueue, Claim, Heartbeat, Finish, Run | leases that expire under a live executor, stale Finish, crashes, busy answers | only the latest claim records; attempts are accounted; every job ends |
| reviews, `internal/decision` | proposals, their versions, approval slots, deadlines | CreateDraft, UpdateDraft, Submit, Decide, Delegate, CreateRevision, SettleTimeout | decisions racing the timer, redelivered timers, partial application, resubmission | nothing applies without the consent of every seat; every countdown settles |
| confirmation intents, `internal/decision/intents.go` | one-time confirmations | Issue, Confirm, Reject, expiry | double clicks, commands that fail on confirmation | a command runs at most once |
| change groups, `internal/work/changes.go`, `change_policy.go`, `drafts.go` | plans and tasks with versions | apply, edit or discard a draft, withdraw reviews | rival reviews, drafts edited under review | one application per version; what was reviewed is what applies |
| task life cycle, `internal/work` (execution, reports, acceptances) | task and plan status, reports, acceptances | Start, Report, Accept, Rework, Reopen | acceptance against a superseded report | a task is accepted only on its current report and agreement |
| handoff, `internal/handoff` | handoffs, sources, source versions | Create, SendSource, DecideSource, reminders | evidence superseded between send and decision | a handoff is accepted only when every source is, on current evidence |
| agent batches, `internal/agent/batch` | batches, runs, sessions, model and tool calls, checkpoints | Start, ExecuteBatch, Cancel, Extend, the journal | takeover of a run whose worker is alive, replay of tool calls, shared budgets | a tool call runs at most once; one session, one worker; budgets hold |
| agent runner, tools, context | none of their own (the journal's) | the model/tool loop | order of journal writes | what was done is journaled first |
| discussion | topics, messages, forks | create, post, fork | none beyond one transaction | |
| collaboration | suggestions, analyses | analyse, retry, activity | a retry beside a running analysis | |
| workflow | graphs, presets, constraints | create, change | cycle check | graphs stay acyclic |
| material | files, previews, bundles | upload, publish, preview job | preview written by a stale job | |
| identity | accounts, sessions, device grants, tokens | login, device grant, refresh rotation | concurrent refresh | one successor per refresh token |
| project | status, members, positions | Archive, Restore, members | jobs that meet an archived project | |
| platform: events, idempotency | event sequence, outbox, idempotency records | Append, ClaimPendingOutbox, Run | readers paging by sequence, retried requests | no event is missed; a command runs once per key |
| postgres, audit, transport, app, config, adapters, CLI | see `PROJECT.json` | | | |
| preview store, `work/demoStore.tsx`, `actionRegistry.ts`, `types.ts`, `selectors.ts` | `WorkState`: members, seats, plans, tasks, hand-offs, flows, topics, proposals | one per command of `demoActions` | stale dialogs | a refusal changes nothing; what was reviewed is what is accepted |
| hand-offs and acceptance, `work/actions.ts`, `composition.ts`, `HandoffPages.tsx`, `Dialogs.tsx` | sources with revisions, statuses and history; acceptance dialogs | decide, revise, send, refresh, propose, report, accept, reopen | a workflow published under sent sources; late reports | a receipt stands, a decision is on record, no hand-off is stuck |
| arrangements and exceptions, `work/demoRuntime.ts`, `chat/proposalModel.ts` | proposals, votes, bindings, waivers | edit, discard, skip, restore, propose, vote | seats that change hands under a vote; chains of skipped tasks | holders approve; waivers follow from what is skipped |
| team, positions, workflows, `work/TeamPages.tsx` and the preset and flow editors | members, seats, invitations, positions, flow drafts | invite, accept, assign, replace, import, publish | seats bound before their holder joins; list positions as references | seats are held by members; an edited arrangement stays in order |
| discussions, `chat/demoCollaboration.ts`, `discussionPolicy.ts`, `cooperation/demo.ts` | topics, messages, forks, links, runs, suggestions | say, fork, link, discuss, resolve, record | forks of forks, two ways to a main topic | histories are numbered and frozen |
| API client, `lib/api/client.ts`, `sse.ts`, `work/apiStore.ts`, `apiActions.ts` | query cache, event cursor, keys of pending writes | one executor per command; reads, events, reconnects | lost answers, double clicks, answers overtaken by events | nothing missed, nothing twice, decided as shown |
| navigation, `work/storeBase.ts`, `cooperation/routing.ts`, `chat/*Tabs.ts`, `conversationDraft.ts` | route, history, tab bars, work contexts | every control that moves | effects that write each other's state; reload | surfaces stay apart; a place survives a reload |

Interactions: commands enqueue jobs in their own transaction (`job.Enqueue` takes
the transaction); jobs call service commands (`TimeoutJobHandler` calls
`SettleTimeout`); reviews apply change groups through `work`; edits of drafts in
`work` cancel proposals of `decision`; every command appends events and audit rows
in its transaction. In the web client a page offers a step (`DeliveryPages`,
`WorkPages`), the store performs it, and in API mode an executor of `apiActions` sends
it; its events reach every window through the event stream.

## 2. The modules

| module | models | relation |
|---|---|---|
| `JobLedger` | what the job engine promises: grants one after the other, one answer per grant, only the latest grant's answer recorded | abstract |
| `JobQueue` | `internal/job/job.go` over `background_jobs` | implements `JobLedger` |
| `MCJobQueue` | instances for TLC | |
| `JobQueueProofs` | theorems about `JobQueue` | |
| `ConsentLedger` | what a review promises to its seats | abstract |
| `Proposal` | `internal/decision`, with the part of `internal/work` that applies and withdraws change groups | implements `ConsentLedger` |
| `MCProposal` | instances for TLC | |
| `ProposalProofs` | theorems about `Proposal` | |
| `ToolLedger` | what the agent runtime promises about tool calls: opened before they act, acting at most once, none opened beside one in doubt | abstract |
| `AgentBatch` | `internal/agent/batch` with the loop of `internal/agent/runner` and the retry of `internal/collaboration` | implements `ToolLedger` |
| `MCAgentBatch` | instances for TLC | |
| `AgentBatchProofs` | theorems about `AgentBatch` | |
| `WorkState` | the work state of the preview, its selectors and capabilities | used by all boards |
| `WorkTopics` | topics, histories, forks, messages, task activity | extends `WorkState` |
| `WorkActions` | the commands on hand-offs, tasks, plans, team and flows | extends `WorkTopics` |
| `WorkRuntime` | drafts, discards, exceptions and their waivers | extends `WorkActions` |
| `WorkProposals` | arrangements and changes of work put to the vote | extends `WorkRuntime` |
| `DeliveryPages`, `WorkPages` | what the pages offer and what their forms can hold | use the commands' state |
| `DeliveryBoard`, `ArrangeBoard`, `TeamBoard`, `TalkBoard` | persons at the pages: state machines over the commands | compose pages and commands |
| `WorkSeed` | the seed of the preview | start of the boards |
| `ApiCalls` | the requests of every command in API mode | data of `ApiClient` |
| `ApiClient` | cache, event stream, keys, session, with the server as a log | |
| `Navigation` | route, history, tabs, tools and contexts | |
| `Window` | one browser window: `ApiClient` and `Navigation` | composes both |
| `MC*Board`, `MCWindow` | instances for TLC | |
| `DeliveryBoardProofs`, `ArrangeBoardProofs`, `TeamBoardProofs`, `TalkBoardProofs` | theorems about the boards, command by command | |
| `WindowProofs` | theorems about `ApiClient`, and about `Navigation` in the composed `Window` | |

### 2.1 JobQueue

One record `row[j]` per job: a job is its (kind, unique_key), which a unique index
keeps unique, so a job is enqueued at most once. Time is reduced to what the
queries compare: `due` is `run_after <= now`, `leased` is `lease_until >= now`. Each
worker is a goroutine of `Engine.Run`: `held[w]` is the `Job` value that `Claim`
returned, which is all `Finish` and `Heartbeat` know, and it goes stale when the
worker is overtaken.

| action | code |
|---|---|
| `Enqueue` | `Enqueue` in a caller's transaction |
| `ComeDue`, `LeaseRunsOut`, `LeaseMissed` | the clock; a live claim loses its lease only by a fault |
| `Claim` | the UPDATE of `Claim` and the start of `execute` |
| `NoHandler`, `Return`, `ReturnBusy` | what `Run` or the handler comes back with |
| `Heartbeat`, `HeartbeatFails` | a tick of the goroutine in `execute` |
| `Finish` | `Finish`, fenced by the token |
| `Abandon` | the process dies, or Finish's statement fails and is only logged |

Each is one database statement, so everything between two statements can
interleave. `answers`, `takeovers` and `refunds` are history variables.

### 2.2 Proposal

A review is `<<proposal, revision>>`. Every command is one action guarded by
`active` (the lock on an active project). A change group is reduced to what its
application depends on: the operation on each existing object (with its
ExpectedVersion), objects it only names, the plans new work is put in, and whether
workflow constraints were frozen into the review. `applyReviewed` runs in a
savepoint, so `ApplyReviewed` is all of the group or nothing of it with the proposal
`stale`. The countdown is `first`, `deadline`, `overdue` (the moment has passed) and
`timer` (the job). `TimerFires` may leave the job queued: delivery is at least once.
Who holds a seat is left open: any set of open seats may be answered together, which
includes every holder with several seats. `EditDraft`, `WorkMoves` and `FlowChanges`
stand for all commands of `internal/work` that touch what a review depends on.

### 2.3 AgentBatch

A batch is a row of `discussion_batches`, its runs are `<<batch, number>>` (the first one and one per
extension), and `Latest(b)` is what ExecuteBatch's `ORDER BY created_at DESC` returns. A worker executes
one job at a time and stands for the lease it took, which is sound because a worker that takes a lease
anew has left the execution that held the old one. `worker[w]` is what an execution has in memory: the
run it claimed, the calls its transcript asked (`said`), the calls of the round still to do (`todo`), the
call in hand, and the sandbox calls it made (`mine`), whose files exist only in its own sandbox.

| action | code |
|---|---|
| `Start`, `Cancel`, `Extend`, `Retry`, `Unavailable` | `Service.Start` and `EnqueueAnalysis`; `Service.Cancel`, `Service.Extend`; `collaboration.Retry`; `MarkUnavailable` |
| `ClaimNothing`, `ClaimArchived`, `ClaimBusy`, `Resume`, `HandOver`, `Begin` | the outcomes of the transaction at the start of ExecuteBatch |
| `Enter` | the state check after it, and the commit of a transcript that ends with an answer |
| `ModelStart`, `ModelEnd`, `Checkpoint`, `ToolStart`, `ToolEnd` | the journal's transactions, in the order of `Runner.Run` |
| `Execute` | the tool itself: a sandbox call takes effect under any lease, a draft only under `beginEffect` |
| `JournalRefuses`, `GiveUp`, `ModelFails`, `ToolUnknown` | the ways the loop ends early |
| `Commit`, `CommitFails`, `Leave`, `Die` | commit, the deferred release of the session, and the job's end |

A job is delivered as `JobQueue` allows: when queued, when its holder is gone, and, as a fault, when its
holder has only missed its lease.

### 2.4 The preview's commands

A command of `demoActions` is an operator `Command(w, next, u, ...)`, read as "`next` is the state after person `u` did
this in state `w`"; its conjuncts are the code's early returns. A refusal changes nothing
and is a step not taken. The maps of plans, tasks, topics and so on are functions from
ids; fresh ids come from bounded sets (`HandoffIds`, `TaskIds`, ...). Texts, files (a count)
and times are reduced to what the properties compare. Review keys (`planReviewKey`, review hashes)
are records of what the code serialises.

A page's operator is the set of inputs the page can produce: `Contribution(w, u, h, x)` is
the set of buttons a source shows to `u`, `HandoffDialog` the drafts the dialog can hold.
A board's action picks an input the page offers and applies the command. So a board can
reach only what persons can do, and `HandoffsMove` can ask whether anybody is offered a way on.

| board | its extra state | its actions |
|---|---|---|
| `DeliveryBoard` | open acceptance dialogs, the last material publication | decide, revise, send, refresh and propose hand-offs; start, report, progress, deliver, accept, reopen; publish |
| `ArrangeBoard` | open plan reviews | draft, change, discard, confirm, skip, restore, vote, refuse, replace, begin, deliver, accept |
| `TeamBoard` | the arrangement in the editor | invite, join, assign, replace, positions, presets, flows and drafts, prompts, new plans and tasks, edit, submit, vote |
| `TalkBoard` | none | say, discuss, fork, open, link, limit, ask, reply, resolve, submit, vote |

### 2.5 ApiCalls and ApiClient

`Calls[c]` is the row of requests that executor `c` of `apiActions.ts` makes: reads, updates
with the version just read, decisions with the version the person was shown, creations. Left out
is what a request carries besides, and reads that only pick a field. `ApiClient` executes one
command of a scene in up to two executions (a double click), beside a page of queries:

| action | code |
|---|---|
| `Serve`, `Arrive`, `FetchFails`, `Retry` | the server's answer to a read, its arrival in the cache, its failure; `invalidate` |
| `Connect`, `Deliver`, `Drop`, `Refuse`, `Recover`, `RecoverFails` | `onopen`, `handle`, `onerror` and the new set-up after repeated failures (`sse.ts`) |
| `Open`, `Click`, `Close` | the dialog of the command (`FrozenReview.tsx` keeps the review it was opened with) and `act`; the person may close it while an execution is under way |
| `Look`, `Differs`, `Post`, `Replay`, `Conflict` | the requests at the server: a read, a refused comparison, a write under a new or a known idempotency key, a version conflict |
| `Receive`, `ReceiveConflict`, `Lose`, `Unauthorized` | what `request` makes of the answer; keys stay pending when no answer came. A command that succeeds closes whichever opening there is (`Closed`), or its dialog stays and shows the answer (`Renewed`, for the commands of `StaysOpen`), or the opening is not reached, being a later one (`NotReached`) |
| `SignOut`, `SignIn` | `AuthProvider`: queries and pending keys are cleared |
| `Change` | another client changes an object |

The query library (`invalidateQueries` of an active query cancels a refetch under way, but not a
first fetch) and the server's side (a log of changes, idempotency records, version checks) are
external and modelled from how the code uses them.

### 2.6 Navigation and Window

Every control is one action: the handler's `go`, the writes to the tab bars and the effects
that follow until the window is at rest. `Address` and `Read` are the two directions of
`routing.ts`; `Traverse` and `Reload` read the route from the address again. `Window` runs both
modules on one clock: a scene of `ApiClient` has pages, or no pages and a walk of `Walk` moves.

## 3. The runs

| run | instance | what it shows |
|---|---|---|
| `job_queue` | 2 workers, 2 jobs (one without handler), limit 2, 2 faults | the safety properties, the refinement and `Drains` |
| `proposal_revised` | 1 proposal, 2 revisions, 2 seats, 1 edit | reviews, countdowns, resubmission; the refinement and `CountdownSettles` |
| `proposal_rivals` | 2 proposals about 1 object, 2 seats, 1 edit, 1 archival | rival reviews and edits under review |
| `agent_takeover` | 1 discussion, 2 runs, 2 workers, 1 sandbox call and 1 draft call, 2 model calls, 2 faults | takeovers, crashes and extensions; the refinement |
| `agent_retry` | 1 analysis, 2 rounds, 2 workers, 1 archival, 1 fault; 2 analyses queued on one session | cancel, archival and retry beside a live worker, a session that is busy; `Settles` |
| `delivery` | the seed's first hand-off, two sources, three persons, 2 later revisions, 1 publication or open dialog | hand-offs and acceptance |
| `arrange` | three tasks in a row, two persons, 1 proposal, 3 changes, 1 seat that changes hands | arrangements, exceptions and plan reviews |
| `team` | two members, one outsider, one proposed arrangement of two tasks, 2 changes | the team and the editor |
| `talk` | one plan with one task, two fresh topics, 5 events | discussions |
| `window` | every command, with a change, two clicks or a lost answer; three following pages; sessions that end; a walk of 4 moves | the client |
| `superseded_timer` | as `proposal_revised`, no edit | violation: the job of review 1 approves review 2's proposal |
| `agent_overtaken` | 2 discussions of one topic, 2 workers, 1 fault | violation: two runs of a session at once |

### 3.1 What the properties say

- `CurrentGrant`: no two executors hold the same token of a row, and the one that holds the
  current token finds the row running at the attempt it was charged. `Finish` relies on it: its
  WHERE compares the token and not the state.
- `AttemptsAccounted`, `AttemptsBounded`: attempts plus refunds are the claims made; the limit is
  tested only in `Finish`, so a job exceeds it by exactly the takeovers of abandoned claims.
- `FinalIsFinal`: no stale Finish, heartbeat or claim changes a finished row.
- `LedgerSpec`: `JobQueue` implements `JobLedger`; the status recorded is the verdict on the answer
  of the latest grant.
- `Drains`: every enqueued job ends once faults stop.
- `PendingIsOpen`: a pending proposal's current review has an open seat and no rejection, and from
  the first consent on a deadline and a job.
- `ConsentSpec`: `Proposal` implements `ConsentLedger`; in particular a group is applied only if
  every seat of its own review is answered, none rejected, and silence counted only after a first
  consent.
- `FirstReviewAnswered`: a proposal approved on the only review it ever had has every seat answered.
- `ExclusiveVersions`: of two reviews drafted against one version of an object at most one applies.
- `ShownIsCurrent`: what a pending review shows of a draft is what the draft is.
- `CountdownSettles`: a countdown that started ends the review (`MaxArchives = 0`).
- `LedgerSpec` (of `AgentBatch`): it implements `ToolLedger`, so through takeovers, extensions and
  retries a call takes effect at most once, and none is opened in a batch with a call in doubt.
- `SandboxKept`: a worker that can still write for its run made all of that run's sandbox calls itself.
- `BudgetAccounted`: a batch's reservations are its running model calls, so the reservation of an interrupted
  call is settled when its run is taken over: it neither stays reserved nor is reserved again.
- `Aligned`: a queued or running batch has its latest run in the same state.
- `RetryStands`: a retried run is not ended by the worker that executed it before.
- `Settles`: every queued or running batch is settled.
- `ReceiptStands`: a task at work behind a hand-off it had to wait for at its start, or accepted behind one it had
  to wait for at its acceptance, stays behind a received one, whatever is published or refreshed.
- `NoOutdatedDecision`: a hand-off left on instructions that a material publication replaced is stale
  or was received before.
- `DecisionsOnRecord`: an accepted source stays, and every other decided or sent version goes to the history.
- `AcceptedOnlyReopened`, `AcceptedAsReviewed`: accepted work is taken back only by reopening it, and is
  accepted with the files the dialog showed.
- `HandoffsMove`: until a hand-off is received, somebody is listed it and offered a step that the store performs.
- `WaiverStands`, `ExceptionsWorkedOut`: a waiver lives while its exception does, and after each skip or
  restoration every task's conditions are those a walk over the chains of skipped tasks gives. The reference
  definition (`Binding`) is reachability over sets; the code is a recursion over lists.
- `ApprovedByHolders`: a change takes effect with the votes of whoever holds the bound seats at that moment, on the
  version of the work it was made for.
- `PlanAcceptedAsReviewed`: a plan is accepted with the results its owner was shown, none of them open.
- `SeatsHeldByMembers`, `DraftInOrder`: whoever must agree is a member; tasks of an edited arrangement
  depend on earlier ones only.
- `HistoryNumbered`, `HistoryFrozen`, `MainTopicsLinked`: numbers grow along a history, a history changes at its end
  only, and a main topic keeps its link.
- `NothingMissed`, `CatchesUp`: no change up to the cursor of the stream is missing from a page, and in the end the page shows
  it, says that a read failed, or has lost its stream.
- `DecidedAsShown`: a command that holds to the version shown (a frozen review, a version sent from the page, a
  comparison before the update) takes effect on that version only. The judgements of `ReadAnew`, `decideDraft` and
  `activate` among them, are excluded by name: they decide what they read at the click (3.3).
- `CreatedOnce`: a command that is one creation takes effect once per opening of its dialog, and in one that stays open
  (the invitation) once until it shows the answer; unless an answer to an earlier opening came in meanwhile (3.3).
- `SurfacesIndependent`, `ContextKept`, `ReloadKeepsPlace`: tab bars do not move each other, a discussion's work
  changes only by choice, a reload shows the same page.

Every one of them has a mutant in `PROJECT.json`: a definition of the model changed as a plausible
bug would change the code, under which TLC finds the property violated.

### 3.2 Disagreements found

- `ApprovedMeansAnswered`: `SettleTimeout` settles the review its job names without comparing it
  with `current_review_id`. A proposal that was approved, revised and resubmitted is approved again
  by the timer of its first review, while the seats of the second one are open. A group that changes
  existing objects is protected by its versions; one that only creates new work is not.
- `SerialSession` with a takeover: `releaseSession` clears the session by run id, so an overtaken worker
  frees the session of its successor (`session.go:33`), and the topic's next batch starts beside it.

### 3.3 Observations

Read in the code while modelling it; no run is kept for them.

Server:

- `Run` reads a handler's `MaxAttempts()` only for a row whose `max_attempts` is 0 (`job.go:279`); `Enqueue`
  never sets the column and its default is 8, so every kind gets 8 attempts.
- The countdown's job fails for good on an archived project, and Restore enqueues no other: the review is
  left pending.
- An extension of a discussion that recorded any tool call is taken for an interrupted run without a
  checkpoint and goes to `waiting_human` (`batch.go:117-123`).
- `Cancel` leaves the analysis as it was, nothing changes it later, and `Retry` answers it with success.

Client and server:

- The first reads of a page are made in parallel and the stream starts after the bootstrap's cursor, so a change
  between two of them is not shown until the next one; `docs/plans/v1/01` line 146 asks for one snapshot of
  resources and cursor. `NothingMissed` excludes that gap (`skipped`, `passed`).
- An `EventSource` that is closed by an HTTP error (409, 5xx) fails once and never reaches the five failures after which
  `sse.ts` reads the bootstrap again; `docs/plans/v1/04` line 63 asks for that on 409.
- `savePosition`, `setDiscussionLimit` and `replaceSeat` read the version they send when they save, so an edit
  made while the form was open is overwritten; `publishFlow` publishes the current draft, whoever wrote it.
- Some judgements hold to no version shown. `decideDraft` and `activate` (`apiActions.ts:427`, `:440`; the approving
  buttons of `DecisionsPage.tsx:84,110`, which show a draft) read the task or plan at the click, propose its
  activation at that version, submit, and approve the review just made. `start`, `reopen`, `report`, `resume`,
  `sendSource` (which ignores the revision it is given) and `publishFlow` read anew in the same way. What was changed
  between showing and clicking is then approved, sent or published unseen, and the version check protects only
  the moments between read and write. `docs/plans/cooperation-ui/IMPLEMENTATION.md:21` says a confirmation submits
  the same review, hash and version ("确认提交同一 reviewId／reviewHash／版本，依据变化不会偷偷重新取最新版本"), which
  holds where a frozen review is shown. `reviseProposal` and `refreshHandoff` read anew too, but decide nothing.
- The invitation dialog stays open with its button enabled once it shows the link (`TeamPages.tsx:139-149`;
  `positions.go:278` always answers an `inviteUrl`). The key is gone by then (`client.ts:60`) and the server refuses
  no second invitation, so another click creates one. In the model that click belongs to a new round of the dialog.
- `pendingWrites` forgets the key of a request when any request with the same signature is answered. An answer
  to what was clicked in an earlier opening, cancelled under way or of a session that ended, takes the key of the
  present one's request away, and a retry of that one creates a second object; its `onClose` may also close it.
- A message carries a new random `clientSubmissionId` per try, so a retry after a lost answer has another body, and
  with it another key. A multi-step command that lost an answer starts again at its first step.

Preview and pages:

- Closing the last open discussion leaves the page before the shorter list is stored, and the tab returns
  (`useConversationTabs.ts:15,21`).
- Going back to an address of a discussion whose stored work differs pushes a corrected address, so Back leads to the same
  page again (`Conversation.tsx:53`; `docs/plans/cooperation-ui/03` NAV-04).
- Skipped tasks in a cycle of conditions: the expansion stops at a task it has seen and passes on what it has.
- Links of a topic are replaced with what the editor held when it was opened; a link made meanwhile is lost.
- `decideProposal` of the preview does not withdraw the other reviews of a draft it changes, as the server does.
- `HandoffPage` offers a refresh to everybody, and the task page offers the approval of a draft to people whom `decideDraft` refuses;
  both are refused by the store. A discarded draft is not refused by `decideDraft`.
- A workflow can be published without a step that positions are bound to; the binding then names nothing.

### 3.4 Bounds

- Two workers are enough for every race of the engine: an executor and the one that overtook it; a
  third would be overtaken by the same two statements. Two faults let a takeover be abandoned or
  followed by another. `MaxAttempts = 2` has a retry and a last attempt. The proofs remove these bounds.
- Two seats distinguish none, some and all seats answered. Two revisions are enough for a job or a
  vote of one review to meet the next. Two proposals are enough for rivals, since the properties
  relate two reviews. One object suffices because changes to different objects interact only through
  "all or nothing" of one group. The proofs remove these bounds, too.
- `AgentBatch`: two workers are an overtaken one and its successor; two runs are an extended batch; one
  call of each kind separates sandbox effects from fenced ones, and two model calls let an id be asked
  again. Two faults let a takeover be followed by a crash. The job's own attempts are not bounded here: a
  batch whose workers die eight times in a row keeps its state, as `JobQueue` shows of the job.
- `SeatSymmetry` is used only for invariants.
- Boards: two or three persons are a maker, a receiver and the manager, in the roles the seed gives them;
  the properties relate one object to one dialog or one vote, so a second object of a kind only
  repeats them. `delivery` has two sources because a hand-off is received when all are. Two later
  revisions let a source be revised after a decision and sent again, or a task be delivered
  anew under an open dialog. `arrange` has three tasks because a chain of exceptions needs a skipped task between two others. `talk` has
  two fresh topics, so a fork can be forked; five events suffice for a message, a fork, one more on
  each side and a link.
- `window`: two executions of a command are a double click; a third would meet the same answers. `FailureLimit` is 2
  where the code has 5: only reaching it matters. A scene bounds changes, drops and losses; its list has every command of `apiActions` at least
  once; `decideDraft` and `activate`, which `DecidedAsShown` excludes, run without changes by others. `Walk = 4` reaches every control, a tab left and taken again and a reload after it; `Remembered = 2` keeps a page to go back to.

### 3.5 Fairness

- `JobQueue`: time passes (`ComeDue`, `LeaseRunsOut`), workers poll (`Run` loops until the process
  stops, and processes are restarted), a handler returns (`execute` gives it ten minutes), and
  `Finish` follows. Nothing is assumed of heartbeats, of faults, or of busy answers, which are bounded
  by `MaxFaults`: a handler that answers busy for ever is not expected to end.
- `Proposal`: time passes (`Elapse`), a queued due job is delivered (`JobQueue`'s `Drains`), an
  archived project is restored. No person is assumed to decide. Weak fairness is enough everywhere: no
  such action is disabled again by others while it waits, except `TimerFires` by its own effect.
- `AgentBatch`: a job that can be claimed is claimed (`JobQueue`), and a worker that lives goes on: model
  streams and tools end (the runner's deadline is thirty minutes). No person acts, and an archived project
  need not be restored.
- `Window`: a request that was sent is answered, the answer arrives, a stream that is asked for is opened and hands on
  what it has. Losses and drops are bounded by the scene. No person acts and no failed read is retried.
- The boards state no fairness: persons act when they like. `HandoffsMove` is a state property about what is offered.

## 4. The proofs

tlapm checks every theorem below for all values of the constants, from the named assumptions of the modules:
finite bounds are natural numbers and limits positive (`JobQueue`, `Proposal`, `AgentBatch`, `ApiClient`), change groups and
scenes are records of the declared shape, sandboxed calls are calls, and the values that stand for nobody or nothing are none of the others. The sets
of jobs, workers, seats, objects, batches and calls may be infinite. A board starts from any state `Start` that is stored as its `StartAssumption`
says (the fields its commands write are there, the stored tasks and topics are finitely many where a proof counts them, and
what the theorem keeps holds at first), so the seed of the runs is one of many. TLC has
checked every inductive invariant on the instance of its run and evaluates the assumptions there.

**JobQueueProofs.** `CurrentGrant` is not inductive: it needs that tokens held by workers never exceed
the row's, that two workers on a job hold different ones, and that an un-started row has token 0. The
inductive invariant `IInv` (theorem `Invariant`) is the conjunction of those facts with `TypeOK`, the
accounting `attempt + refunds = token` and, for each claim, the attempt it was charged.
`AttemptsBounded` needs in addition that a queued row is below the limit plus its takeovers. Then
`CurrentGrantHolds`, `AttemptsAreAccounted`, `AttemptsAreBounded`, `FinalStays` and, step by step
against `JobLedger`, `ImplementsLedger`: `Claim` is a grant, a return is an answer, a fenced `Finish`
is a record, and everything else stutters.

**ProposalProofs.** `ReviewInv` is `TypeOK`, `Unsubmitted` (a revision that was never submitted has no
seats, deadline or job), `VotesRemembered` (a deadline belongs to a review with a first consent and no
rejection) and `PendingIsOpen`. It gives `PendingStaysOpen` and `ImplementsConsent`. `VersionInv` adds
`AppliedBehind` (an applied group's versions lie behind the objects') and gives
`VersionsStayExclusive`; `ShownStaysCurrent` and `FirstReviewIsAnswered` have inductive invariants
of their own over `ReviewInv`.

**AgentBatchProofs.** `Aligned`, `SandboxKept`, `BudgetAccounted` and the refinement need to know what an execution that was
overtaken can still do. `RowsInv` relates a batch to its latest run, `WorkersInv` says what a worker relies on at each of its program
points while it still holds the lease of its run (the run is the latest one, no other call of the batch is in
doubt, the call in hand is its own), and `CallsInv` that a call is handled by one worker and acts only when it is open. `IInv` is their
conjunction with `TypeOK` and `BudgetAccounted`, whose count of unended model calls is kept by lemmas on finite
sets. `RowsAligned`, `SandboxIsKept`, `BudgetIsAccounted` and `RetriesStand` follow, and `ImplementsToolLedger` maps each
journal transaction to the ledger's open, act and end.

**WindowProofs, the client.** `IInv` has four parts beside the types. `FeedInv`: a change that was handled while a query had data is in that data,
on its way, or given up. `RunInv`: a run began in a round of the dialog, with what was shown then. `KnowsInv`: what a
run compares is the version it was shown; that every command which updates what was judged, but for those of `ReadAnew`,
compares it first is a lemma over the table of `ApiCalls` (`UpdatesCompare`). `KeysInv`: the runs of one round of a creation share one key,
and once it is answered whoever clicks in that round gets it again. They give `NothingIsMissed`, `DecisionsAreAsShown` and `CreationsHappenOnce`.

**WindowProofs, the window.** A step of `Window` is one of `ApiClient` or one of `Navigation`, and neither touches the other's variables:
`WindowIsClient` says that the composition implements `ApiClient`'s specification, and `ClientInWindow` carries its three invariants over. For the pages,
`PagesInv` is inductive (`PagesInvariant`):

- `RouteOK`: a route names objects that exist, and each page has its own kinds of routes;
- `HistoryOK` and `Alike`: every address of the history reads as such a route, and the address the history is at reads as
  the page that is shown, up to what an address does not carry (a topic's view, the object of a list);
- `TabsOK`: a discussion has one tab, in memory and in storage; `ToolsOK`: the selected tool is one of those open; `ContextsOK`;
- `Shown`: beside a discussion stand the tools its route asks for, the work it is about is the stored context, its tab is in the bar and
  the bar is what is stored.

`HistoryOK` needs `Adjacent`: a step of the history from a discussion to the same one, beside no tool, keeps the scope. Going back over
such a step notifies nobody of a changed conversation, so the tab bar and the tools are kept as they are; were the scope another one, the tools would be of
the scope that was left. `SurfacesAreIndependent`, `ContextIsKept` and `ReloadIsSafe` follow step by step: a reload reads the address again, which is
`Alike` what was shown, and finds tabs, tools and contexts where `Shown` says. `WindowAssumption` says only that names are distinct:
tasks, plans and topics have ids of their own, and the absent value is none of them.
`Stored` (what the tool session writes) is a recursive function; that it exists is proved by induction on the length of the list (`Smallest`, `Counted`,
from the well-foundedness of the natural numbers).

**The boards.** A command is a relation between two large states, so each proof starts with a relation that says what almost every
command does to the part its properties speak of, and one lemma per command that it does; lemmas on single written
tasks, plans, proposals and topics carry the detail.

- `DeliveryBoardProofs`: `Kept` (new files come with a new revision, decided sources go to the history, accepted ones stay). `IInv`
  adds to the stored shape what an open dialog's key says about the files it shows (`DialogsFit`), that no hand-off is on
  instructions of the future (`MaterialFits`), `ReceiptStands` and `NoOutdatedDecision`; it gives `ReceiptsAlwaysStand`, `NothingOutdatedIsDecided`,
  `DecisionsStayOnRecord`, `OnlyReopened` and `AcceptedIsReviewed`.
- `ArrangeBoardProofs`: `Carried` for commands that make no exception and decide nothing; `Excepting` for a skip or a restoration, where every
  condition left is one that was written, one the exception in force names, or one taken over from a skipped task
  (`Unfolded`, whatever the expansion of deeper conditions returns); `VotedOn` for votes and `PlanAccepted` for the
  acceptance. `IInv` adds to `WaiverStands` that an open review's key determines the results it shows (`ReviewsFit`). It gives `WaiversAlwaysStand`,
  `HoldersApprove` and `PlansAcceptedAsReviewed`. `ExceptionsAreWorkedOut` is about the recursion of `changeDemoExecution` itself,
  for any graph of conditions between finitely many tasks, cycles and conditions on oneself included. The expansion ends, because its places
  are ranked by the tasks not yet on the way (`DeepDefined`). A condition that is not released blocks, and one that is released is
  replaced, at its own point, by what comes from its task (`UnfoldedBlocks`); what comes from a task is what blocks the tasks
  reached from it past those on the way (`ComesFrom`, by the smallest counterexample), as reachability satisfies the same
  equation (`ReachedNext`). Working conditions out leaves the written ones as they were (`UnfoldedWritten`), so the result can be
  compared with `Binding` of the new state.
- `TeamBoardProofs`: `Sound` states (stored, with all seats held) and `Alike` ones (the same people, seats, proposals and flow steps). The
  commands that write seats or members, and proposals of new work, have lemmas of their own, which give `SeatsBelongToMembers`; `DraftsInOrder` needs `EditorFits`: the tasks of
  the edited arrangement are a sequence, each after earlier ones, also when one is removed.
- `TalkBoardProofs`: `Grown` for commands that only add topics and links. `MainTopicsLinked` is inductive once a main topic with a
  name made for one plan or task is known to be that one's, so that making it overwrites nobody else's. It gives `MainTopicsStayLinked`.

**TalkBoardProofs, the histories.** What is read in a topic is `Histories`, a recursive function: a fork shows its parent's history up to
the point it was made at, then its own messages. Nothing in a history is stored, so what is said of it must follow from the topics.
Beside the two parts above, `IInv` has

- `Threaded`: a topic without a parent counts from zero, a fork starts at a message its parent has had (`Attached`), and a stored
  message with a number has the number after the message before it (`InOrder`);
- `Rooted`: no topic is forked from itself through others, as a depth of each topic below some bound;
- `Offered`: a suggestion or a proposal that will make a topic names such a point, which stays one until it is answered;
- `Named`: the topic with the name of a plan's or task's main topic exists only when the plan does, or the task has it as its
  main topic, so a main topic that is made is a new topic and replaces no history;
- `Peopled`: seats are finite and the delivery process is a list, which bounds what a round of discussion or an approval adds.

`Rooted` is what makes the recursive definition mean what it says (`HistoryDefined`), and what lets a fact pass from parents to forks
(`PassedOn`); both are inductions on a bounded depth, from the well-foundedness of the natural numbers, and the same induction on the
length of a history shows that the filter of `demoHistory` keeps a prefix (`UpToPrefix`). Hence the position of a message in a history is its
number (`AllCount`), which gives `HistoriesAreNumbered`. Every step `GoesOn`: topics keep parent, fork and messages and
only add messages, and new topics are attached to old ones. That preserves the parts above, and a history that goes on
has the old one as its prefix (`HistoriesFrozen`), which gives `HistoriesStayFrozen`. `StartAssumption` asks the same parts of the loaded state, and
`IdsAssumption` that fresh ids of topics are not those of main topics (`ensureDemoMainTopics` and `demoTaskMain` make them of a
prefix and the plan's or task's id) and that ids of tasks are finitely many.

Only model-checked: `Drains`, `CountdownSettles`, `Settles` and `CatchesUp` (liveness) and `HandoffsMove` (ENABLED). The violations
are counterexamples of TLC.

## 5. Not modelled

- A command that fails with an internal error rolls back its whole transaction and is a step not
  taken. A timer job that fails eight times for such errors is `dead`; `JobQueue` shows it, `Proposal`
  assumes delivery.
- The content of new plans, tasks and messages; permissions (who may decide, see or edit); the exact
  review hash: a decision on another hash is refused and changes nothing.
- `Discard` of a plan cascades to its draft tasks; here it is one object.
- `ORDER BY run_after` of `Claim`: any runnable row may be claimed.
- Of the agent runtime: child runs of `call_agent` (and the `waiting_human` they cause), compaction of
  long transcripts, token amounts (a reservation is one unit per model call), sandbox creation and
  cleanup. `limit_reached` is left out: commit chooses it only for Chinese messages of the runner's own
  limits (`batch.go:410`), which the batch's limits in the journal precede.
- A failing statement between the claim and the first model call is `Die` without the release of the
  session; failures of `releaseSession` itself are not modelled.
- Of the server: hand-offs, confirmation intents, the events and outbox, idempotency records, the retries of `Transact`,
  refresh rotation, preview leases, the CLI's outbox. Their hazards are known: evidence superseded
  between send and decision (`internal/handoff/service.go:207`), rework of a cancelled source task (`:328`), a
  confirmation clicked twice (`internal/decision/intents.go:191`), a retry when its idempotency record has expired
  (`internal/platform/idempotency/idempotency.go:60`), sequence numbers under the project's lock and readers that page by them
  (`internal/platform/events/events.go:41`), outbox rows marked delivered before they are sent (`:82`), wrapped serialization
  errors (`internal/infrastructure/postgres/postgres.go:144`), and one refresh token used by two clients (`internal/identity/device.go:242`).
  `ApiClient` assumes of them what its comments say: keys answered once, events in order.
- Of the preview: several projects (`createProject`), several browser tabs of one workspace (a `storage` event replaces
  the whole state), the repair of stored states (`normalizeWork`), reminders, the text of discussions.
- Of the client: paged collections, the mapping of answers to the preview's types, CSRF tokens, the polling of some
  queries, staging of shared files, forms for sign-in and settings.
- Of navigation: settings, editors and invitations in the address, the tabs of the hub, hand-off tabs (no control opens them),
  the panel that hides the tools, scroll positions.
- Layout, diagrams, components and texts, and the pages nothing mounts (`work/DecisionsPage.tsx`, `TaskCards.tsx`, `WorkPages.tsx`).

## 6. Plan

1. `JobLedger`, `JobQueue` and their proofs. *Done.*
2. `ConsentLedger`, `Proposal` and their proofs. *Done.*
3. `ToolLedger`, `AgentBatch` and their proofs. *Done.* Open: child runs of `call_agent`, which share the batch's budget.
4. The preview: `WorkState` to `WorkProposals`, the pages, the four boards and their proofs. *Done.*
5. The client: `ApiCalls`, `ApiClient` with its proofs, `Navigation`, `Window` with theirs. *Done.*
6. `Handoff` (`internal/handoff`) with the preview's hand-offs as its client's view; `ConfirmationIntent`;
   `TaskLifecycle` (`internal/work`).
7. `EventLog` and `Idempotency` (`internal/platform`), to be what `ApiClient` assumes of the server; `RefreshRotation`.
8. `TimedApproval`: `JobQueue` composed with `Proposal`, with the timer as a job that can fail and die.
