----------------------------- MODULE JobQueue ------------------------------
(***************************************************************************)
(* The background job engine, internal/job/job.go, over the table          *)
(* background_jobs: rows are claimed under a lease with a fencing token,   *)
(* executed with heartbeats, and finished with an update that carries the  *)
(* token.                                                                  *)
(*                                                                         *)
(* Time is abstracted to what the queries compare: `due` is run_after <=   *)
(* now, `leased` is lease_until >= now.  Every database statement is one   *)
(* action; an executor can be overtaken, crash or lose its database        *)
(* between any two of them.  ORDER BY run_after is left out: any runnable  *)
(* row may be claimed.                                                     *)
(***************************************************************************)
EXTENDS Naturals

CONSTANTS
  Jobs,          \* rows by their (kind, unique_key): the key exists at most once
  Workers,       \* goroutines running Engine.Run, in any number of processes
  Handled,       \* the jobs whose kind has a registered handler
  MaxAttempts,   \* column max_attempts of every row; Enqueue never sets it
  KindAttempts,  \* what the handler of the job's kind answers to MaxAttempts()
  MaxFaults      \* bound: crashes, missed leases, database errors and busy answers

ASSUME JobsAssumption == Jobs # {} /\ Handled \subseteq Jobs
ASSUME AttemptsAssumption == MaxAttempts \in Nat \ {0} /\ KindAttempts \in [Jobs -> Nat]
ASSUME FaultsAssumption == MaxFaults \in Nat

VARIABLES
  row,         \* the table: one record per job
  pc,          \* per worker: idle, executing the handler, or about to call Finish
  held,        \* per worker: the Job value Claim returned (stale once overtaken)
  result,      \* per worker: what the handler returned
  beating,     \* per worker: its heartbeat goroutine still runs
  answers,     \* history: <<token, result>> of every handler that returned, per job
  takeovers,   \* history: claims of a row that was still running, per job
  refunds,     \* history: attempts given back by a busy answer, per job
  faults       \* faults so far, up to MaxFaults

vars == <<row, pc, held, result, beating, answers, takeovers, refunds, faults>>

Results == {"ok", "busy", "retry", "fatal"}
States == {"absent", "queued", "running", "succeeded", "failed", "dead"}
Final == {"succeeded", "failed", "dead"}
Rows == [state : States, attempt : Nat, token : Nat, due : BOOLEAN, leased : BOOLEAN]
Claims == [job : Jobs, token : Nat, attempt : Nat, max : Nat]

NoRow == [state |-> "absent", attempt |-> 0, token |-> 0, due |-> FALSE, leased |-> FALSE]

----------------------------------------------------------------------------
(* Predicates of the queries.                                              *)

\* A claim that never looks at running rows.
RunnableQueued(r) == r.state = "queued" /\ r.due

\* The WHERE of Claim: due in the queue, or running under an expired lease.
Runnable(r) == \/ r.state = "queued" /\ r.due
               \/ r.state = "running" /\ ~r.leased

\* The WHERE of Finish without the token.
Unfenced(w) == row[held[w].job].token >= held[w].token

\* The WHERE of Finish: the row still carries the token of this claim.
Fenced(w) == row[held[w].job].token = held[w].token

\* A takeover that keeps the token of the claim it supersedes.
TokenOfFirstClaim(r) == IF r.state = "running" THEN r.token ELSE r.token + 1

\* The token of the next claim: fencing_token + 1.
NextToken(r) == r.token + 1

\* The current claim outlives its lease only by a fault: heartbeats renew it, or there is
\* no handler to run and Finish follows the claim at once.
Renewed(j) == \E w \in Workers : /\ pc[w] # "idle" /\ (beating[w] \/ j \notin Handled)
                                 /\ held[w].job = j /\ Fenced(w)

\* The comparison off by one.
ExhaustedLate(h) == h.attempt > h.max

\* job.Attempt >= job.MaxAttempts, on the values Claim returned.
Exhausted(h) == h.attempt >= h.max

\* MaxAttempts of the claimed Job: Run replaces it by the handler's only when it is zero.
LimitOf(j) == IF MaxAttempts = 0 THEN KindAttempts[j] ELSE MaxAttempts

\* The attempt limit looked at before the error: the last attempt cannot succeed.
VerdictLimitFirst(h, res) == IF res = "busy" THEN "queued"
                             ELSE IF Exhausted(h) THEN "dead"
                             ELSE IF res = "ok" THEN "succeeded"
                             ELSE IF res = "fatal" THEN "failed" ELSE "queued"

\* The state Finish writes for the answer res to the claim h: the tests are made in this order.
Verdict(h, res) == IF res = "busy" THEN "queued"
                   ELSE IF res = "ok" THEN "succeeded"
                   ELSE IF Exhausted(h) THEN "dead"
                   ELSE IF res = "fatal" THEN "failed" ELSE "queued"

\* A busy answer that keeps the attempt it was charged.
SettledCharging(r, h, res) ==
  [r EXCEPT !.state = Verdict(h, res), !.due = FALSE, !.leased = FALSE]

\* The row after Finish (due matters in the queue only); busy gives its attempt back.
Settled(r, h, res) ==
  [r EXCEPT !.state = Verdict(h, res), !.due = FALSE, !.leased = FALSE,
            !.attempt = IF res # "busy" THEN @ ELSE IF @ = 0 THEN 0 ELSE @ - 1]

Fault == faults < MaxFaults /\ faults' = faults + 1

----------------------------------------------------------------------------
NoClaim == [job |-> CHOOSE j \in Jobs : TRUE, token |-> 0, attempt |-> 0, max |-> 0]

\* The worker is back at the top of Run's loop.
Release(w) == /\ pc' = [pc EXCEPT ![w] = "idle"]
              /\ held' = [held EXCEPT ![w] = NoClaim]
              /\ result' = [result EXCEPT ![w] = "ok"]
              /\ beating' = [beating EXCEPT ![w] = FALSE]

Init == /\ row = [j \in Jobs |-> NoRow]
        /\ pc = [w \in Workers |-> "idle"]
        /\ held = [w \in Workers |-> NoClaim]
        /\ result = [w \in Workers |-> "ok"]
        /\ beating = [w \in Workers |-> FALSE]
        /\ answers = [j \in Jobs |-> {}]
        /\ takeovers = [j \in Jobs |-> 0]
        /\ refunds = [j \in Jobs |-> 0]
        /\ faults = 0

\* Enqueue, in a caller's transaction: the unique index refuses a second row.
Enqueue(j, soon) ==
  /\ row[j].state = "absent"
  /\ row' = [row EXCEPT ![j] = [NoRow EXCEPT !.state = "queued", !.due = soon]]
  /\ UNCHANGED <<pc, held, result, beating, answers, takeovers, refunds, faults>>

\* run_after passes.
ComeDue(j) ==
  /\ row[j].state = "queued" /\ ~row[j].due
  /\ row' = [row EXCEPT ![j].due = TRUE]
  /\ UNCHANGED <<pc, held, result, beating, answers, takeovers, refunds, faults>>

\* lease_until passes on a claim nobody renews.
LeaseRunsOut(j) ==
  /\ row[j].state = "running" /\ row[j].leased /\ ~Renewed(j)
  /\ row' = [row EXCEPT ![j].leased = FALSE]
  /\ UNCHANGED <<pc, held, result, beating, answers, takeovers, refunds, faults>>

\* lease_until passes on a live claim whose heartbeats come too late.
LeaseMissed(j) ==
  /\ row[j].state = "running" /\ row[j].leased /\ Renewed(j)
  /\ Fault
  /\ row' = [row EXCEPT ![j].leased = FALSE]
  /\ UNCHANGED <<pc, held, result, beating, answers, takeovers, refunds>>

\* Claim, and the start of execute with its heartbeat goroutine.
Claim(w, j) ==
  /\ pc[w] = "idle"
  /\ Runnable(row[j])
  /\ row' = [row EXCEPT ![j].state = "running", ![j].attempt = @ + 1,
                        ![j].token = NextToken(row[j]), ![j].leased = TRUE]
  /\ held' = [held EXCEPT ![w] = [job |-> j, token |-> NextToken(row[j]),
                                  attempt |-> row[j].attempt + 1, max |-> LimitOf(j)]]
  /\ pc' = [pc EXCEPT ![w] = "executing"]
  /\ beating' = [beating EXCEPT ![w] = j \in Handled]
  /\ takeovers' = [takeovers EXCEPT ![j] = IF row[j].state = "running" THEN @ + 1 ELSE @]
  /\ UNCHANGED <<result, answers, refunds, faults>>

\* The handler's answer (or, without a handler, Run's own) is passed to Finish.
ReturnWith(w, r) ==
  /\ pc' = [pc EXCEPT ![w] = "finishing"]
  /\ result' = [result EXCEPT ![w] = r]
  /\ answers' = [answers EXCEPT ![held[w].job] = @ \cup {<<held[w].token, r>>}]
  /\ UNCHANGED <<row, held, beating, takeovers, refunds>>

\* Run finds no handler for the kind and finishes with an INTERNAL error.
NoHandler(w) ==
  /\ pc[w] = "executing" /\ held[w].job \notin Handled
  /\ ReturnWith(w, "retry")
  /\ UNCHANGED faults

\* The handler returns: nil, a retryable or internal error, or a final one.
Return(w, r) ==
  /\ pc[w] = "executing" /\ held[w].job \in Handled
  /\ r \in Results \ {"busy"}
  /\ ReturnWith(w, r)
  /\ UNCHANGED faults

\* The handler returns ErrBusy, as often as MaxFaults allows.
ReturnBusy(w) ==
  /\ pc[w] = "executing" /\ held[w].job \in Handled
  /\ Fault
  /\ ReturnWith(w, "busy")

\* A tick of the heartbeat goroutine: the lease is renewed, or found lost and given up.
Heartbeat(w) ==
  /\ pc[w] # "idle" /\ beating[w]
  /\ LET j == held[w].job IN
     IF Fenced(w) /\ row[j].state = "running"
       THEN /\ row' = [row EXCEPT ![j].leased = TRUE]
            /\ UNCHANGED beating
       ELSE /\ beating' = [beating EXCEPT ![w] = FALSE]
            /\ UNCHANGED row
  /\ UNCHANGED <<pc, held, result, answers, takeovers, refunds, faults>>

\* The heartbeat's statement fails: the goroutine stops, the handler is only cancelled.
HeartbeatFails(w) ==
  /\ pc[w] # "idle" /\ beating[w]
  /\ Fault
  /\ beating' = [beating EXCEPT ![w] = FALSE]
  /\ UNCHANGED <<row, pc, held, result, answers, takeovers, refunds>>

\* Finish: fenced by the token; a claim that was overtaken writes no row.
Finish(w) ==
  /\ pc[w] = "finishing"
  /\ LET j == held[w].job IN
     IF Fenced(w)
       THEN /\ row' = [row EXCEPT ![j] = Settled(@, held[w], result[w])]
            /\ refunds' = [refunds EXCEPT ![j] = IF result[w] = "busy" THEN @ + 1 ELSE @]
       ELSE UNCHANGED <<row, refunds>>
  /\ Release(w)
  /\ UNCHANGED <<answers, takeovers, faults>>

\* Finish's statement fails and is only logged, or the process dies: the claim is abandoned.
Abandon(w) ==
  /\ pc[w] # "idle"
  /\ Fault
  /\ Release(w)
  /\ UNCHANGED <<row, answers, takeovers, refunds>>

Next == \/ \E j \in Jobs : \/ \E soon \in BOOLEAN : Enqueue(j, soon)
                           \/ ComeDue(j)
                           \/ LeaseRunsOut(j)
                           \/ LeaseMissed(j)
        \/ \E w \in Workers : \/ \E j \in Jobs : Claim(w, j)
                              \/ NoHandler(w)
                              \/ \E r \in Results : Return(w, r)
                              \/ ReturnBusy(w)
                              \/ Heartbeat(w)
                              \/ HeartbeatFails(w)
                              \/ Finish(w)
                              \/ Abandon(w)

\* Timers elapse, workers poll, and a handler returns (execute's ten-minute limit).
Fairness == /\ \A j \in Jobs : WF_vars(ComeDue(j)) /\ WF_vars(LeaseRunsOut(j))
            /\ \A w \in Workers : /\ WF_vars(\E j \in Jobs : Claim(w, j))
                                  /\ WF_vars(NoHandler(w))
                                  /\ WF_vars(\E r \in Results : Return(w, r))
                                  /\ WF_vars(Finish(w))

Spec == Init /\ [][Next]_vars
FairSpec == Spec /\ Fairness

----------------------------------------------------------------------------
(* Properties.                                                             *)

TypeOK == /\ row \in [Jobs -> Rows]
          /\ pc \in [Workers -> {"idle", "executing", "finishing"}]
          /\ held \in [Workers -> Claims]
          /\ result \in [Workers -> Results]
          /\ beating \in [Workers -> BOOLEAN]
          /\ answers \in [Jobs -> SUBSET (Nat \X Results)]
          /\ takeovers \in [Jobs -> Nat]
          /\ refunds \in [Jobs -> Nat]
          /\ faults \in Nat

\* Two executors never hold the same grant, and the one that holds the current grant of a
\* row finds it running at the attempt it was charged: Finish may trust the token alone,
\* although its WHERE does not look at the state.
CurrentGrant ==
  /\ \A v, w \in Workers : (v # w /\ pc[v] # "idle" /\ pc[w] # "idle" /\ held[v].job = held[w].job)
                               => held[v].token # held[w].token
  /\ \A w \in Workers : (pc[w] # "idle" /\ Fenced(w))
        => row[held[w].job].state = "running" /\ row[held[w].job].attempt = held[w].attempt

\* Every attempt is charged exactly once per claim, and a busy answer that counts refunds
\* exactly one, however claims, takeovers and stale busy answers interleave.
AttemptsAccounted == \A j \in Jobs : row[j].attempt + refunds[j] = row[j].token

\* A job gets no claim beyond max_attempts but for those that took over an abandoned one.
AttemptsBounded == \A j \in Jobs : row[j].attempt <= MaxAttempts + takeovers[j]

\* A recorded result is final: no late heartbeat, stale Finish or claim touches the row again.
FinalIsFinal == [][\A j \in Jobs : row[j].state \in Final => row'[j] = row[j]]_vars

\* The engine implements the ledger: the result on the row is the answer that the handler
\* gave under the latest token.
LedgerStatus(s) == CASE s = "queued" -> "open"
                     [] s = "running" -> "granted"
                     [] s \in {"failed", "dead"} -> "given_up"
                     [] OTHER -> s

Ledger == INSTANCE JobLedger WITH
            status <- [j \in Jobs |-> LedgerStatus(row[j].state)],
            grants <- [j \in Jobs |-> row[j].token]

LedgerSpec == Ledger!Spec

\* Every enqueued job comes to an end once faults stop, whoever crashed holding it.
Drains == \A j \in Jobs : row[j].state # "absent" ~> row[j].state \in Final
=============================================================================
