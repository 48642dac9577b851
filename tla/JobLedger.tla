----------------------------- MODULE JobLedger -----------------------------
(***************************************************************************)
(* What the job queue promises to the code that enqueues a job, with no    *)
(* lease, clock or worker in it: a job is granted to executors one after   *)
(* the other, every executor may answer once, and only the answer of the   *)
(* LATEST grant is ever recorded on the job.  A job that is recorded       *)
(* succeeded or given up keeps that record.                                *)
(*                                                                         *)
(* Docs: docs/plans/v1/01 section 5 (an old worker never overwrites the    *)
(* result of the one that took over).  JobQueue implements this module.    *)
(***************************************************************************)
EXTENDS Naturals

CONSTANT Jobs         \* the jobs that can be enqueued

VARIABLES status,     \* absent, open, granted, succeeded or given_up, per job
          grants,     \* how often the job was granted
          answers     \* the <<grant, result>> pairs executors came back with

ledger == <<status, grants, answers>>

Results == {"ok", "busy", "retry", "fatal"}

Answered(j, g) == \E r \in Results : <<g, r>> \in answers[j]

Init == /\ status = [j \in Jobs |-> "absent"]
        /\ grants = [j \in Jobs |-> 0]
        /\ answers = [j \in Jobs |-> {}]

Open(j) == /\ status[j] = "absent"
           /\ status' = [status EXCEPT ![j] = "open"]
           /\ UNCHANGED <<grants, answers>>

\* A grant may supersede one that is still out.
Grant(j) == /\ status[j] \in {"open", "granted"}
            /\ status' = [status EXCEPT ![j] = "granted"]
            /\ grants' = [grants EXCEPT ![j] = @ + 1]
            /\ UNCHANGED answers

\* Any grant, superseded or not, is answered at most once.
Answer(j, g, r) == /\ g \in 1..grants[j]
                   /\ ~Answered(j, g)
                   /\ answers' = [answers EXCEPT ![j] = @ \cup {<<g, r>>}]
                   /\ UNCHANGED <<status, grants>>

\* What the answer of the latest grant may turn the job into.
Verdicts(r) == CASE r = "ok"    -> {"succeeded"}
                 [] r = "busy"  -> {"open"}
                 [] r = "fatal" -> {"given_up"}
                 [] OTHER       -> {"open", "given_up"}

Record(j) == /\ status[j] = "granted"
             /\ \E r \in Results : /\ <<grants[j], r>> \in answers[j]
                                   /\ \E v \in Verdicts(r) : status' = [status EXCEPT ![j] = v]
             /\ UNCHANGED <<grants, answers>>

Next == \E j \in Jobs : \/ Open(j)
                        \/ Grant(j)
                        \/ Record(j)
                        \/ \E g \in 1..grants[j], r \in Results : Answer(j, g, r)

Spec == Init /\ [][Next]_ledger
=============================================================================
