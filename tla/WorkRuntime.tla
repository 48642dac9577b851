----------------------------- MODULE WorkRuntime -----------------------------
(***************************************************************************)
(* Drafts and exceptions (features/work/demoRuntime.ts): revising and      *)
(* discarding a draft, skipping and restoring a task with the waivers of   *)
(* the tasks behind it.  A review is what the person was shown; the code   *)
(* compares its hash.                                                      *)
(***************************************************************************)
EXTENDS WorkActions

\* The requirement as a person wrote it, which is what a waiver names: its fingerprint.
Plain(r) == [r EXCEPT !.waived = FALSE, !.from = None]

Discardable(w, kind, o) ==
  IF kind = "task" THEN {o}
  ELSE {t \in DOMAIN w.tasks : w.tasks[t].plan = o /\ ~w.tasks[t].discarded}

\* What stands in the way: tasks and plans that refer to the work, and work already confirmed.
DiscardReview(w, kind, o) ==
  LET gone == Discardable(w, kind, o)
      linked == {t \in DOMAIN w.tasks \ gone :
                   /\ ~w.tasks[t].discarded
                   /\ \/ w.tasks[t].parent \in gone
                      \/ \E r \in w.tasks[t].reqs : r.kind = "task" /\ r.ref \in gone}
      refs == {p \in DOMAIN w.plans : /\ ~w.plans[p].discarded /\ <<"plan", p>> # <<kind, o>>
                                      /\ w.plans[p].refs \cap gone # {}}
      begun == IF kind = "plan" THEN {t \in gone : Standing(w.tasks[t]) # "draft"} ELSE {}
  IN [version |-> Object(w, kind, o).revision,
      tasks |-> IF kind = "plan"
                THEN {<<t, Standing(w.tasks[t]), w.tasks[t].revision>> : t \in gone} ELSE {},
      blockers |-> {<<"task", t>> : t \in linked \cup begun} \cup {<<"plan", p>> : p \in refs}]

\* The tasks that depend on t through requirements, directly or not.
Dependents(w, t) ==
  LET behind(S) == {c \in DOMAIN w.tasks :
                      /\ ~w.tasks[c].discarded
                      /\ \E r \in w.tasks[c].reqs : r.kind = "task" /\ r.ref \in S}
      step[n \in 0..Cardinality(DOMAIN w.tasks)] ==
        IF n = 0 THEN {t} ELSE LET found == step[n-1] IN found \cup behind(found)
  IN step[Cardinality(DOMAIN w.tasks)] \ {t}

Begun == {"working", "delivered", "accepted", "rework"}
OnTask(w, c, t) == {r \in w.tasks[c].reqs : r.kind = "task" /\ r.ref = t /\ r.from = None}

ExecutionReview(w, t) ==
  [version |-> w.tasks[t].revision, current |-> w.tasks[t].skip,
   affected |-> {[task |-> c, status |-> Standing(w.tasks[c]), version |-> w.tasks[c].revision,
                  reqs |-> {Plain(r) : r \in OnTask(w, c, t)}] : c \in Dependents(w, t)},
   plans |-> {p \in DOMAIN w.plans : t \in w.plans[p].refs}]

\* Pending proposals about the work are sent back.
Withdrawn(w, objects) ==
  [p \in DOMAIN w.proposals |->
    IF /\ w.proposals[p].status = "pending"
       /\ w.proposals[p].target \in objects \/ <<"plan", w.proposals[p].plan>> \in objects
    THEN [w.proposals[p] EXCEPT !.status = "rejected"] ELSE w.proposals[p]]

\* A requirement as the form hands it in.
Entered(r) ==
  [id |-> r.id, kind |-> r.kind, ref |-> r.ref, at |-> r.at, hard |-> r.hard,
   waived |-> FALSE, from |-> None]

\* fields gives new values to some of owner, seats, reviewer and reqs.
Arranged(o, fields) ==
  [k \in DOMAIN o |->
    IF k \in DOMAIN fields \cap {"owner", "seats", "reviewer"} THEN fields[k]
    ELSE IF k \in DOMAIN fields \cap {"reqs"} THEN {Entered(r) : r \in fields[k]} ELSE o[k]]

FieldsApplied(w, kind, o, fields) ==
  LET now == Arranged(Object(w, kind, o), fields)
      later == [now EXCEPT !.revision = @ + 1]
  IN IF kind = "plan" THEN [w EXCEPT !.plans[o] = later]
     ELSE [w EXCEPT !.tasks[o] =
             IF now.status = "delivered" THEN [later EXCEPT !.status = "rework"] ELSE later]

UpdateDraft(w, v, u, kind, o, version, fields) ==
  /\ MayEditDraft(w, u, kind, o) /\ Object(w, kind, o).revision = version
  /\ v = [FieldsApplied(w, kind, o, fields) EXCEPT !.proposals = Withdrawn(w, {<<kind, o>>})]

DiscardWork(w, v, u, kind, o, review) ==
  LET tasks == IF kind = "plan" THEN {t \in DOMAIN w.tasks : w.tasks[t].plan = o} ELSE {o}
      gone(x) == [x EXCEPT !.discarded = TRUE, !.revision = @ + 1]
  IN /\ MayEditDraft(w, u, kind, o)
     /\ DiscardReview(w, kind, o) = review /\ review.blockers = {}
     /\ v = [w EXCEPT
          !.plans = IF kind = "plan" THEN [w.plans EXCEPT ![o] = gone(@)] ELSE @,
          !.tasks = [t \in DOMAIN @ |-> IF t \in tasks THEN gone(@[t]) ELSE @[t]],
          !.proposals = Withdrawn(w, {<<kind, o>>} \cup {<<"task", t>> : t \in tasks})]

---------------------------------------------------------------------------
(* Exceptions.  The requirements of every task are worked out again from what was written: a   *)
(* waived requirement on a skipped task is replaced by the hard requirements of that task.     *)

Written(w) == [t \in DOMAIN w.tasks |-> {Plain(r) : r \in {q \in w.tasks[t].reqs : q.from = None}}]
Waives(skip, c, r) == <<c, r>> \in skip.waivers

\* A requirement released by the exception of the task it waits for.
Excepted(w, c, r) ==
  /\ r.kind = "task" /\ r.hard /\ r.ref \in DOMAIN w.tasks
  /\ w.tasks[r.ref].skip # None /\ Waives(w.tasks[r.ref].skip, c, r)

\* What takes the place of the released requirement r.
Inherited(e, r) ==
  [id |-> e.id, kind |-> e.kind, ref |-> e.ref, at |-> r.at, hard |-> e.hard,
   waived |-> e.waived, from |-> r.ref]

\* Mutant of the expansion: a skipped task behind a skipped task releases all that is behind both.
ExpandOnce(w, raw, c, r, seen) ==
  IF Excepted(w, c, r)
  THEN {[r EXCEPT !.waived = TRUE]} \cup
       {Inherited(q, r) : q \in {e \in raw[r.ref] : e.hard /\ e.kind # "task"}}
  ELSE {r}

\* r and what it stands for, given what the requirements of other tasks stand for.
Unfolded(w, raw, c, r, seen, deeper) ==
  IF Excepted(w, c, r)
  THEN {[r EXCEPT !.waived = TRUE]} \cup
       (IF r.ref \in seen THEN {}
        ELSE UNION {{Inherited(e, r) : e \in deeper[<<r.ref, up, seen \cup {r.ref}>>]} :
                     up \in {b \in raw[r.ref] : b.hard}})
  ELSE {r}

\* seen are the tasks already expanded on the way.
Expand(w, raw, c, r, seen) ==
  LET Tasks == DOMAIN w.tasks
      Reqs == UNION {raw[t] : t \in Tasks}
      expanded[x \in Tasks \X Reqs \X SUBSET Tasks] ==
        Unfolded(w, raw, x[1], x[2], x[3], expanded)
  IN Unfolded(w, raw, c, r, seen, expanded)

Effective(w) ==
  [w EXCEPT !.tasks = [t \in DOMAIN @ |->
    [@[t] EXCEPT !.reqs = UNION {Expand(w, Written(w), t, r, {t}) : r \in Written(w)[t]}]]]

Waivable(review) == UNION {{<<a.task, r>> : r \in {q \in a.reqs : q.hard}} : a \in review.affected}
\* Mutant of an exception: the conditions stay as an earlier exception left them.
TaskExceptionAlone(w, t, skip) ==
  LET n == [w EXCEPT !.tasks[t].skip = skip, !.tasks[t].revision = @ + 1]
  IN IF skip = None THEN n ELSE Effective(n)

TaskException(w, t, skip) ==
  Effective([w EXCEPT !.tasks[t].skip = skip, !.tasks[t].revision = @ + 1])

SkipTask(w, v, u, t, review, waivers) ==
  /\ MaySkip(w, u, t) /\ ExecutionReview(w, t) = review
  /\ waivers \subseteq Waivable(review)
  /\ v = TaskException(w, t, [was |-> Standing(w.tasks[t]), waivers |-> waivers])

RestoreTask(w, v, u, t, review, acknowledged) ==
  /\ MayRestore(w, u, t) /\ ExecutionReview(w, t) = review
  /\ acknowledged \/ \A a \in review.affected : a.status \notin Begun
  /\ v = TaskException(w, t, None)
=============================================================================
