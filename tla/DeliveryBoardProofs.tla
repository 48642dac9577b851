------------------------- MODULE DeliveryBoardProofs -------------------------
(***************************************************************************)
(* Proofs about DeliveryBoard for every stored state the store may be      *)
(* loaded with, every number of tasks, hand-offs and people.               *)
(*                                                                         *)
(* A command writes a whole new state, so what it leaves alone has to be   *)
(* proved as much as what it changes.  Kept(w, v) is what every command    *)
(* does to a stored state, one lemma per command says so, and the          *)
(* invariant and the action properties follow from these lemmas.           *)
(***************************************************************************)
EXTENDS DeliveryBoard, TLAPS

\* No task is lost, the conditions of a task stay, and a task that has its revision has its files.
TasksKept(w, v) ==
  /\ DOMAIN v.tasks = DOMAIN w.tasks
  /\ \A t \in DOMAIN w.tasks :
       /\ v.tasks[t].reqs = w.tasks[t].reqs
       /\ v.tasks[t].revision >= w.tasks[t].revision
       /\ v.tasks[t].revision = w.tasks[t].revision => v.tasks[t].files = w.tasks[t].files

\* Hand-off h became g: an accepted source stays, any other version that was sent or decided is on
\* record, a received hand-off stays received, and one that is not stale any more follows the
\* version of the flow.
HandoffKept(h, g, version) ==
  /\ DOMAIN g.sources = DOMAIN h.sources
  /\ h.history \subseteq g.history
  /\ \A x \in DOMAIN h.sources :
       /\ h.sources[x].status = "accepted" => g.sources[x] = h.sources[x]
       /\ h.sources[x].status # "draft" /\ g.sources[x] # h.sources[x]
            => [source |-> x, was |-> h.sources[x]] \in g.history
  /\ Received(h) => Received(g)
  /\ \/ g.flowVersion = version
     \/ g.flowVersion = h.flowVersion /\ (h.stale => g.stale)

\* No hand-off is lost, a new one is made under the present version of the flow, which only grows.
HandoffsKept(w, v) ==
  /\ DOMAIN w.handoffs \subseteq DOMAIN v.handoffs
  /\ \A h \in DOMAIN w.handoffs :
       HandoffKept(w.handoffs[h], v.handoffs[h], v.flows["delivery"].version)
  /\ \A h \in DOMAIN v.handoffs \ DOMAIN w.handoffs :
       v.handoffs[h].flowVersion = v.flows["delivery"].version
  /\ v.flows["delivery"].version >= w.flows["delivery"].version

\* What every command of the store does to a stored state w.
Kept(w, v) == Shaped(v) /\ TasksKept(w, v) /\ HandoffsKept(w, v)

\* No task is taken up or accepted, and none is taken back.
Unmoved(w, v) ==
  \A t \in DOMAIN w.tasks :
    /\ v.tasks[t].status = "working" => w.tasks[t].status = "working"
    /\ v.tasks[t].status = "accepted" <=> w.tasks[t].status = "accepted"

\* A task, and a hand-off, as Shaped has them.
TaskShape(t) ==
  /\ {"status", "revision", "files", "reqs"} \subseteq DOMAIN t
  /\ t.revision \in Nat /\ t.files \in Nat

\* All hand-offs are kept when a command writes tasks only.
LEMMA SameHandoffs ==
  ASSUME NEW w, NEW v, Shaped(w), v.handoffs = w.handoffs, v.flows = w.flows
  PROVE  HandoffsKept(w, v)
  BY DEF HandoffsKept, HandoffKept, Shaped

\* Writing one task, with its conditions and with a later revision when its files change.
LEMMA TaskWritten ==
  ASSUME NEW w, NEW v, NEW t, NEW e, Shaped(w), t \in DOMAIN w.tasks,
         {"tasks", "handoffs", "flows"} \subseteq DOMAIN v,
         v.handoffs = w.handoffs, v.flows = w.flows, v.tasks = [w.tasks EXCEPT ![t] = e],
         TaskShape(e), e.reqs = w.tasks[t].reqs, e.revision >= w.tasks[t].revision,
         e.revision = w.tasks[t].revision => e.files = w.tasks[t].files
  PROVE  /\ Kept(w, v)
         /\ \A k \in DOMAIN w.tasks : k # t => v.tasks[k] = w.tasks[k]
         /\ v.tasks[t] = e
<1>1. /\ DOMAIN v.tasks = DOMAIN w.tasks
      /\ \A k \in DOMAIN w.tasks : k # t => v.tasks[k] = w.tasks[k]
      /\ v.tasks[t] = e
  OBVIOUS
<1>2. Shaped(v) /\ TasksKept(w, v)
  BY <1>1 DEF Shaped, TasksKept, TaskShape
<1>3. QED BY <1>1, <1>2, SameHandoffs DEF Kept

\* The main topics that are made up for plans (EnsureMainTopics) change topics and plans only.
LEMMA MainTopics ==
  ASSUME NEW w, Shaped(w)
  PROVE  LET v == EnsureMainTopics(w)
         IN DOMAIN v = DOMAIN w /\ v.tasks = w.tasks /\ v.handoffs = w.handoffs /\ v.flows = w.flows
  BY DEF EnsureMainTopics, Shaped

\* The record of a hand-in (WorkSubmitted) changes no task and no hand-off.
LEMMA Submitted ==
  ASSUME NEW w, Shaped(w), NEW t, NEW source
  PROVE  LET v == WorkSubmitted(w, t, source)
         IN DOMAIN v = DOMAIN w /\ v.tasks = w.tasks /\ v.handoffs = w.handoffs /\ v.flows = w.flows
<1> DEFINE m == EnsureMainTopics(w)
<1>1. DOMAIN m = DOMAIN w /\ m.tasks = w.tasks /\ m.handoffs = w.handoffs /\ m.flows = w.flows
  BY MainTopics
<1> HIDE DEF m
<1> SUFFICES WorkSubmitted(w, t, source) =
               IF source \in DOMAIN w.activities THEN w
               ELSE [m EXCEPT !.activities = Put(m.activities, source, Activity(t, "delivery", {}))]
  BY <1>1 DEF Shaped
<1> QED BY DEF WorkSubmitted, m

\* The same for an activity.
LEMMA Recording ==
  ASSUME NEW w, Shaped(w), NEW ids, NEW t, NEW kind, NEW topics
  PROVE  LET v == Recorded(w, ids, t, kind, topics)
         IN DOMAIN v = DOMAIN w /\ v.tasks = w.tasks /\ v.handoffs = w.handoffs /\ v.flows = w.flows
<1> DEFINE m == EnsureMainTopics(w)
<1>1. DOMAIN m = DOMAIN w /\ m.tasks = w.tasks /\ m.handoffs = w.handoffs /\ m.flows = w.flows
  BY MainTopics
<1> HIDE DEF m
<1> DEFINE put == Put(m.activities, Fresh(ids, m.activities), Activity(t, kind, topics))
<1>2. Recorded(w, ids, t, kind, topics) = [m EXCEPT !.activities = put]
  BY DEF Recorded, m
<1> HIDE DEF put
<1> QED BY <1>1, <1>2 DEF Shaped

\* A task moved to another status gets a new revision and keeps its files (taskAction).
LEMMA MovedTask ==
  ASSUME NEW w, NEW t, NEW s, Shaped(w), t \in DOMAIN w.tasks
  PROVE  LET v == Moved(w, t, s)
         IN /\ Kept(w, v)
            /\ v.handoffs = w.handoffs /\ v.flows = w.flows
            /\ \A k \in DOMAIN w.tasks : k # t => v.tasks[k] = w.tasks[k]
            /\ v.tasks[t].status = s /\ v.tasks[t].files = w.tasks[t].files
            /\ v.tasks[t].revision = w.tasks[t].revision + 1
            /\ DOMAIN v = DOMAIN w
<1> DEFINE v == Moved(w, t, s)
           n == w.tasks[t].revision + 1
           e == [w.tasks[t] EXCEPT !.status = s, !.revision = n]
<1>1. v = [w EXCEPT !.tasks = [w.tasks EXCEPT ![t] = e]]
  BY DEF Moved, Shaped
<1>2. /\ TaskShape(e) /\ e.status = s /\ e.reqs = w.tasks[t].reqs
      /\ e.files = w.tasks[t].files /\ e.revision = n /\ n > w.tasks[t].revision
  BY DEF TaskShape, Shaped
<1> HIDE DEF e
<1>3. /\ DOMAIN v = DOMAIN w
      /\ v.handoffs = w.handoffs /\ v.flows = w.flows /\ v.tasks = [w.tasks EXCEPT ![t] = e]
  BY <1>1 DEF Shaped
<1> HIDE DEF v
<1>5. /\ e.revision >= w.tasks[t].revision
      /\ e.revision = w.tasks[t].revision => e.files = w.tasks[t].files
  BY <1>2 DEF TaskShape, Shaped
<1>4. {"tasks", "handoffs", "flows"} \subseteq DOMAIN v
  BY <1>3 DEF Shaped
<1>6. /\ Kept(w, v)
      /\ \A k \in DOMAIN w.tasks : k # t => v.tasks[k] = w.tasks[k]
      /\ v.tasks[t] = e
  BY <1>2, <1>3, <1>4, <1>5, TaskWritten
<1> QED BY <1>2, <1>3, <1>6 DEF v

HandoffShape(h, tasks) ==
  /\ {"sources", "history", "stale", "flow", "flowVersion"} \subseteq DOMAIN h
  /\ h.flow = "delivery" /\ h.flowVersion \in Nat /\ h.stale \in BOOLEAN
  /\ DOMAIN h.sources # {}
  /\ \A x \in DOMAIN h.sources :
       /\ {"task", "status", "revision", "sentBy", "decidedBy", "files"}
            \subseteq DOMAIN h.sources[x]
       /\ h.sources[x].task \in DOMAIN tasks

\* A task that takes no part in what is done, or changes as TasksKept allows.
TaskLike(old, new) ==
  /\ TaskShape(new) /\ new.reqs = old.reqs /\ new.revision >= old.revision
  /\ new.revision = old.revision => new.files = old.files

\* v is w with hand-off h made g and task t made e.
Wrote(w, v, h, g, t, e) ==
  /\ {"tasks", "handoffs", "flows"} \subseteq DOMAIN v /\ v.flows = w.flows
  /\ DOMAIN v.handoffs = DOMAIN w.handoffs /\ v.handoffs[h] = g
  /\ \A k \in DOMAIN w.handoffs : k # h => v.handoffs[k] = w.handoffs[k]
  /\ DOMAIN v.tasks = DOMAIN w.tasks
  /\ \A k \in DOMAIN w.tasks : k # t => v.tasks[k] = w.tasks[k]
  /\ t \in DOMAIN w.tasks => v.tasks[t] = e /\ TaskLike(w.tasks[t], e)

\* Writing one hand-off and one task.
LEMMA HandoffWritten ==
  ASSUME NEW w, NEW v, NEW h, NEW g, NEW t, NEW e, Shaped(w), h \in DOMAIN w.handoffs,
         Wrote(w, v, h, g, t, e),
         HandoffShape(g, w.tasks), HandoffKept(w.handoffs[h], g, w.flows["delivery"].version)
  PROVE  Kept(w, v)
<1> USE DEF Wrote
<1>1. Shaped(v)
  BY DEF Shaped, TaskShape, HandoffShape, TaskLike
<1>2. TasksKept(w, v)
  BY DEF TasksKept, TaskLike, Shaped
<1>3. \A k \in DOMAIN w.handoffs :
        HandoffKept(w.handoffs[k], v.handoffs[k], v.flows["delivery"].version)
  BY DEF HandoffKept
<1>4. HandoffsKept(w, v)
  BY <1>3 DEF HandoffsKept, Shaped
<1> QED BY <1>1, <1>2, <1>4 DEF Kept

\* A source that was not accepted is replaced: its version goes on record.
LEMMA SourceReplaced ==
  ASSUME NEW h, NEW x, NEW s, NEW version, NEW tasks,
         HandoffShape(h, tasks), x \in DOMAIN h.sources,
         {"task", "status", "revision", "sentBy", "decidedBy", "files"} \subseteq DOMAIN s,
         s.task = h.sources[x].task,
         h.sources[x].status # "accepted"
  PROVE  LET g == Replaced(h, x, s)
         IN HandoffShape(g, tasks) /\ HandoffKept(h, g, version)
<1> DEFINE entry == [source |-> x, was |-> h.sources[x]]
           log == h.history \cup {entry}
           sources == [h.sources EXCEPT ![x] = s]
           g == [h EXCEPT !.sources = sources, !.history = log]
<1>1. Replaced(h, x, s) = g
  BY DEF Replaced, HandoffShape
<1>2. /\ DOMAIN sources = DOMAIN h.sources
      /\ sources[x] = s
      /\ \A y \in DOMAIN h.sources : y # x => sources[y] = h.sources[y]
  OBVIOUS
<1>3. h.history \subseteq log /\ [source |-> x, was |-> h.sources[x]] \in log
  OBVIOUS
<1> HIDE DEF log, sources
<1>4. /\ g.sources = sources /\ g.history = log /\ g.flow = h.flow /\ g.stale = h.stale
      /\ g.flowVersion = h.flowVersion /\ DOMAIN g = DOMAIN h
  BY DEF HandoffShape
<1> HIDE DEF g
<1>5. HandoffShape(g, tasks)
  BY <1>2, <1>4 DEF HandoffShape
<1>6. HandoffKept(h, g, version)
  <2>1. ~Received(h)
    BY DEF Received
  <2>2. ASSUME NEW y \in DOMAIN h.sources
        PROVE  /\ h.sources[y].status = "accepted" => g.sources[y] = h.sources[y]
               /\ h.sources[y].status # "draft" /\ g.sources[y] # h.sources[y]
                    => [source |-> y, was |-> h.sources[y]] \in g.history
    BY <1>2, <1>3, <1>4
  <2> QED BY <1>2, <1>3, <1>4, <2>1, <2>2 DEF HandoffKept
<1> QED BY <1>1, <1>5, <1>6

\* A decision on a source (sourceDecision); a rejection sends the task back unless it was accepted.
LEMMA Decided ==
  ASSUME NEW w, NEW v, NEW u, NEW h, NEW x, NEW revision, NEW decision, Shaped(w),
         h \in DOMAIN w.handoffs, x \in DOMAIN w.handoffs[h].sources,
         SourceDecision(w, v, u, h, x, revision, decision)
  PROVE  Kept(w, v) /\ Unmoved(w, v)
<1> DEFINE s == w.handoffs[h].sources[x]
           k == s.task
           new == [s EXCEPT !.status = decision, !.decidedBy = u]
           g == Replaced(w.handoffs[h], x, new)
           status == IF decision = "rejected" /\ w.tasks[k].status # "accepted"
                     THEN "rework" ELSE w.tasks[k].status
           e == [w.tasks[k] EXCEPT !.status = status]
           handoffs == [w.handoffs EXCEPT ![h] = g]
           tasks == [w.tasks EXCEPT ![k] = e]
<1>1. HandoffShape(w.handoffs[h], w.tasks)
  BY DEF Shaped, HandoffShape
<1>2. s.status = "pending"
  BY DEF SourceDecision
<1>3. /\ {"task", "status", "revision", "sentBy", "decidedBy", "files"} \subseteq DOMAIN new
      /\ new.task = s.task
  BY DEF Shaped
<1>4. HandoffShape(g, w.tasks) /\ HandoffKept(w.handoffs[h], g, w.flows["delivery"].version)
  BY <1>1, <1>2, <1>3, SourceReplaced
<1>5. v = [w EXCEPT !.handoffs = handoffs, !.tasks = tasks]
  BY DEF SourceDecision, Shaped
<1>6. k \in DOMAIN w.tasks => TaskLike(w.tasks[k], e)
  BY DEF Shaped, TaskLike, TaskShape
<1>7. k \in DOMAIN w.tasks =>
        /\ e.status \in {"rework", w.tasks[k].status}
        /\ w.tasks[k].status = "accepted" => e.status = "accepted"
  BY DEF Shaped
<1> HIDE DEF g, e
<1>8. {"tasks", "handoffs", "flows"} \subseteq DOMAIN v /\ v.handoffs = handoffs /\ v.tasks = tasks
      /\ v.flows = w.flows
  BY <1>5 DEF Shaped
<1> HIDE DEF k
<1>9. /\ DOMAIN v.handoffs = DOMAIN w.handoffs /\ v.handoffs[h] = g
      /\ \A i \in DOMAIN w.handoffs : i # h => v.handoffs[i] = w.handoffs[i]
  BY <1>8
<1>10. /\ DOMAIN v.tasks = DOMAIN w.tasks
       /\ \A t \in DOMAIN w.tasks : t # k => v.tasks[t] = w.tasks[t]
       /\ k \in DOMAIN w.tasks => v.tasks[k] = e
  BY <1>8
<1>11. Wrote(w, v, h, g, k, e)
  BY <1>6, <1>8, <1>9, <1>10 DEF Wrote
<1>13. Kept(w, v)
  BY <1>4, <1>11, HandoffWritten
<1>12. Unmoved(w, v)
  BY <1>7, <1>10 DEF Unmoved
<1> QED BY <1>12, <1>13

\* A revised source (reviseSource), which hands its task in again.
LEMMA Revised ==
  ASSUME NEW w, NEW v, NEW u, NEW h, NEW x, NEW revision, NEW files \in Nat, Shaped(w),
         h \in DOMAIN w.handoffs, x \in DOMAIN w.handoffs[h].sources,
         ReviseSource(w, v, u, h, x, revision, files)
  PROVE  Kept(w, v) /\ Unmoved(w, v)
<1> DEFINE s == w.handoffs[h].sources[x]
           k == s.task
           base == WorkSubmitted(w, k, <<"source", x, revision + 1>>)
           new == [s EXCEPT !.revision = s.revision + 1, !.files = s.files + files,
                            !.status = "draft", !.sentBy = None, !.decidedBy = None]
           g == Replaced(w.handoffs[h], x, new)
<1>1. HandoffShape(w.handoffs[h], w.tasks)
  BY DEF Shaped, HandoffShape
<1>2. s.status \in {"rejected", "draft"} /\ w.tasks[k].status # "accepted"
  BY DEF ReviseSource
<1>3. /\ {"task", "status", "revision", "sentBy", "decidedBy", "files"} \subseteq DOMAIN new
      /\ new.task = s.task
  BY DEF Shaped
<1>4. HandoffShape(g, w.tasks) /\ HandoffKept(w.handoffs[h], g, w.flows["delivery"].version)
  BY <1>1, <1>2, <1>3, SourceReplaced
<1>b. /\ DOMAIN base = DOMAIN w /\ base.tasks = w.tasks /\ base.handoffs = w.handoffs
      /\ base.flows = w.flows
  BY Submitted
<1>t. k \in DOMAIN w.tasks /\ TaskShape(w.tasks[k])
  BY DEF Shaped, TaskShape
<1>n. w.tasks[k].revision \in Nat /\ w.tasks[k].files \in Nat
  BY <1>t DEF TaskShape
<1> HIDE DEF k
<1>7. PICK n \in Nat : n = w.tasks[k].revision + 1
  BY <1>n
<1>8. PICK m \in Nat : m = w.tasks[k].files + files
  BY <1>n
<1> USE DEF k
<1>s. PICK a : a = Replaced(base.handoffs[h], x, new)
  OBVIOUS
<1>f. v = [base EXCEPT !.handoffs[h] = a,
                       !.tasks[k].files = base.tasks[k].files + files,
                       !.tasks[k].revision = base.tasks[k].revision + 1,
                       !.tasks[k].status = "delivered"]
  BY <1>s DEF ReviseSource
<1>5. v = [base EXCEPT !.handoffs[h] = a, !.tasks[k].files = m, !.tasks[k].revision = n,
                       !.tasks[k].status = "delivered"]
  BY <1>f, <1>7, <1>8, <1>b
<1> HIDE DEF base, new, k
<1> DEFINE b1 == [base EXCEPT !.handoffs[h] = a]
           b2 == [b1 EXCEPT !.tasks[k].files = m]
           b3 == [b2 EXCEPT !.tasks[k].revision = n]
<1>6. /\ DOMAIN b1 = DOMAIN w /\ b1.handoffs = [w.handoffs EXCEPT ![h] = g]
      /\ b1.tasks = w.tasks /\ b1.flows = w.flows
  BY <1>b, <1>s DEF Shaped
<1> HIDE DEF g
<1>10. v = [b3 EXCEPT !.tasks[k].status = "delivered"]
  BY <1>5
<1> HIDE DEF b1
<1>9. /\ DOMAIN b2 = DOMAIN w /\ b2.handoffs = b1.handoffs /\ b2.flows = w.flows
      /\ b2.tasks = [w.tasks EXCEPT ![k].files = m]
  BY <1>6 DEF Shaped
<1> HIDE DEF b2
<1>11. /\ DOMAIN b3 = DOMAIN w /\ b3.handoffs = b1.handoffs /\ b3.flows = w.flows
       /\ b3.tasks = [b2.tasks EXCEPT ![k].revision = n]
  BY <1>9 DEF Shaped
<1> HIDE DEF b3
<1>12. /\ DOMAIN v = DOMAIN w /\ v.handoffs = b1.handoffs /\ v.flows = w.flows
       /\ v.tasks = [b3.tasks EXCEPT ![k].status = "delivered"]
  BY <1>10, <1>11 DEF Shaped
<1> DEFINE e == v.tasks[k]
<1>13. /\ DOMAIN v.tasks = DOMAIN w.tasks
       /\ \A t \in DOMAIN w.tasks : t # k => v.tasks[t] = w.tasks[t]
       /\ DOMAIN e = DOMAIN w.tasks[k] /\ e.reqs = w.tasks[k].reqs
       /\ e.revision = n /\ e.files = m /\ e.status = "delivered"
  BY <1>9, <1>11, <1>12, <1>t DEF TaskShape
<1> HIDE DEF e
<1>14. TaskLike(w.tasks[k], e)
  BY <1>7, <1>8, <1>13, <1>t DEF TaskLike, TaskShape
<1>15. /\ DOMAIN v.handoffs = DOMAIN w.handoffs /\ v.handoffs[h] = g
       /\ \A i \in DOMAIN w.handoffs : i # h => v.handoffs[i] = w.handoffs[i]
  BY <1>6, <1>12
<1>16. Wrote(w, v, h, g, k, e)
  BY <1>12, <1>13, <1>14, <1>15 DEF Wrote, e, Shaped
<1>17. Kept(w, v)
  BY <1>4, <1>16, HandoffWritten
<1>18. Unmoved(w, v)
  BY <1>2, <1>13 DEF Unmoved, e
<1> QED BY <1>17, <1>18

\* A draft source sent to its receiver (sendSource).
LEMMA Sent ==
  ASSUME NEW w, NEW v, NEW u, NEW h, NEW x, NEW revision, Shaped(w),
         h \in DOMAIN w.handoffs, x \in DOMAIN w.handoffs[h].sources,
         SendSource(w, v, u, h, x, revision)
  PROVE  Kept(w, v) /\ Unmoved(w, v)
<1> DEFINE old == w.handoffs[h]
           s == old.sources[x]
           new == [s EXCEPT !.status = "pending", !.sentBy = u]
           sources == [old.sources EXCEPT ![x] = new]
           g == [old EXCEPT !.sources = sources]
<1>1. s.status = "draft" /\ HandoffShape(old, w.tasks)
  BY DEF SendSource, Shaped, HandoffShape
<1>2. /\ {"task", "status", "revision", "sentBy", "decidedBy", "files"} \subseteq DOMAIN new
      /\ new.task = s.task
  BY DEF Shaped
<1>3. v = [w EXCEPT !.handoffs = [w.handoffs EXCEPT ![h] = g]]
  BY DEF SendSource, Shaped
<1> HIDE DEF new
<1>4. /\ DOMAIN sources = DOMAIN old.sources /\ sources[x] = new
      /\ \A y \in DOMAIN old.sources : y # x => sources[y] = old.sources[y]
  OBVIOUS
<1> HIDE DEF sources
<1>5. /\ DOMAIN g = DOMAIN old /\ g.sources = sources /\ g.history = old.history
      /\ g.flow = old.flow /\ g.stale = old.stale /\ g.flowVersion = old.flowVersion
  BY <1>1 DEF HandoffShape
<1> HIDE DEF g
<1>6. HandoffShape(g, w.tasks)
  BY <1>1, <1>2, <1>4, <1>5 DEF HandoffShape
<1>7. ~Received(old)
  BY <1>1 DEF Received
<1>8. HandoffKept(old, g, w.flows["delivery"].version)
  BY <1>1, <1>4, <1>5, <1>7 DEF HandoffKept
<1>9. /\ {"tasks", "handoffs", "flows"} \subseteq DOMAIN v /\ v.tasks = w.tasks /\ v.flows = w.flows
      /\ v.handoffs = [w.handoffs EXCEPT ![h] = g]
  BY <1>3 DEF Shaped
<1>10. PICK t : t \notin DOMAIN w.tasks
  BY NoSetContainsEverything
<1>11. Wrote(w, v, h, g, t, None)
  BY <1>9, <1>10 DEF Wrote
<1>12. Kept(w, v)
  BY <1>6, <1>8, <1>11, HandoffWritten
<1>13. Unmoved(w, v)
  BY <1>9 DEF Unmoved
<1> QED BY <1>12, <1>13

\* A stale hand-off refreshed (refreshHandoff): it follows the present version of the flow, and what
\* was pending is on record and a draft again.
LEMMA Refreshed ==
  ASSUME NEW w, NEW v, NEW u, NEW h, Shaped(w), h \in DOMAIN w.handoffs, RefreshHandoff(w, v, u, h)
  PROVE  Kept(w, v) /\ Unmoved(w, v)
<1> DEFINE old == w.handoffs[h]
           version == w.flows[old.flow].version
           unsent == {x \in DOMAIN old.sources : old.sources[x].status = "pending"}
           log == old.history \cup {[source |-> x, was |-> old.sources[x]] : x \in unsent}
           sources == [x \in DOMAIN old.sources |->
                         IF x \in unsent THEN Unsent(old.sources[x]) ELSE old.sources[x]]
           g == [old EXCEPT !.flowVersion = version, !.stale = FALSE, !.history = log,
                            !.sources = sources]
<1>1. old.stale /\ HandoffShape(old, w.tasks) /\ version = w.flows["delivery"].version
      /\ version \in Nat
  BY DEF RefreshHandoff, Shaped, HandoffShape
<1>2. v = [w EXCEPT !.handoffs[h] = g]
  BY DEF RefreshHandoff
<1>3. ASSUME NEW x \in DOMAIN old.sources
      PROVE  /\ DOMAIN sources = DOMAIN old.sources
             /\ x \notin unsent => sources[x] = old.sources[x]
             /\ x \in unsent => /\ old.sources[x].status = "pending"
                                /\ [source |-> x, was |-> old.sources[x]] \in log
             /\ DOMAIN sources[x] = DOMAIN old.sources[x] /\ sources[x].task = old.sources[x].task
  <2>1. DOMAIN sources = DOMAIN old.sources
    OBVIOUS
  <2>2. x \notin unsent => sources[x] = old.sources[x]
    OBVIOUS
  <2>3. x \in unsent => /\ old.sources[x].status = "pending"
                        /\ [source |-> x, was |-> old.sources[x]] \in log
    OBVIOUS
  <2>4. {"task", "status", "revision", "sentBy", "decidedBy", "files"}
          \subseteq DOMAIN old.sources[x]
    BY DEF Shaped
  <2>5. DOMAIN sources[x] = DOMAIN old.sources[x] /\ sources[x].task = old.sources[x].task
    <3>1. DOMAIN Unsent(old.sources[x]) = DOMAIN old.sources[x]
          /\ Unsent(old.sources[x]).task = old.sources[x].task
      BY <2>4 DEF Unsent
    <3> HIDE DEF unsent
    <3> QED BY <3>1
  <2> QED BY <2>1, <2>2, <2>3, <2>5
<1>4. old.history \subseteq log
  OBVIOUS
<1> HIDE DEF log, sources, version
<1>5. /\ DOMAIN g = DOMAIN old /\ g.sources = sources /\ g.history = log /\ g.flow = old.flow
      /\ g.stale = FALSE /\ g.flowVersion = version
  BY <1>1 DEF HandoffShape
<1>6. v.handoffs = [w.handoffs EXCEPT ![h] = g] /\ DOMAIN v = DOMAIN w /\ v.tasks = w.tasks
      /\ v.flows = w.flows
  BY <1>2 DEF Shaped
<1> HIDE DEF g, unsent
<1>7. HandoffShape(g, w.tasks)
  BY <1>1, <1>3, <1>5 DEF HandoffShape
<1>8. HandoffKept(old, g, w.flows["delivery"].version)
  <2>1. ~Received(old)
    BY <1>1 DEF Received
  <2>2. DOMAIN sources = DOMAIN old.sources
    BY <1>1, <1>3 DEF HandoffShape
  <2>3. ASSUME NEW x \in DOMAIN old.sources
        PROVE  /\ old.sources[x].status = "accepted" => g.sources[x] = old.sources[x]
               /\ old.sources[x].status # "draft" /\ g.sources[x] # old.sources[x]
                    => [source |-> x, was |-> old.sources[x]] \in g.history
    BY <1>3, <1>5
  <2> QED BY <1>1, <1>4, <1>5, <2>1, <2>2, <2>3 DEF HandoffKept
<1>9. PICK t : t \notin DOMAIN w.tasks
  BY NoSetContainsEverything
<1>10. Wrote(w, v, h, g, t, None)
  BY <1>6, <1>9 DEF Wrote, Shaped
<1>11. Kept(w, v)
  BY <1>7, <1>8, <1>10, HandoffWritten
<1>12. Unmoved(w, v)
  BY <1>6 DEF Unmoved
<1> QED BY <1>11, <1>12

\* A published flow; a material one leaves every hand-off stale that is not received in full.
LEMMA Published ==
  ASSUME NEW w, NEW v, NEW u, NEW version, NEW isMaterial \in BOOLEAN, Shaped(w),
         PublishFlow(w, v, u, version, isMaterial)
  PROVE  /\ Kept(w, v) /\ Unmoved(w, v)
         /\ isMaterial =>
              \A h \in DOMAIN v.handoffs : v.handoffs[h].stale \/ Received(v.handoffs[h])
<1> DEFINE open(h) == \E x \in DOMAIN h.sources : h.sources[x].status # "accepted"
           made(h) == IF isMaterial /\ open(h) THEN [h EXCEPT !.stale = TRUE] ELSE h
           handoffs == [h \in DOMAIN w.handoffs |-> made(w.handoffs[h])]
<1>1. PICK n \in Nat : n = w.flows["delivery"].version + 1
  BY DEF Shaped
<1>2. v = [w EXCEPT !.flows["delivery"].version = n, !.handoffs = handoffs]
  BY <1>1 DEF PublishFlow
<1>3. ASSUME NEW h \in DOMAIN w.handoffs
      PROVE  LET g == made(w.handoffs[h])
             IN /\ HandoffShape(g, w.tasks) /\ HandoffKept(w.handoffs[h], g, n)
                /\ isMaterial => g.stale \/ Received(g)
  <2> DEFINE old == w.handoffs[h]
             g == made(old)
  <2>1. HandoffShape(old, w.tasks)
    BY DEF Shaped, HandoffShape
  <2>2. CASE isMaterial /\ open(old)
    <3>1. g = [old EXCEPT !.stale = TRUE]
      BY <2>2
    <3>2. ~Received(old)
      BY <2>2 DEF Received
    <3> HIDE DEF g, old, open
    <3>3. /\ DOMAIN g = DOMAIN old /\ g.sources = old.sources /\ g.history = old.history
          /\ g.flow = old.flow /\ g.stale = TRUE /\ g.flowVersion = old.flowVersion
      BY <2>1, <3>1 DEF HandoffShape
    <3>4. HandoffShape(g, w.tasks)
      BY <2>1, <3>3 DEF HandoffShape
    <3>5. HandoffKept(old, g, n)
      BY <3>2, <3>3 DEF HandoffKept
    <3> QED BY <3>3, <3>4, <3>5 DEF g, old
  <2>3. CASE ~(isMaterial /\ open(old))
    <3>1. g = old
      BY <2>3
    <3>2. HandoffKept(old, g, n)
      BY <3>1 DEF HandoffKept
    <3>3. isMaterial => g.stale \/ Received(g)
      BY <2>1, <2>3, <3>1 DEF HandoffShape, Received
    <3> HIDE DEF g, old
    <3> QED BY <2>1, <3>1, <3>2, <3>3 DEF g, old
  <2> QED BY <2>2, <2>3
<1> HIDE DEF made
<1>4. /\ DOMAIN handoffs = DOMAIN w.handoffs
      /\ \A h \in DOMAIN w.handoffs : handoffs[h] = made(w.handoffs[h])
  OBVIOUS
<1> HIDE DEF handoffs
<1>5. /\ DOMAIN v = DOMAIN w /\ v.tasks = w.tasks /\ v.handoffs = handoffs
      /\ v.flows = [w.flows EXCEPT !["delivery"].version = n]
  BY <1>2 DEF Shaped
<1>6. DOMAIN v.flows = DOMAIN w.flows /\ DOMAIN v.flows["delivery"] = DOMAIN w.flows["delivery"]
      /\ v.flows["delivery"].version = n
  BY <1>5 DEF Shaped
<1>7. Shaped(v)
  <2>1. \A h \in DOMAIN v.handoffs : HandoffShape(v.handoffs[h], w.tasks)
    BY <1>3, <1>4, <1>5
  <2> QED BY <1>5, <1>6, <2>1 DEF Shaped, HandoffShape
<1>8. TasksKept(w, v) /\ Unmoved(w, v)
  BY <1>5 DEF TasksKept, Unmoved, Shaped
<1>9. HandoffsKept(w, v)
  BY <1>1, <1>3, <1>4, <1>5, <1>6 DEF HandoffsKept, Shaped
<1>10. isMaterial => \A h \in DOMAIN v.handoffs : v.handoffs[h].stale \/ Received(v.handoffs[h])
  BY <1>3, <1>4, <1>5
<1> QED BY <1>7, <1>8, <1>9, <1>10 DEF Kept

\* A new hand-off, from tasks there are, under the present version of the flow.
LEMMA Proposed ==
  ASSUME NEW w, NEW v, NEW u, NEW ids, NEW t, NEW receiver, NEW from, NEW kind, NEW senders,
         Shaped(w), from \subseteq DOMAIN w.tasks,
         ProposeHandoff(w, v, u, ids, t, receiver, from, kind, senders)
  PROVE  Kept(w, v) /\ Unmoved(w, v)
<1> DEFINE id == Fresh(ids, w.handoffs)
           source(s) == [task |-> s, sender |-> senders[s], revision |-> 1, status |-> "draft",
                         sentBy |-> None, decidedBy |-> None, files |-> w.tasks[s].files]
           g == [task |-> t, receiver |-> receiver, flow |-> "delivery", kind |-> kind,
                 flowVersion |-> w.flows["delivery"].version, stale |-> FALSE, history |-> {},
                 sources |-> [s \in from |-> source(s)]]
           handoffs == Put(w.handoffs, id, g)
<1>1. id \notin DOMAIN w.handoffs /\ from # {}
  BY DEF ProposeHandoff, HasRoom, Fresh
<1>2. v = [w EXCEPT !.handoffs = handoffs]
  BY DEF ProposeHandoff
<1>3. HandoffShape(g, w.tasks) /\ g.flowVersion = w.flows["delivery"].version
  <2>1. \A s \in from : /\ {"task", "status", "revision", "sentBy", "decidedBy", "files"}
                            \subseteq DOMAIN source(s)
                        /\ source(s).task = s
    OBVIOUS
  <2> HIDE DEF source
  <2> QED BY <1>1, <2>1 DEF HandoffShape, Shaped
<1> HIDE DEF g, id
<1>4. /\ DOMAIN handoffs = DOMAIN w.handoffs \cup {id} /\ handoffs[id] = g
      /\ \A h \in DOMAIN w.handoffs : handoffs[h] = w.handoffs[h]
  BY <1>1 DEF Put
<1> HIDE DEF handoffs
<1>5. DOMAIN v = DOMAIN w /\ v.tasks = w.tasks /\ v.flows = w.flows /\ v.handoffs = handoffs
  BY <1>2 DEF Shaped
<1>6. Shaped(v)
  BY <1>3, <1>4, <1>5 DEF Shaped, HandoffShape
<1>7. TasksKept(w, v) /\ Unmoved(w, v)
  BY <1>5 DEF TasksKept, Unmoved, Shaped
<1>8. HandoffsKept(w, v)
  BY <1>3, <1>4, <1>5 DEF HandoffsKept, HandoffKept, Shaped
<1> QED BY <1>6, <1>7, <1>8 DEF Kept

\* A report writes one task that is not accepted.
LEMMA Reported ==
  ASSUME NEW w, NEW v, NEW u, NEW t, Shaped(w), t \in DOMAIN w.tasks, ReportTask(w, v, u, t)
  PROVE  Kept(w, v) /\ Unmoved(w, v)
<1> DEFINE b == WorkSubmitted(w, t, <<"report", t, w.tasks[t].revision + 1>>)
           m == Moved(b, t, "delivered")
<1>1. DOMAIN b = DOMAIN w /\ b.tasks = w.tasks /\ b.handoffs = w.handoffs /\ b.flows = w.flows
  BY Submitted
<1>2. v = [m EXCEPT !.tasks[t].files = m.tasks[t].files + 1] /\ w.tasks[t].status # "accepted"
  BY DEF ReportTask
<1> HIDE DEF b
<1>3. Shaped(b)
  BY <1>1 DEF Shaped
<1>4. /\ Shaped(m) /\ TasksKept(b, m) /\ m.handoffs = b.handoffs /\ m.flows = b.flows
      /\ \A k \in DOMAIN b.tasks : k # t => m.tasks[k] = b.tasks[k]
      /\ m.tasks[t].status = "delivered" /\ m.tasks[t].files = b.tasks[t].files
      /\ m.tasks[t].revision = b.tasks[t].revision + 1 /\ DOMAIN m = DOMAIN b
  BY <1>1, <1>3, MovedTask DEF Kept
<1> HIDE DEF m
<1>5. PICK n \in Nat : n = m.tasks[t].files + 1
  BY <1>1, <1>4 DEF Shaped
<1>6. t \in DOMAIN m.tasks /\ DOMAIN m.tasks = DOMAIN w.tasks
  BY <1>1, <1>4 DEF TasksKept
<1>7. /\ DOMAIN v = DOMAIN w /\ v.handoffs = w.handoffs /\ v.flows = w.flows
      /\ v.tasks = [m.tasks EXCEPT ![t].files = n]
  BY <1>1, <1>2, <1>4, <1>5 DEF Shaped
<1> DEFINE e == v.tasks[t]
<1>8. /\ DOMAIN v.tasks = DOMAIN w.tasks
      /\ \A k \in DOMAIN w.tasks : k # t => v.tasks[k] = w.tasks[k]
      /\ DOMAIN e = DOMAIN m.tasks[t] /\ e.files = n /\ e.status = "delivered"
      /\ e.revision = w.tasks[t].revision + 1 /\ e.reqs = m.tasks[t].reqs
  BY <1>1, <1>4, <1>6, <1>7 DEF Shaped
<1> HIDE DEF e
<1>9. e.reqs = w.tasks[t].reqs
  BY <1>1, <1>4, <1>8 DEF TasksKept
<1>10. TaskShape(e) /\ e.revision > w.tasks[t].revision
  BY <1>4, <1>6, <1>8 DEF TaskShape, Shaped
<1>11. Shaped(v) /\ TasksKept(w, v)
  BY <1>7, <1>8, <1>9, <1>10 DEF Shaped, TasksKept, TaskShape, e
<1>12. HandoffsKept(w, v)
  BY <1>7, SameHandoffs
<1>13. Unmoved(w, v)
  BY <1>2, <1>8 DEF Unmoved, e
<1> QED BY <1>11, <1>12, <1>13 DEF Kept

\* The same for progress.
LEMMA Progressed ==
  ASSUME NEW w, NEW v, NEW u, NEW ids, NEW t, NEW version, NEW seat,
         Shaped(w), t \in DOMAIN w.tasks, RecordProgress(w, v, u, ids, t, version, seat)
  PROVE  Kept(w, v) /\ Unmoved(w, v)
<1> DEFINE r == Recorded(w, ids, t, "progress", {})
<1>1. DOMAIN r = DOMAIN w /\ r.tasks = w.tasks /\ r.handoffs = w.handoffs /\ r.flows = w.flows
  BY Recording
<1>2. v = [r EXCEPT !.tasks[t].revision = r.tasks[t].revision + 1]
  BY DEF RecordProgress
<1> HIDE DEF r
<1>3. PICK n \in Nat : n = w.tasks[t].revision + 1
  BY DEF Shaped
<1> DEFINE e == [w.tasks[t] EXCEPT !.revision = n]
<1>4. /\ DOMAIN v = DOMAIN w /\ v.handoffs = w.handoffs /\ v.flows = w.flows
      /\ v.tasks = [w.tasks EXCEPT ![t] = e]
  BY <1>1, <1>2, <1>3 DEF Shaped
<1>5. /\ TaskShape(e) /\ e.reqs = w.tasks[t].reqs /\ e.revision > w.tasks[t].revision
      /\ e.status = w.tasks[t].status
  BY <1>3 DEF TaskShape, Shaped
<1> HIDE DEF e
<1>6. {"tasks", "handoffs", "flows"} \subseteq DOMAIN v /\ e.revision >= w.tasks[t].revision
      /\ (e.revision = w.tasks[t].revision => e.files = w.tasks[t].files)
  BY <1>4, <1>5 DEF Shaped, TaskShape
<1>7. /\ Kept(w, v)
      /\ \A k \in DOMAIN w.tasks : k # t => v.tasks[k] = w.tasks[k]
      /\ v.tasks[t] = e
  BY <1>4, <1>5, <1>6, TaskWritten
<1> QED BY <1>5, <1>7 DEF Kept, Unmoved

\* The same for a delivery.
LEMMA Delivered ==
  ASSUME NEW w, NEW v, NEW u, NEW ids, NEW t, NEW version, NEW seat,
         Shaped(w), t \in DOMAIN w.tasks, RecordDelivery(w, v, u, ids, t, version, seat)
  PROVE  Kept(w, v) /\ Unmoved(w, v)
<1> DEFINE r == Recorded(w, ids, t, "delivery", {})
<1>1. DOMAIN r = DOMAIN w /\ r.tasks = w.tasks /\ r.handoffs = w.handoffs /\ r.flows = w.flows
  BY Recording
<1>2. v = [r EXCEPT !.tasks[t].status = "delivered",
                    !.tasks[t].revision = r.tasks[t].revision + 1,
                    !.tasks[t].files = r.tasks[t].files + 1]
      /\ w.tasks[t].status # "accepted"
  BY DEF RecordDelivery, MayRecord
<1> HIDE DEF r
<1>3. PICK n \in Nat : n = w.tasks[t].revision + 1
  BY DEF Shaped
<1>4. PICK m \in Nat : m = w.tasks[t].files + 1
  BY DEF Shaped
<1>5. v = [r EXCEPT !.tasks[t].status = "delivered", !.tasks[t].revision = n, !.tasks[t].files = m]
  BY <1>1, <1>2, <1>3, <1>4
<1> DEFINE r1 == [r EXCEPT !.tasks[t].status = "delivered"]
           r2 == [r1 EXCEPT !.tasks[t].revision = n]
<1>6. v = [r2 EXCEPT !.tasks[t].files = m]
  BY <1>5
<1>7. /\ DOMAIN r1 = DOMAIN w /\ r1.handoffs = w.handoffs /\ r1.flows = w.flows
      /\ r1.tasks = [w.tasks EXCEPT ![t].status = "delivered"]
  BY <1>1 DEF Shaped
<1> HIDE DEF r1
<1>8. /\ DOMAIN r2 = DOMAIN w /\ r2.handoffs = w.handoffs /\ r2.flows = w.flows
      /\ r2.tasks = [r1.tasks EXCEPT ![t].revision = n]
  BY <1>7 DEF Shaped
<1> HIDE DEF r2
<1>9. /\ DOMAIN v = DOMAIN w /\ v.handoffs = w.handoffs /\ v.flows = w.flows
      /\ v.tasks = [r2.tasks EXCEPT ![t].files = m]
  BY <1>6, <1>8 DEF Shaped
<1> DEFINE e == v.tasks[t]
<1>t. TaskShape(w.tasks[t])
  BY DEF TaskShape, Shaped
<1>10. /\ DOMAIN v.tasks = DOMAIN w.tasks
       /\ \A k \in DOMAIN w.tasks : k # t => v.tasks[k] = w.tasks[k]
       /\ DOMAIN e = DOMAIN w.tasks[t] /\ e.reqs = w.tasks[t].reqs
       /\ e.revision = n /\ e.files = m /\ e.status = "delivered"
  BY <1>7, <1>8, <1>9, <1>t DEF TaskShape
<1> HIDE DEF e
<1>11. TaskShape(e) /\ e.revision > w.tasks[t].revision
  BY <1>3, <1>10, <1>t DEF TaskShape
<1>12. Shaped(v) /\ TasksKept(w, v)
  BY <1>9, <1>10, <1>11 DEF Shaped, TasksKept, TaskShape, e
<1>13. HandoffsKept(w, v)
  BY <1>9, SameHandoffs
<1>14. Unmoved(w, v)
  BY <1>2, <1>10 DEF Unmoved, e
<1> QED BY <1>12, <1>13, <1>14 DEF Kept

---------------------------------------------------------------------------

\* What an open acceptance dialog shows is a version the task has had, and when the task still has
\* that revision it still has those files.
DialogsFit ==
  /\ DOMAIN dialog = People
  /\ \A u \in People : dialog[u] # None =>
       LET d == dialog[u]
       IN /\ d.task \in DOMAIN work.tasks /\ d.revision \in Nat
          /\ d.revision <= work.tasks[d.task].revision
          /\ d.revision = work.tasks[d.task].revision => d.files = work.tasks[d.task].files

\* The last material version has been published.
MaterialFits == material \in Nat /\ material <= work.flows["delivery"].version

\* The inductive invariant.
IInv == Shaped(work) /\ DialogsFit /\ MaterialFits /\ ReceiptStands /\ NoOutdatedDecision

\* A receipt stands over a command that takes up or accepts no task without its conditions.
LEMMA ReceiptsKept ==
  ASSUME NEW w, NEW v, Kept(w, v), ReceiptsStand(w),
         \A t \in DOMAIN w.tasks :
           /\ v.tasks[t].status = "working"
                => w.tasks[t].status = "working" \/ Blockers(w, t, "start") = {}
           /\ v.tasks[t].status = "accepted"
                => w.tasks[t].status = "accepted" \/ Blockers(w, t, "accept") = {}
  PROVE  ReceiptsStand(v)
<1> SUFFICES ASSUME NEW t \in DOMAIN v.tasks, NEW r \in v.tasks[t].reqs, BehindReceipt(v, t, r)
             PROVE  RequirementMet(v, t, r)
  BY DEF ReceiptsStand
<1>1. t \in DOMAIN w.tasks /\ r \in w.tasks[t].reqs
  BY DEF Kept, TasksKept
<1>2. r.kind = "receipt" /\ r.hard
  BY DEF BehindReceipt
<1>3. RequirementMet(w, t, r)
  <2>1. CASE v.tasks[t].status = "working" /\ r.at \in {"both", "start"}
    <3>1. w.tasks[t].status = "working" => RequirementMet(w, t, r)
      BY <1>1, <1>2, <2>1 DEF ReceiptsStand, BehindReceipt
    <3>2. Blockers(w, t, "start") = {} => RequirementMet(w, t, r)
      BY <1>1, <1>2, <2>1 DEF Blockers
    <3> QED BY <1>1, <2>1, <3>1, <3>2
  <2>2. CASE v.tasks[t].status = "accepted" /\ r.at \in {"both", "accept"}
    <3>1. w.tasks[t].status = "accepted" => RequirementMet(w, t, r)
      BY <1>1, <1>2, <2>2 DEF ReceiptsStand, BehindReceipt
    <3>2. Blockers(w, t, "accept") = {} => RequirementMet(w, t, r)
      BY <1>1, <1>2, <2>2 DEF Blockers
    <3> QED BY <1>1, <2>2, <3>1, <3>2
  <2> QED BY <2>1, <2>2 DEF BehindReceipt
<1>4. r.waived \/ (r.ref \in DOMAIN w.handoffs /\ Received(w.handoffs[r.ref]))
  BY <1>2, <1>3 DEF RequirementMet
<1>5. r.ref \in DOMAIN w.handoffs /\ Received(w.handoffs[r.ref])
        => r.ref \in DOMAIN v.handoffs /\ Received(v.handoffs[r.ref])
  BY DEF Kept, HandoffsKept, HandoffKept
<1> QED BY <1>2, <1>4, <1>5 DEF RequirementMet

\* A hand-off behind the last material version stays stale or received over a command.
LEMMA OutdatedKept ==
  ASSUME IInv, Kept(work, work'), UNCHANGED material
  PROVE  NoOutdatedDecision' /\ MaterialFits'
<1>1. /\ work.flows["delivery"].version \in Nat /\ work'.flows["delivery"].version \in Nat
      /\ work'.flows["delivery"].version >= work.flows["delivery"].version
      /\ material \in Nat /\ material <= work.flows["delivery"].version
  BY DEF IInv, Kept, HandoffsKept, Shaped, MaterialFits
<1>2. MaterialFits'
  BY <1>1 DEF MaterialFits
<1>3. ASSUME NEW h \in DOMAIN work'.handoffs, work'.handoffs[h].flowVersion < material
      PROVE  work'.handoffs[h].stale \/ Received(work'.handoffs[h])
  <2>1. work'.handoffs[h].flowVersion # work'.flows["delivery"].version
    BY <1>1, <1>3
  <2>2. h \in DOMAIN work.handoffs
    BY <2>1 DEF Kept, HandoffsKept
  <2>3. HandoffKept(work.handoffs[h], work'.handoffs[h], work'.flows["delivery"].version)
    BY <2>2 DEF Kept, HandoffsKept
  <2>4. work.handoffs[h].flowVersion < material
    BY <1>3, <2>1, <2>3 DEF HandoffKept
  <2>5. work.handoffs[h].stale \/ Received(work.handoffs[h])
    BY <2>2, <2>4 DEF IInv, NoOutdatedDecision
  <2> QED BY <2>1, <2>3, <2>5 DEF HandoffKept
<1>4. NoOutdatedDecision'
  BY <1>3, <1>1 DEF NoOutdatedDecision
<1> QED BY <1>2, <1>4

\* A dialog that stays open stays right about the task over a command.
LEMMA DialogsKept ==
  ASSUME IInv, Kept(work, work'),
         DOMAIN dialog' = People,
         \A u \in People : dialog'[u] \in {None, dialog[u]}
  PROVE  DialogsFit'
<1> SUFFICES ASSUME NEW u \in People, dialog'[u] # None
             PROVE  LET d == dialog'[u]
                    IN /\ d.task \in DOMAIN work'.tasks /\ d.revision \in Nat
                       /\ d.revision <= work'.tasks[d.task].revision
                       /\ d.revision = work'.tasks[d.task].revision
                            => d.files = work'.tasks[d.task].files
  BY DEF DialogsFit
<1> DEFINE d == dialog[u]
<1>1. dialog'[u] = d /\ d # None
  OBVIOUS
<1>2. /\ d.task \in DOMAIN work.tasks /\ d.revision \in Nat
      /\ d.revision <= work.tasks[d.task].revision
      /\ d.revision = work.tasks[d.task].revision => d.files = work.tasks[d.task].files
  BY <1>1 DEF IInv, DialogsFit
<1>3. /\ work.tasks[d.task].revision \in Nat /\ work'.tasks[d.task].revision \in Nat
      /\ d.task \in DOMAIN work'.tasks
      /\ work'.tasks[d.task].revision >= work.tasks[d.task].revision
      /\ work'.tasks[d.task].revision = work.tasks[d.task].revision
           => work'.tasks[d.task].files = work.tasks[d.task].files
  BY <1>2 DEF IInv, Kept, TasksKept, Shaped
<1> HIDE DEF d
<1> QED BY <1>1, <1>2, <1>3

\* The commands that neither take up nor accept a task and take none back.
Quiet(u) ==
  \/ Decide(u) \/ Revise(u) \/ Send(u) \/ Refresh(u) \/ Propose(u)
  \/ Report(u) \/ Progress(u) \/ Deliver(u)

\* A hand-off is proposed as dialog d has it.
ProposedAs(u, d) == \E senders :
  /\ ProposeHandoff(work, work', u, HandoffIds, d.target, d.receiver, d.from, d.kind, senders)
  /\ UNCHANGED <<dialog, material>>

\* Each of them is one of the commands above, done where a page offers it.
LEMMA QuietSteps ==
  ASSUME IInv, NEW u \in People, Quiet(u)
  PROVE  Kept(work, work') /\ Unmoved(work, work') /\ UNCHANGED <<dialog, material>>
<1> USE DEF Act
<1>s. Shaped(work)
  BY DEF IInv
<1>e. \A e \in Sources(work) : e[1] \in DOMAIN work.handoffs
                               /\ e[2] \in DOMAIN work.handoffs[e[1]].sources
  BY DEF Sources
<1>1. CASE Decide(u)
  <2>1. PICK e \in Sources(work), d \in {"accepted", "rejected"} :
          /\ SourceDecision(work, work', u, e[1], e[2], Shown(e[1], e[2]), d)
          /\ UNCHANGED <<dialog, material>>
    BY <1>1 DEF Decide, Pending
  <2> QED BY <1>s, <1>e, <2>1, Decided
<1>2. CASE Revise(u)
  <2>1. PICK e \in Sources(work), files \in Nat :
          /\ ReviseSource(work, work', u, e[1], e[2], Shown(e[1], e[2]), files)
          /\ UNCHANGED <<dialog, material>>
    BY <1>2 DEF Revise, Pending, RevisionFiles, Offers
  <2> QED BY <1>s, <1>e, <2>1, Revised
<1>3. CASE Send(u)
  <2>1. PICK e \in Sources(work) : /\ SendSource(work, work', u, e[1], e[2], Shown(e[1], e[2]))
                                   /\ UNCHANGED <<dialog, material>>
    BY <1>3 DEF Send, Pending
  <2> QED BY <1>s, <1>e, <2>1, Sent
<1>4. CASE Refresh(u)
  <2>1. PICK h \in DOMAIN work.handoffs : /\ RefreshHandoff(work, work', u, h)
                                          /\ UNCHANGED <<dialog, material>>
    BY <1>4 DEF Refresh
  <2> QED BY <1>s, <2>1, Refreshed
<1>5. CASE Propose(u)
  <2>1. PICK t \in DOMAIN work.tasks :
          \E d \in Offers(HasRoom(HandoffIds, work.handoffs), HandoffDialog(work, u, t)) :
            ProposedAs(u, d)
    BY <1>5 DEF Propose, ProposedAs
  <2>2. PICK d \in HandoffDialog(work, u, t) : ProposedAs(u, d)
    BY <2>1 DEF Offers
  <2>3. d.from \subseteq DOMAIN work.tasks
    BY DEF HandoffDialog, Offers, Eligible
  <2> QED BY <1>s, <2>2, <2>3, Proposed DEF ProposedAs
<1>6. CASE Report(u)
  <2>1. PICK t \in DOMAIN work.tasks : /\ ReportTask(work, work', u, t)
                                       /\ UNCHANGED <<dialog, material>>
    BY <1>6 DEF Report
  <2> QED BY <1>s, <2>1, Reported
<1>7. CASE Progress(u)
  <2>1. PICK t \in DOMAIN work.tasks : \E x :
          /\ RecordProgress(work, work', u, ActivityIds, t, work.tasks[t].revision, x)
          /\ UNCHANGED <<dialog, material>>
    BY <1>7 DEF Progress
  <2> QED BY <1>s, <2>1, Progressed
<1>8. CASE Deliver(u)
  <2>1. PICK t \in DOMAIN work.tasks : \E x :
          /\ RecordDelivery(work, work', u, ActivityIds, t, work.tasks[t].revision, x)
          /\ UNCHANGED <<dialog, material>>
    BY <1>8 DEF Deliver
  <2> QED BY <1>s, <2>1, Delivered
<1> QED BY <1>1, <1>2, <1>3, <1>4, <1>5, <1>6, <1>7, <1>8 DEF Quiet

\* The three that do, with what they know of the task.
LEMMA StatusSteps ==
  ASSUME IInv, NEW u \in People, StartWork(u) \/ Reopen(u) \/ ConfirmAcceptance(u)
  PROVE  \E t \in DOMAIN work.tasks :
           /\ Kept(work, work') /\ UNCHANGED material
           /\ \A k \in DOMAIN work.tasks : k # t => work'.tasks[k] = work.tasks[k]
           /\ work'.tasks[t].files = work.tasks[t].files
           /\ \/ /\ work'.tasks[t].status = "working" /\ Blockers(work, t, "start") = {}
                 /\ work.tasks[t].status # "accepted" /\ UNCHANGED dialog
              \/ /\ work'.tasks[t].status = "rework" /\ ReopenTask(work, work', u, t)
                 /\ UNCHANGED dialog
              \/ /\ work'.tasks[t].status = "accepted" /\ Blockers(work, t, "accept") = {}
                 /\ dialog[u] # None /\ dialog[u].task = t
                 /\ dialog[u].files = work.tasks[t].files
                 /\ dialog' = [dialog EXCEPT ![u] = None]
<1>s. Shaped(work)
  BY DEF IInv
<1>m. ASSUME NEW t \in DOMAIN work.tasks, NEW s, work' = Moved(work, t, s)
      PROVE  /\ Kept(work, work') /\ work'.tasks[t].status = s
             /\ work'.tasks[t].files = work.tasks[t].files
             /\ \A k \in DOMAIN work.tasks : k # t => work'.tasks[k] = work.tasks[k]
  BY <1>s, <1>m, MovedTask DEF Kept
<1>1. CASE StartWork(u)
  <2>1. PICK t \in DOMAIN work.tasks : \E x : /\ StartTask(work, work', u, t, x)
                                             /\ UNCHANGED <<dialog, material>>
    BY <1>1 DEF StartWork, Act
  <2>2. /\ work' = Moved(work, t, "working") /\ Blockers(work, t, "start") = {}
        /\ work.tasks[t].status # "accepted"
    BY <2>1 DEF StartTask
  <2> QED BY <1>m, <2>1, <2>2
<1>2. CASE Reopen(u)
  <2>1. PICK t \in DOMAIN work.tasks : /\ ReopenTask(work, work', u, t)
                                       /\ UNCHANGED <<dialog, material>>
    BY <1>2 DEF Reopen, Act
  <2>2. work' = Moved(work, t, "rework")
    BY <2>1 DEF ReopenTask
  <2> QED BY <1>m, <2>1, <2>2
<1>3. CASE ConfirmAcceptance(u)
  <2> DEFINE t == dialog[u].task
  <2>1. /\ dialog[u] # None /\ work.tasks[t].revision = dialog[u].revision
        /\ Blockers(work, t, "accept") = {} /\ work' = Moved(work, t, "accepted")
        /\ dialog' = [dialog EXCEPT ![u] = None] /\ UNCHANGED material
    BY <1>3 DEF ConfirmAcceptance, AcceptTask
  <2>2. t \in DOMAIN work.tasks /\ dialog[u].files = work.tasks[t].files
    BY <2>1 DEF IInv, DialogsFit
  <2> QED BY <1>m, <2>1, <2>2
<1> QED BY <1>1, <1>2, <1>3

\* A publication; the last material version is this one or stays.
LEMMA Publishes ==
  ASSUME IInv, NEW u \in People, Publish(u)
  PROVE  /\ Kept(work, work') /\ Unmoved(work, work') /\ UNCHANGED dialog
         /\ NoOutdatedDecision' /\ MaterialFits'
<1>1. PICK isMaterial \in BOOLEAN, version \in FlowEditor(work, u) :
        /\ PublishFlow(work, work', u, version, isMaterial)
        /\ material' = IF isMaterial THEN work'.flows["delivery"].version ELSE material
        /\ UNCHANGED dialog
  BY DEF Publish
<1>2. /\ Kept(work, work') /\ Unmoved(work, work')
      /\ isMaterial => \A h \in DOMAIN work'.handoffs :
                         work'.handoffs[h].stale \/ Received(work'.handoffs[h])
  BY <1>1, Published DEF IInv
<1>3. CASE isMaterial
  BY <1>1, <1>2, <1>3 DEF NoOutdatedDecision, MaterialFits, Kept, Shaped
<1>4. CASE ~isMaterial
  BY <1>1, <1>2, <1>4, OutdatedKept
<1> QED BY <1>1, <1>2, <1>3, <1>4

\* The steps that only open or close a dialog.
Dialogs(u) == OpenAcceptance(u) \/ CloseAcceptance(u)

\* The steps by kind.
LEMMA NextKinds ==
  ASSUME Next
  PROVE  \E u \in People : \/ Quiet(u) \/ (StartWork(u) \/ Reopen(u) \/ ConfirmAcceptance(u))
                           \/ Dialogs(u) \/ Publish(u)
BY DEF Next, Quiet, Dialogs

\* The stored state the store is loaded with satisfies the invariant.
LEMMA InitIInv == Init => IInv
<1> SUFFICES ASSUME Init PROVE IInv
  OBVIOUS
<1>1. Shaped(work) /\ ReceiptStands /\ material = 0
  BY StartAssumption DEF Init, ReceiptStands
<1>2. DialogsFit
  BY DEF Init, DialogsFit
<1>3. NoOutdatedDecision /\ MaterialFits
  BY <1>1 DEF NoOutdatedDecision, MaterialFits, Shaped
<1> QED BY <1>1, <1>2, <1>3 DEF IInv

\* Every step keeps it.
LEMMA StepIInv == IInv /\ [Next]_vars => IInv'
<1> SUFFICES ASSUME IInv, [Next]_vars PROVE IInv'
  OBVIOUS
<1>1. CASE UNCHANGED vars
  BY <1>1 DEF vars, IInv, DialogsFit, MaterialFits, ReceiptStands, NoOutdatedDecision
<1>2. ASSUME NEW u \in People, Quiet(u) PROVE IInv'
  <2>1. Kept(work, work') /\ Unmoved(work, work') /\ UNCHANGED <<dialog, material>>
    BY <1>2, QuietSteps
  <2>2. ReceiptStands'
    BY <2>1, ReceiptsKept DEF IInv, ReceiptStands, Unmoved
  <2>3. DialogsFit'
    BY <2>1, DialogsKept DEF IInv, DialogsFit
  <2> QED BY <2>1, <2>2, <2>3, OutdatedKept DEF IInv, Kept
<1>3. ASSUME NEW u \in People, StartWork(u) \/ Reopen(u) \/ ConfirmAcceptance(u) PROVE IInv'
  <2>1. PICK t \in DOMAIN work.tasks :
           /\ Kept(work, work') /\ UNCHANGED material
           /\ \A k \in DOMAIN work.tasks : k # t => work'.tasks[k] = work.tasks[k]
           /\ \/ /\ work'.tasks[t].status = "working" /\ Blockers(work, t, "start") = {}
                 /\ UNCHANGED dialog
              \/ work'.tasks[t].status = "rework" /\ UNCHANGED dialog
              \/ /\ work'.tasks[t].status = "accepted" /\ Blockers(work, t, "accept") = {}
                 /\ dialog' = [dialog EXCEPT ![u] = None]
    BY <1>3, StatusSteps
  <2>2. \A k \in DOMAIN work.tasks :
           /\ work'.tasks[k].status = "working"
                => work.tasks[k].status = "working" \/ Blockers(work, k, "start") = {}
           /\ work'.tasks[k].status = "accepted"
                => work.tasks[k].status = "accepted" \/ Blockers(work, k, "accept") = {}
    BY <2>1
  <2>3. ReceiptStands'
    BY <2>1, <2>2, ReceiptsKept DEF IInv, ReceiptStands
  <2>4. DOMAIN dialog' = People /\ \A k \in People : dialog'[k] \in {None, dialog[k]}
    BY <2>1 DEF IInv, DialogsFit
  <2>5. DialogsFit'
    BY <2>1, <2>4, DialogsKept
  <2> QED BY <2>1, <2>3, <2>5, OutdatedKept DEF IInv, Kept
<1>4. ASSUME NEW u \in People, Dialogs(u) PROVE IInv'
  <2>1. UNCHANGED <<work, material>>
    BY <1>4 DEF Dialogs, OpenAcceptance, CloseAcceptance
  <2>2. Shaped(work') /\ MaterialFits' /\ ReceiptStands' /\ NoOutdatedDecision'
    BY <2>1 DEF IInv, MaterialFits, ReceiptStands, NoOutdatedDecision
  <2>3. CASE OpenAcceptance(u)
    <3>1. PICK t \in DOMAIN work.tasks : dialog' = [dialog EXCEPT ![u] = TaskReview(work, t)]
      BY <2>3 DEF OpenAcceptance
    <3>2. work.tasks[t].revision \in Nat
      BY DEF IInv, Shaped
    <3>3. DialogsFit'
      BY <2>1, <3>1, <3>2 DEF IInv, DialogsFit, TaskReview
    <3> QED BY <2>2, <3>3 DEF IInv
  <2>4. CASE CloseAcceptance(u)
    <3>1. DialogsFit'
      BY <2>1, <2>4 DEF IInv, DialogsFit, CloseAcceptance
    <3> QED BY <2>2, <3>1 DEF IInv
  <2> QED BY <1>4, <2>3, <2>4 DEF Dialogs
<1>5. ASSUME NEW u \in People, Publish(u) PROVE IInv'
  <2>1. /\ Kept(work, work') /\ Unmoved(work, work') /\ UNCHANGED dialog
        /\ NoOutdatedDecision' /\ MaterialFits'
    BY <1>5, Publishes
  <2>2. ReceiptStands'
    BY <2>1, ReceiptsKept DEF IInv, ReceiptStands, Unmoved
  <2>3. DialogsFit'
    BY <2>1, DialogsKept DEF IInv, DialogsFit
  <2> QED BY <2>1, <2>2, <2>3 DEF IInv, Kept
<1> QED BY <1>1, <1>2, <1>3, <1>4, <1>5, NextKinds

\* IInv holds in every reachable state.
THEOREM Invariant == Spec => []IInv
BY InitIInv, StepIInv, PTL DEF Spec

\* A task that was started or accepted behind a hand-off stays behind one received in full, whatever
\* is published, refreshed, revised or rejected since (requirementMet).
THEOREM ReceiptsAlwaysStand == Spec => []ReceiptStands
<1>1. IInv => ReceiptStands
  BY DEF IInv
<1> QED BY <1>1, Invariant, PTL

\* No hand-off is decided under instructions a material publication has replaced (publishFlow).
THEOREM NothingOutdatedIsDecided == Spec => []NoOutdatedDecision
<1>1. IInv => NoOutdatedDecision
  BY DEF IInv
<1> QED BY <1>1, Invariant, PTL

\* Every step keeps the hand-offs or writes nothing.
LEMMA NextKeeps ==
  ASSUME IInv, Next
  PROVE  HandoffsKept(work, work') \/ UNCHANGED work
<1>1. PICK u \in People : \/ Quiet(u) \/ (StartWork(u) \/ Reopen(u) \/ ConfirmAcceptance(u))
                          \/ Dialogs(u) \/ Publish(u)
  BY NextKinds
<1>2. CASE Quiet(u)
  BY <1>2, QuietSteps DEF Kept
<1>3. CASE StartWork(u) \/ Reopen(u) \/ ConfirmAcceptance(u)
  BY <1>3, StatusSteps DEF Kept
<1>4. CASE Dialogs(u)
  BY <1>4 DEF Dialogs, OpenAcceptance, CloseAcceptance
<1>5. CASE Publish(u)
  BY <1>5, Publishes DEF Kept
<1> QED BY <1>1, <1>2, <1>3, <1>4, <1>5

\* No decision on a source is lost: an accepted source never changes, and a version that was sent or
\* decided is in the history when it is replaced (actions.ts).
THEOREM DecisionsStayOnRecord == Spec => DecisionsOnRecord
<1> DEFINE A == \A h \in DOMAIN work.handoffs : \A x \in SourceOf(h) :
                  LET old == work.handoffs[h].sources[x]
                      new == work'.handoffs[h].sources[x]
                  IN /\ old.status = "accepted" => new = old
                     /\ old.status # "draft" /\ new # old
                          => [source |-> x, was |-> old] \in work'.handoffs[h].history
                     /\ work.handoffs[h].history \subseteq work'.handoffs[h].history
<1>1. IInv /\ [Next]_vars => [A]_vars
  <2> SUFFICES ASSUME IInv, Next PROVE A
    OBVIOUS
  <2>1. CASE HandoffsKept(work, work')
    BY <2>1 DEF HandoffsKept, HandoffKept, SourceOf
  <2>2. CASE UNCHANGED work
    BY <2>2
  <2> QED BY <2>1, <2>2, NextKeeps
<1> HIDE DEF A
<1>2. Spec => [][A]_vars
  BY <1>1, Invariant, PTL DEF Spec
<1> QED BY <1>2 DEF DecisionsOnRecord, A

\* An accepted task is only taken back by its reviewer reopening it.
THEOREM OnlyReopened == Spec => AcceptedOnlyReopened
<1> DEFINE A == \A t \in DOMAIN work.tasks :
                  work.tasks[t].status = "accepted" /\ work'.tasks[t].status # "accepted"
                    => \E u \in People : ReopenTask(work, work', u, t)
<1>1. IInv /\ [Next]_vars => [A]_vars
  <2> SUFFICES ASSUME IInv, Next, NEW t \in DOMAIN work.tasks,
                      work.tasks[t].status = "accepted", work'.tasks[t].status # "accepted"
               PROVE  \E u \in People : ReopenTask(work, work', u, t)
    OBVIOUS
  <2>1. PICK u \in People : \/ Quiet(u) \/ (StartWork(u) \/ Reopen(u) \/ ConfirmAcceptance(u))
                            \/ Dialogs(u) \/ Publish(u)
    BY NextKinds
  <2>2. ~Quiet(u)
    BY QuietSteps DEF Unmoved
  <2>3. ~Dialogs(u)
    BY DEF Dialogs, OpenAcceptance, CloseAcceptance
  <2>4. ~Publish(u)
    BY Publishes DEF Unmoved
  <2>5. StartWork(u) \/ Reopen(u) \/ ConfirmAcceptance(u)
    BY <2>1, <2>2, <2>3, <2>4
  <2> QED BY <2>5, StatusSteps
<1> HIDE DEF A
<1>2. Spec => [][A]_vars
  BY <1>1, Invariant, PTL DEF Spec
<1> QED BY <1>2 DEF AcceptedOnlyReopened, A

\* A task is accepted with the files the reviewer's dialog showed, whatever happened behind it.
THEOREM AcceptedIsReviewed == Spec => AcceptedAsReviewed
<1> DEFINE A == \A t \in DOMAIN work.tasks :
                  work.tasks[t].status # "accepted" /\ work'.tasks[t].status = "accepted"
                    => \E u \in People : /\ dialog[u] # None /\ dialog[u].task = t
                                         /\ dialog[u].files = work'.tasks[t].files
<1>1. IInv /\ [Next]_vars => [A]_vars
  <2> SUFFICES ASSUME IInv, Next, NEW t \in DOMAIN work.tasks,
                      work.tasks[t].status # "accepted", work'.tasks[t].status = "accepted"
               PROVE  \E u \in People : /\ dialog[u] # None /\ dialog[u].task = t
                                        /\ dialog[u].files = work'.tasks[t].files
    OBVIOUS
  <2>1. PICK u \in People : \/ Quiet(u) \/ (StartWork(u) \/ Reopen(u) \/ ConfirmAcceptance(u))
                            \/ Dialogs(u) \/ Publish(u)
    BY NextKinds
  <2>2. ~Quiet(u)
    BY QuietSteps DEF Unmoved
  <2>3. ~Dialogs(u)
    BY DEF Dialogs, OpenAcceptance, CloseAcceptance
  <2>4. ~Publish(u)
    BY Publishes DEF Unmoved
  <2>5. StartWork(u) \/ Reopen(u) \/ ConfirmAcceptance(u)
    BY <2>1, <2>2, <2>3, <2>4
  <2> QED BY <2>5, StatusSteps
<1> HIDE DEF A
<1>2. Spec => [][A]_vars
  BY <1>1, Invariant, PTL DEF Spec
<1> QED BY <1>2 DEF AcceptedAsReviewed, A
=============================================================================
