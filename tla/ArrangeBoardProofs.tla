-------------------------- MODULE ArrangeBoardProofs --------------------------
(***************************************************************************)
(* Proofs about ArrangeBoard for every stored state the store may be       *)
(* loaded with, every number of people, tasks and proposals, and whatever  *)
(* is put into the forms.                                                  *)
(*                                                                         *)
(* Carried(w, v) is what every command but a vote does to a stored state,  *)
(* and one lemma per command says so.  A vote may approve its proposal,    *)
(* and an exception works the conditions of all tasks out again; both have *)
(* lemmas of their own.                                                    *)
(*                                                                         *)
(* The expansion of conditions is a recursive function of the tasks on the *)
(* way.  It ends, because none is seen twice (DeepDefined), and what it    *)
(* takes over from a task is what blocks the tasks reached from there      *)
(* (ComesFrom), by induction on the tasks that are not on the way.         *)
(***************************************************************************)
EXTENDS ArrangeBoard, FiniteSetTheorems, WellFoundedInduction, TLAPS

\* Task k became l: new files come with a new revision.
TaskOn(k, l) ==
  /\ {"revision", "files", "reqs", "skip"} \subseteq DOMAIN l
  /\ l.revision \in Nat /\ l.revision >= k.revision
  /\ l.revision = k.revision => l.files = k.files
TasksOn(w, v) ==
  DOMAIN v.tasks = DOMAIN w.tasks /\ \A t \in DOMAIN w.tasks : TaskOn(w.tasks[t], v.tasks[t])

\* A requirement with nothing waived and nothing taken over.
Fresher(r) == {"waived", "from"} \subseteq DOMAIN r /\ r.waived = FALSE /\ r.from = None

\* No exception begins or ends, and conditions stay or are written anew.
ExceptionsOn(w, v) ==
  \A t \in DOMAIN w.tasks :
    /\ v.tasks[t].skip = w.tasks[t].skip
    /\ v.tasks[t].reqs = w.tasks[t].reqs \/ \A r \in v.tasks[t].reqs : Fresher(r)

\* No plan is accepted.
PlansOn(w, v) ==
  /\ DOMAIN v.plans = DOMAIN w.plans
  /\ \A p \in DOMAIN w.plans : /\ "status" \in DOMAIN v.plans[p]
                               /\ v.plans[p].status \in {w.plans[p].status, "active"}

\* No proposal is approved, and who has to approve it stays.
ProposalOn(q, r) ==
  /\ Asked(r)
  /\ r.approvers = q.approvers /\ r.bindings = q.bindings /\ r.target = q.target
  /\ r.status \in {q.status, "rejected"}
ProposalsOn(w, v) ==
  /\ DOMAIN w.proposals \subseteq DOMAIN v.proposals
  /\ \A p \in DOMAIN w.proposals : ProposalOn(w.proposals[p], v.proposals[p])
  /\ \A p \in DOMAIN v.proposals \ DOMAIN w.proposals : Asked(v.proposals[p])

Collections(v) == {"seats", "plans", "tasks", "proposals"} \subseteq DOMAIN v
Carried(w, v) ==
  Collections(v) /\ TasksOn(w, v) /\ ExceptionsOn(w, v) /\ PlansOn(w, v) /\ ProposalsOn(w, v)

\* What is not written is carried.
LEMMA Untouched ==
  ASSUME NEW w, NEW v, Stored(w)
  PROVE  /\ v.tasks = w.tasks => TasksOn(w, v) /\ ExceptionsOn(w, v)
         /\ v.plans = w.plans => PlansOn(w, v)
         /\ v.proposals = w.proposals => ProposalsOn(w, v)
BY DEF Stored, TasksOn, TaskOn, ExceptionsOn, PlansOn, ProposalsOn, ProposalOn

\* What keeps a state stored, whatever becomes of plans and proposals.
Lasting(w, v) ==
  /\ Collections(v) /\ TasksOn(w, v) /\ ExceptionsOn(w, v)
  /\ \A p \in DOMAIN v.plans : "status" \in DOMAIN v.plans[p]
  /\ \A p \in DOMAIN v.proposals : Asked(v.proposals[p])

\* The stored state stays one, and its waivers stand.
LEMMA LastingStored ==
  ASSUME NEW w, NEW v, Stored(w), WaiversStand(w), Lasting(w, v)
  PROVE  Stored(v) /\ WaiversStand(v)
<1>1. \A t \in DOMAIN v.tasks : \A r \in v.tasks[t].reqs : {"waived", "from"} \subseteq DOMAIN r
  BY DEF Stored, Lasting, TasksOn, ExceptionsOn, Fresher
<1>2. Stored(v)
  BY <1>1 DEF Stored, Lasting, Collections, TasksOn, TaskOn
<1>3. ASSUME NEW t \in DOMAIN v.tasks, NEW r \in v.tasks[t].reqs
      PROVE  /\ r.waived /\ r.from = None => /\ r.ref \in DOMAIN v.tasks
                                             /\ v.tasks[r.ref].skip # None
                                             /\ Waives(v.tasks[r.ref].skip, t, Plain(r))
             /\ r.from # None => r.from \in DOMAIN v.tasks /\ v.tasks[r.from].skip # None
  <2>1. t \in DOMAIN w.tasks
    BY DEF Lasting, TasksOn
  <2>2. CASE Fresher(r)
    BY <2>2 DEF Fresher
  <2>3. CASE r \in w.tasks[t].reqs
    BY <2>1, <2>3 DEF WaiversStand, Lasting, TasksOn, ExceptionsOn
  <2> QED BY <2>1, <2>2, <2>3 DEF Lasting, ExceptionsOn
<1> QED BY <1>2, <1>3 DEF WaiversStand

\* What is carried lasts.
LEMMA CarriedLasts ==
  ASSUME NEW w, NEW v, Stored(w), Carried(w, v)
  PROVE  Lasting(w, v)
BY DEF Lasting, Carried, PlansOn, ProposalsOn, ProposalOn

\* One task is written; its exception stays, and its conditions stay or are written anew.
LEMMA TaskWritten ==
  ASSUME NEW w, NEW v, NEW t, NEW e, Stored(w), Collections(v),
         v.plans = w.plans, v.proposals = w.proposals, v.tasks = [w.tasks EXCEPT ![t] = e],
         t \in DOMAIN w.tasks =>
           /\ TaskOn(w.tasks[t], e) /\ e.skip = w.tasks[t].skip
           /\ e.reqs = w.tasks[t].reqs \/ \A r \in e.reqs : Fresher(r)
  PROVE  Carried(w, v)
<1>1. \A k \in DOMAIN w.tasks : v.tasks[k] = IF k = t THEN e ELSE w.tasks[k]
  OBVIOUS
<1>2. TasksOn(w, v) /\ ExceptionsOn(w, v)
  BY <1>1 DEF TasksOn, TaskOn, ExceptionsOn, Stored
<1> QED BY <1>2, Untouched DEF Carried

\* One plan is written and not accepted.
LEMMA PlanWritten ==
  ASSUME NEW w, NEW v, NEW p, NEW e, Stored(w), Collections(v),
         v.tasks = w.tasks, v.proposals = w.proposals, v.plans = [w.plans EXCEPT ![p] = e],
         p \in DOMAIN w.plans =>
           "status" \in DOMAIN e /\ e.status \in {w.plans[p].status, "active"}
  PROVE  Carried(w, v)
<1>1. PlansOn(w, v)
  BY DEF PlansOn, Stored
<1> QED BY <1>1, Untouched DEF Carried

---------------------------------------------------------------------------
(* Drafts and changes of work. *)

\* The fields a person changes are none of those that count.
LEMMA FieldsOfTask ==
  ASSUME NEW o, NEW fields, {"revision", "files", "reqs", "skip"} \subseteq DOMAIN o
  PROVE  LET e == Arranged(o, fields)
         IN /\ DOMAIN e = DOMAIN o
            /\ e.revision = o.revision /\ e.files = o.files /\ e.skip = o.skip
            /\ e.reqs = o.reqs \/ \A r \in e.reqs : Fresher(r)
<1> DEFINE e == Arranged(o, fields)
<1>1. /\ DOMAIN e = DOMAIN o
      /\ e.revision = o.revision /\ e.files = o.files /\ e.skip = o.skip
      /\ "reqs" \notin DOMAIN fields => e.reqs = o.reqs
      /\ "reqs" \in DOMAIN fields => e.reqs = {Entered(r) : r \in fields.reqs}
  BY DEF Arranged
<1>2. \A r : Fresher(Entered(r))
  BY DEF Fresher, Entered
<1> HIDE DEF e
<1> QED BY <1>1, <1>2 DEF e

\* Nor is the status of a plan.
LEMMA FieldsOfPlan ==
  ASSUME NEW o, NEW fields, "status" \in DOMAIN o
  PROVE  LET e == Arranged(o, fields) IN DOMAIN e = DOMAIN o /\ e.status = o.status
BY DEF Arranged

\* Changed fields are written with a new revision.
LEMMA FieldsWritten ==
  ASSUME NEW w, NEW kind, NEW o, NEW fields, Stored(w)
  PROVE  /\ Carried(w, FieldsApplied(w, kind, o, fields))
         /\ FieldsApplied(w, kind, o, fields).proposals = w.proposals
<1> DEFINE v == FieldsApplied(w, kind, o, fields)
           now == Arranged(Object(w, kind, o), fields)
           later == [now EXCEPT !.revision = now.revision + 1]
           sent == IF now.status = "delivered" THEN [later EXCEPT !.status = "rework"] ELSE later
<1>1. v = IF kind = "plan" THEN [w EXCEPT !.plans[o] = later] ELSE [w EXCEPT !.tasks[o] = sent]
  BY DEF FieldsApplied
<1>2. CASE kind = "plan"
  <2>1. o \in DOMAIN w.plans => "status" \in DOMAIN later /\ later.status = w.plans[o].status
    BY <1>2, FieldsOfPlan DEF Object, Stored
  <2> HIDE DEF later, v
  <2>2. /\ v.plans = [w.plans EXCEPT ![o] = later] /\ v.tasks = w.tasks
        /\ v.proposals = w.proposals /\ Collections(v)
    BY <1>1, <1>2 DEF Stored, Collections
  <2> QED BY <2>1, <2>2, PlanWritten DEF v
<1>3. CASE kind # "plan"
  <2>1. ASSUME o \in DOMAIN w.tasks
        PROVE  /\ {"revision", "files", "reqs", "skip"} \subseteq DOMAIN sent
               /\ sent.revision = w.tasks[o].revision + 1 /\ sent.skip = w.tasks[o].skip
               /\ sent.reqs = w.tasks[o].reqs \/ \A r \in sent.reqs : Fresher(r)
    <3>1. /\ {"revision", "files", "reqs", "skip"} \subseteq DOMAIN now
          /\ now.revision = w.tasks[o].revision /\ now.skip = w.tasks[o].skip
          /\ now.reqs = w.tasks[o].reqs \/ \A r \in now.reqs : Fresher(r)
      BY <1>3, <2>1, FieldsOfTask DEF Object, Stored
    <3> HIDE DEF now
    <3> QED BY <3>1
  <2> HIDE DEF sent, v
  <2>2. o \in DOMAIN w.tasks => TaskOn(w.tasks[o], sent)
    BY <2>1 DEF TaskOn, Stored
  <2>3. /\ v.tasks = [w.tasks EXCEPT ![o] = sent] /\ v.plans = w.plans
        /\ v.proposals = w.proposals /\ Collections(v)
    BY <1>1, <1>3 DEF Stored, Collections
  <2> QED BY <2>1, <2>2, <2>3, TaskWritten DEF v
<1> QED BY <1>2, <1>3

\* What is sent back is not approved.
LEMMA WithdrawnOn ==
  ASSUME NEW w, NEW v, NEW objects, Stored(w), v.proposals = Withdrawn(w, objects)
  PROVE  ProposalsOn(w, v)
<1>1. DOMAIN v.proposals = DOMAIN w.proposals
  BY DEF Withdrawn
<1>2. ASSUME NEW p \in DOMAIN w.proposals PROVE ProposalOn(w.proposals[p], v.proposals[p])
  <2> DEFINE q == w.proposals[p]
  <2>1. v.proposals[p] = q \/ v.proposals[p] = [q EXCEPT !.status = "rejected"]
    BY DEF Withdrawn
  <2>2. Asked(q)
    BY DEF Stored
  <2> HIDE DEF q
  <2>3. ProposalOn(q, v.proposals[p])
    BY <2>1, <2>2 DEF ProposalOn, Asked
  <2> QED BY <2>3 DEF q
<1> QED BY <1>1, <1>2 DEF ProposalsOn

\* A revised draft.
LEMMA DraftUpdated ==
  ASSUME NEW w, NEW v, NEW u, NEW kind, NEW o, NEW version, NEW fields, Stored(w),
         UpdateDraft(w, v, u, kind, o, version, fields)
  PROVE  Carried(w, v)
<1> DEFINE n == FieldsApplied(w, kind, o, fields)
           sent == Withdrawn(w, {<<kind, o>>})
<1>1. Carried(w, n)
  BY FieldsWritten
<1>2. v = [n EXCEPT !.proposals = sent]
  BY DEF UpdateDraft
<1> HIDE DEF n, sent
<1>3. /\ Collections(v) /\ v.tasks = n.tasks /\ v.plans = n.plans
      /\ v.proposals = sent
  BY <1>1, <1>2 DEF Carried, Collections
<1>4. ProposalsOn(w, v)
  BY <1>3, WithdrawnOn DEF sent
<1> QED BY <1>1, <1>3, <1>4 DEF Carried, TasksOn, ExceptionsOn, PlansOn

\* A proposed change asks everyone who holds a bound seat.
LEMMA ChangeProposed ==
  ASSUME NEW w, NEW v, NEW u, NEW ids, NEW kind, NEW o, NEW version, NEW fields, Stored(w),
         ProposeWorkChange(w, v, u, ids, kind, o, version, fields)
  PROVE  Carried(w, v)
<1> DEFINE id == Fresh(ids, w.proposals)
<1> DEFINE now == Object(w, kind, o)
           plan == IF kind = "plan" THEN o ELSE now.plan
           old == (IF kind = "task" THEN now.seats \cup {now.reviewer} ELSE {}) \cup
                  (IF plan \in DOMAIN w.plans THEN {w.plans[plan].owner} ELSE {})
           new == UNION {IF k = "seats" THEN fields[k] ELSE {fields[k]} :
                           k \in DOMAIN fields \cap {"seats", "reviewer", "owner"}}
           bindings == Holders(w, old \cup new)
           owners == {m \in DOMAIN w.members : w.members[m] = "owner"}
           topic == IF kind = "task" /\ now.main # None THEN now.main
                    ELSE IF plan \in DOMAIN w.plans THEN w.plans[plan].main ELSE None
           owner == IF plan \in DOMAIN w.plans THEN w.plans[plan].owner ELSE None
           p == Proposed(<<kind, o>>, topic, u, FlowVersion(w), bindings)
           approvers == IF p.approvers = {} THEN owners ELSE p.approvers
           q == [p EXCEPT !.version = version, !.fields = fields, !.owner = owner,
                          !.approvers = approvers]
<1>1. v = [w EXCEPT !.proposals = Put(w.proposals, id,
             [p EXCEPT !.version = version, !.fields = fields, !.owner = owner,
                       !.approvers = IF @ = {} THEN owners ELSE @])]
  BY DEF ProposeWorkChange
<1>2. id \notin DOMAIN w.proposals
  BY DEF ProposeWorkChange, HasRoom, Fresh
<1>3. Asked(q)
  <2>1. /\ {"status", "approvers", "bindings", "votes", "target"} \subseteq DOMAIN p
        /\ p.bindings = bindings /\ p.approvers = People(bindings)
    <3> HIDE DEF bindings, topic
    <3> QED BY DEF Proposed
  <2> HIDE DEF p, bindings, owners
  <2>2. People(bindings) \subseteq approvers
    BY <2>1
  <2> HIDE DEF approvers, owner
  <2>3. /\ {"status", "approvers", "bindings", "votes", "target"} \subseteq DOMAIN q
        /\ q.bindings = bindings /\ q.approvers = approvers
    BY <2>1
  <2> QED BY <2>2, <2>3 DEF Asked
<1>4. v = [w EXCEPT !.proposals = Put(w.proposals, id, q)]
  <2> HIDE DEF bindings, topic, id, owners, owner
  <2>1. p.approvers = People(bindings) /\ "approvers" \in DOMAIN p
    BY DEF Proposed
  <2> HIDE DEF p
  <2> QED BY <1>1, <2>1
<1> HIDE DEF id, q
<1>5. /\ Collections(v) /\ v.tasks = w.tasks /\ v.plans = w.plans
      /\ v.proposals = Put(w.proposals, id, q)
  BY <1>4 DEF Stored, Collections
<1>6. ProposalsOn(w, v)
  BY <1>2, <1>3, <1>5 DEF Put, ProposalsOn, ProposalOn, Stored
<1> QED BY <1>5, <1>6, Untouched DEF Carried

\* Discarded work keeps what its tasks delivered and waited for, under new revisions.
LEMMA Discarded ==
  ASSUME NEW w, NEW v, NEW u, NEW kind, NEW o, NEW shown, Stored(w),
         DiscardWork(w, v, u, kind, o, shown)
  PROVE  Carried(w, v)
<1> DEFINE tasks == IF kind = "plan" THEN {t \in DOMAIN w.tasks : w.tasks[t].plan = o} ELSE {o}
           gone(x) == [x EXCEPT !.discarded = TRUE, !.revision = @ + 1]
           plans == IF kind = "plan" THEN [w.plans EXCEPT ![o] = gone(w.plans[o])] ELSE w.plans
           left == [t \in DOMAIN w.tasks |->
                      IF t \in tasks THEN gone(w.tasks[t]) ELSE w.tasks[t]]
           objects == {<<kind, o>>} \cup {<<"task", t>> : t \in tasks}
           back == Withdrawn(w, objects)
<1>1. v = [w EXCEPT !.plans = plans, !.tasks = left, !.proposals = back]
  BY DEF DiscardWork
<1>2. ASSUME NEW x, "status" \in DOMAIN x
      PROVE  "status" \in DOMAIN gone(x) /\ gone(x).status = x.status
  BY <1>2
<1>3. ASSUME NEW x, {"revision", "files", "reqs", "skip"} \subseteq DOMAIN x, x.revision \in Nat
      PROVE  TaskOn(x, gone(x)) /\ gone(x).reqs = x.reqs /\ gone(x).skip = x.skip
  <2>1. PICK n : n = x.revision + 1
    OBVIOUS
  <2>2. gone(x) = [x EXCEPT !.discarded = TRUE, !.revision = n]
    BY <2>1
  <2> HIDE DEF gone
  <2>3. /\ {"revision", "files", "reqs", "skip"} \subseteq DOMAIN gone(x)
        /\ gone(x).revision = n /\ gone(x).files = x.files
        /\ gone(x).reqs = x.reqs /\ gone(x).skip = x.skip
    BY <1>3, <2>2
  <2> QED BY <1>3, <2>1, <2>3 DEF TaskOn
<1> HIDE DEF gone, tasks
<1>4. \A t \in DOMAIN w.tasks :
        /\ TaskOn(w.tasks[t], left[t])
        /\ left[t].reqs = w.tasks[t].reqs /\ left[t].skip = w.tasks[t].skip
  BY <1>3 DEF Stored, TaskOn
<1>5. DOMAIN left = DOMAIN w.tasks
  OBVIOUS
<1>6. /\ DOMAIN plans = DOMAIN w.plans
      /\ \A p \in DOMAIN w.plans :
           "status" \in DOMAIN plans[p] /\ plans[p].status = w.plans[p].status
  BY <1>2 DEF Stored
<1> HIDE DEF plans, left, back
<1>7. /\ Collections(v) /\ v.tasks = left /\ v.plans = plans /\ v.proposals = back
  BY <1>1 DEF Stored, Collections
<1>8. ProposalsOn(w, v)
  BY <1>7, WithdrawnOn DEF back
<1> QED BY <1>4, <1>5, <1>6, <1>7, <1>8 DEF Carried, TasksOn, ExceptionsOn, PlansOn

---------------------------------------------------------------------------
(* Tasks and plans. *)

\* A draft that is confirmed.
LEMMA DraftDecided ==
  ASSUME NEW w, NEW v, NEW u, NEW t, Stored(w), DecideDraft(w, v, u, t)
  PROVE  Carried(w, v)
<1> DEFINE e == [w.tasks[t] EXCEPT !.status = "ready"]
<1>1. v = [w EXCEPT !.tasks[t] = e]
  BY DEF DecideDraft
<1>2. t \in DOMAIN w.tasks =>
        TaskOn(w.tasks[t], e) /\ e.skip = w.tasks[t].skip /\ e.reqs = w.tasks[t].reqs
  BY DEF TaskOn, Stored
<1> HIDE DEF e
<1>3. /\ v.tasks = [w.tasks EXCEPT ![t] = e] /\ v.plans = w.plans
      /\ v.proposals = w.proposals /\ Collections(v)
  BY <1>1 DEF Stored, Collections
<1> QED BY <1>2, <1>3, TaskWritten

\* A plan that is activated or resumed.
LEMMA PlanActivated ==
  ASSUME NEW w, NEW v, NEW u, NEW p, Stored(w), ActivatePlan(w, v, u, p)
  PROVE  Carried(w, v)
<1> DEFINE e == [w.plans[p] EXCEPT !.status = "active"]
<1>1. v = [w EXCEPT !.plans[p] = e]
  BY DEF ActivatePlan
<1>2. p \in DOMAIN w.plans => "status" \in DOMAIN e /\ e.status = "active"
  BY DEF Stored
<1> HIDE DEF e
<1>3. /\ v.plans = [w.plans EXCEPT ![p] = e] /\ v.tasks = w.tasks
      /\ v.proposals = w.proposals /\ Collections(v)
  BY <1>1 DEF Stored, Collections
<1> QED BY <1>2, <1>3, PlanWritten

\* A task that moves to another status.
LEMMA MovedTask ==
  ASSUME NEW w, Stored(w), NEW t \in DOMAIN w.tasks, NEW status
  PROVE  Carried(w, Moved(w, t, status))
<1> DEFINE v == Moved(w, t, status)
<1>1. PICK n : n = w.tasks[t].revision + 1
  OBVIOUS
<1> DEFINE one == [w.tasks[t] EXCEPT !.status = status]
           e == [one EXCEPT !.revision = n]
<1>2. "revision" \in DOMAIN w.tasks[t] /\ one.revision = w.tasks[t].revision
  BY DEF Stored
<1>3. v = [w EXCEPT !.tasks[t] = e]
  BY <1>1, <1>2 DEF Moved, Stored
<1>4. /\ {"revision", "files", "reqs", "skip"} \subseteq DOMAIN e
      /\ e.revision = n /\ e.skip = w.tasks[t].skip /\ e.reqs = w.tasks[t].reqs
  BY DEF Stored
<1> HIDE DEF e, v
<1>5. TaskOn(w.tasks[t], e)
  BY <1>1, <1>4 DEF TaskOn, Stored
<1>6. /\ v.tasks = [w.tasks EXCEPT ![t] = e] /\ v.plans = w.plans
      /\ v.proposals = w.proposals /\ Collections(v)
  BY <1>3 DEF Stored, Collections
<1> QED BY <1>4, <1>5, <1>6, TaskWritten DEF v

\* The main topics that are made up for plans.
LEMMA MainTopics ==
  ASSUME NEW w, Stored(w)
  PROVE  LET v == EnsureMainTopics(w)
         IN /\ Collections(v) /\ DOMAIN v = DOMAIN w
            /\ v.tasks = w.tasks /\ v.proposals = w.proposals /\ PlansOn(w, v)
<1> DEFINE v == EnsureMainTopics(w)
           lacking == {p \in DOMAIN w.plans : w.plans[p].main \notin DOMAIN w.topics}
           main == [p \in lacking |-> <<"main", p>>]
           plans == [p \in DOMAIN w.plans |->
                       IF p \in lacking THEN [w.plans[p] EXCEPT !.main = main[p]] ELSE w.plans[p]]
<1>1. PICK topics : v = IF lacking = {} THEN w
                        ELSE [w EXCEPT !.plans = plans, !.topics = topics]
  BY DEF EnsureMainTopics
<1>2. /\ DOMAIN plans = DOMAIN w.plans
      /\ \A p \in DOMAIN w.plans :
           "status" \in DOMAIN plans[p] /\ plans[p].status = w.plans[p].status
  <2> HIDE DEF lacking, main
  <2> QED BY DEF Stored
<1> HIDE DEF v, lacking, plans
<1>3. CASE lacking = {}
  BY <1>1, <1>3, Untouched DEF Stored, Collections, v
<1>4. CASE lacking # {}
  <2>1. /\ Collections(v) /\ DOMAIN v = DOMAIN w
        /\ v.tasks = w.tasks /\ v.proposals = w.proposals /\ v.plans = plans
    BY <1>1, <1>4 DEF Stored, Collections
  <2> QED BY <1>2, <2>1 DEF PlansOn, v
<1> QED BY <1>3, <1>4

\* A delivery is a record, and new files under a new revision.
LEMMA Delivered ==
  ASSUME NEW w, NEW v, NEW u, NEW ids, NEW t, NEW version, NEW seat, Stored(w),
         t \in DOMAIN w.tasks, RecordDelivery(w, v, u, ids, t, version, seat)
  PROVE  Carried(w, v)
<1> DEFINE m == EnsureMainTopics(w)
           n == Recorded(w, ids, t, "delivery", {})
<1>1. /\ Collections(m) /\ DOMAIN m = DOMAIN w
      /\ m.tasks = w.tasks /\ m.proposals = w.proposals /\ PlansOn(w, m)
  BY MainTopics
<1>2. PICK activities : n = [m EXCEPT !.activities = activities]
  BY DEF Recorded
<1> HIDE DEF m
<1>3. /\ Collections(n) /\ n.tasks = w.tasks /\ n.proposals = w.proposals /\ n.plans = m.plans
  BY <1>1, <1>2 DEF Collections
<1> HIDE DEF n
<1>4. PICK r, files : r = w.tasks[t].revision + 1 /\ files = w.tasks[t].files + 1
  OBVIOUS
<1> DEFINE one == [w.tasks[t] EXCEPT !.status = "delivered"]
           two == [one EXCEPT !.revision = r]
           e == [two EXCEPT !.files = files]
<1>5. /\ {"revision", "files", "reqs", "skip"} \subseteq DOMAIN e
      /\ e.revision = r /\ e.skip = w.tasks[t].skip /\ e.reqs = w.tasks[t].reqs
  BY DEF Stored
<1>6. v = [n EXCEPT !.tasks[t] = e]
  <2>1. v = [n EXCEPT !.tasks[t].status = "delivered", !.tasks[t].revision = @ + 1,
                      !.tasks[t].files = @ + 1]
    BY DEF RecordDelivery, n
  <2>2. one.revision = w.tasks[t].revision /\ two.files = w.tasks[t].files
    BY DEF Stored
  <2> QED BY <1>3, <1>4, <2>1, <2>2 DEF Collections
<1> HIDE DEF e
<1>7. TaskOn(w.tasks[t], e)
  BY <1>4, <1>5 DEF TaskOn, Stored
<1> DEFINE x == [w EXCEPT !.tasks = [w.tasks EXCEPT ![t] = e]]
<1>8. Carried(w, x)
  <2>1. /\ x.tasks = [w.tasks EXCEPT ![t] = e] /\ x.plans = w.plans
        /\ x.proposals = w.proposals /\ Collections(x)
    BY DEF Stored, Collections
  <2> HIDE DEF x
  <2> QED BY <1>5, <1>7, <2>1, TaskWritten
<1>9. /\ Collections(v) /\ v.tasks = x.tasks /\ v.proposals = w.proposals /\ v.plans = m.plans
      /\ x.proposals = w.proposals
  BY <1>3, <1>6 DEF Collections, Stored
<1> HIDE DEF x
<1> QED BY <1>1, <1>8, <1>9 DEF Carried, TasksOn, ExceptionsOn, PlansOn, ProposalsOn

\* A seat that changes hands.
LEMMA SeatReplaced ==
  ASSUME NEW w, NEW v, NEW u, NEW x, NEW from, NEW to, Stored(w), ReplaceSeat(w, v, u, x, from, to)
  PROVE  Carried(w, v)
<1>1. PICK seats : v = [w EXCEPT !.seats = seats]
  BY DEF ReplaceSeat
<1>2. /\ Collections(v) /\ v.tasks = w.tasks /\ v.plans = w.plans
      /\ v.proposals = w.proposals
  BY <1>1 DEF Stored, Collections
<1> QED BY <1>2, Untouched DEF Carried

\* A proposal that is refused.
LEMMA Refused ==
  ASSUME NEW w, NEW v, NEW u, NEW p \in DOMAIN w.proposals, NEW revision, Stored(w),
         RejectProposal(w, v, u, p, revision)
  PROVE  Carried(w, v)
<1> DEFINE e == [w.proposals[p] EXCEPT !.status = "rejected"]
<1>1. v = [w EXCEPT !.proposals = [w.proposals EXCEPT ![p] = e]]
  BY DEF RejectProposal
<1>2. ProposalOn(w.proposals[p], e)
  BY DEF ProposalOn, Asked, Stored
<1> HIDE DEF e
<1>3. /\ Collections(v) /\ v.tasks = w.tasks /\ v.plans = w.plans
      /\ v.proposals = [w.proposals EXCEPT ![p] = e]
  BY <1>1 DEF Stored, Collections
<1>4. ProposalsOn(w, v)
  BY <1>2, <1>3 DEF ProposalsOn, ProposalOn, Stored
<1> QED BY <1>3, <1>4, Untouched DEF Carried

---------------------------------------------------------------------------
(* Exceptions: the conditions of every task are worked out again. *)

\* A requirement as it was written, or waived by an exception in force, or taken over from a
\* skipped task.
Worked(w, t, r) ==
  /\ {"waived", "from"} \subseteq DOMAIN r
  /\ r.waived /\ r.from = None => /\ r.ref \in DOMAIN w.tasks /\ w.tasks[r.ref].skip # None
                                  /\ Waives(w.tasks[r.ref].skip, t, Plain(r))
  /\ r.from # None => r.from \in DOMAIN w.tasks /\ w.tasks[r.from].skip # None

\* A written requirement is waived in all it names, and what takes its place comes from the task
\* it waits for, whatever the expansion of that task's requirements is.
LEMMA UnfoldedWorks ==
  ASSUME NEW w, None \notin DOMAIN w.tasks, NEW t, NEW raw, NEW seen, NEW deeper, NEW q,
         {"waived", "from"} \subseteq DOMAIN q, NEW p, p = Plain(q),
         NEW r \in Unfolded(w, raw, t, p, seen, deeper)
  PROVE  Worked(w, t, r)
<1>1. /\ {"waived", "from"} \subseteq DOMAIN p /\ p.waived = FALSE /\ p.from = None
      /\ Plain(p) = p
  BY DEF Plain
<1>2. CASE r = p
  BY <1>1, <1>2 DEF Worked
<1>3. CASE Excepted(w, t, p) /\ r = [p EXCEPT !.waived = TRUE]
  <2>1. /\ {"waived", "from"} \subseteq DOMAIN r /\ r.from = None /\ r.ref = p.ref
    BY <1>1, <1>3
  <2>2. Plain(r) = p
    <3>1. DOMAIN Plain(r) = DOMAIN p /\ \A x \in DOMAIN p : Plain(r)[x] = p[x]
      BY <1>1, <1>3 DEF Plain
    <3>2. /\ Plain(r) = [x \in DOMAIN Plain(r) |-> Plain(r)[x]]
          /\ p = [x \in DOMAIN p |-> p[x]]
      BY DEF Plain
    <3> QED BY <3>1, <3>2
  <2> QED BY <1>1, <1>3, <2>1, <2>2 DEF Worked, Excepted
<1>4. ASSUME NEW e, Excepted(w, t, p), r = Inherited(e, p)
      PROVE  Worked(w, t, r)
  <2>1. {"waived", "from"} \subseteq DOMAIN r /\ r.from = p.ref
    BY <1>4 DEF Inherited
  <2> QED BY <1>4, <2>1 DEF Worked, Excepted
<1>5. \/ r = p
      \/ Excepted(w, t, p) /\ r = [p EXCEPT !.waived = TRUE]
      \/ Excepted(w, t, p) /\ \E e : r = Inherited(e, p)
  <2> DEFINE next(up) == deeper[<<p.ref, up, seen \cup {p.ref}>>]
             taken == UNION {{Inherited(e, p) : e \in next(up)} :
                             up \in {b \in raw[p.ref] : b.hard}}
  <2>1. CASE ~Excepted(w, t, p)
    BY <2>1 DEF Unfolded
  <2>2. CASE Excepted(w, t, p)
    <3>1. r = [p EXCEPT !.waived = TRUE] \/ r \in taken
      BY <2>2 DEF Unfolded
    <3> HIDE DEF next
    <3>2. r \in taken => \E e : r = Inherited(e, p)
      OBVIOUS
    <3> QED BY <2>2, <3>1, <3>2
  <2> QED BY <2>1, <2>2
<1> QED BY <1>2, <1>3, <1>4, <1>5

\* All conditions are worked out from the exceptions in force; nothing else is written.
LEMMA Effected ==
  ASSUME NEW w, Collections(w), None \notin DOMAIN w.tasks,
         \A t \in DOMAIN w.tasks :
           /\ {"revision", "files", "reqs", "skip"} \subseteq DOMAIN w.tasks[t]
           /\ \A r \in w.tasks[t].reqs : {"waived", "from"} \subseteq DOMAIN r
  PROVE  LET v == Effective(w)
         IN /\ Collections(v) /\ v.plans = w.plans /\ v.proposals = w.proposals
            /\ DOMAIN v.tasks = DOMAIN w.tasks
            /\ \A t \in DOMAIN w.tasks :
                 /\ {"revision", "files", "reqs", "skip"} \subseteq DOMAIN v.tasks[t]
                 /\ v.tasks[t].revision = w.tasks[t].revision
                 /\ v.tasks[t].files = w.tasks[t].files /\ v.tasks[t].skip = w.tasks[t].skip
                 /\ \A r \in v.tasks[t].reqs : Worked(w, t, r)
<1> DEFINE v == Effective(w)
           reqs(t) == UNION {Expand(w, Written(w), t, r, {t}) : r \in Written(w)[t]}
           tasks == [t \in DOMAIN w.tasks |-> [w.tasks[t] EXCEPT !.reqs = reqs(t)]]
<1>1. v = [w EXCEPT !.tasks = tasks]
  BY DEF Effective
<1>2. ASSUME NEW t \in DOMAIN w.tasks, NEW r \in reqs(t)
      PROVE  Worked(w, t, r)
  <2>1. PICK p \in Written(w)[t] : r \in Expand(w, Written(w), t, p, {t})
    OBVIOUS
  <2>2. PICK q \in w.tasks[t].reqs : p = Plain(q)
    BY <2>1 DEF Written
  <2>3. PICK raw, seen, deeper : r \in Unfolded(w, raw, t, p, seen, deeper)
    BY <2>1 DEF Expand
  <2> QED BY <2>2, <2>3, UnfoldedWorks
<1> HIDE DEF reqs
<1>3. /\ DOMAIN tasks = DOMAIN w.tasks
      /\ \A t \in DOMAIN w.tasks :
           /\ {"revision", "files", "reqs", "skip"} \subseteq DOMAIN tasks[t]
           /\ tasks[t].revision = w.tasks[t].revision
           /\ tasks[t].files = w.tasks[t].files /\ tasks[t].skip = w.tasks[t].skip
           /\ tasks[t].reqs = reqs(t)
  OBVIOUS
<1> HIDE DEF tasks, v
<1>4. /\ Collections(v) /\ v.plans = w.plans /\ v.proposals = w.proposals /\ v.tasks = tasks
  BY <1>1 DEF Collections
<1> QED BY <1>2, <1>3, <1>4 DEF v

---------------------------------------------------------------------------
(* Counting. *)

\* Every set of numbers has a smallest one.
LEMMA Smallest ==
  ASSUME NEW S, S \subseteq Nat, S # {}
  PROVE  \E n \in S : \A m \in S : n <= m
<1>1. IsWellFoundedOn(OpToRel(<, Nat), Nat)
  BY NatLessThanWellFounded
<1>2. \A m, n \in Nat : m < n => <<m, n>> \in OpToRel(<, Nat)
  BY DEF OpToRel
<1>3. \E R : IsWellFoundedOn(R, Nat) /\ \A m, n \in Nat : m < n => <<m, n>> \in R
  BY <1>1, <1>2, Zenon
<1>4. PICK R : IsWellFoundedOn(R, Nat) /\ \A m, n \in Nat : m < n => <<m, n>> \in R
  BY <1>3
<1>5. ASSUME NEW U, IsWellFoundedOn(R, U), S \subseteq U
      PROVE  \E n \in S : \A m \in S : ~(<<m, n>> \in R)
  BY <1>5, WFMin
<1>6. PICK n \in S : \A m \in S : ~(<<m, n>> \in R)
  BY <1>4, <1>5
<1>7. \A m \in S : m \in Nat /\ n \in Nat
  OBVIOUS
<1>8. \A m \in S : ~(m < n)
  BY <1>4, <1>6, <1>7
<1>9. \A m \in S : n <= m
  BY <1>7, <1>8
<1> QED BY <1>9

\* Counting from zero reaches every number.
LEMMA Counted ==
  ASSUME NEW N \in Nat, NEW S, 0 \in S, \A n \in 1..N : n - 1 \in S => n \in S
  PROVE  \A n \in 0..N : n \in S
<1> DEFINE U == (0..N) \ S
<1> SUFFICES ASSUME U # {} PROVE FALSE
  OBVIOUS
<1>0. U \subseteq Nat
  OBVIOUS
<1> HIDE DEF U
<1>1. PICK n \in U : \A m \in U : n <= m
  BY <1>0, Smallest
<1>2. n \in 1..N /\ n - 1 \in 0..N /\ ~(n <= n - 1)
  BY <1>1 DEF U
<1>3. n - 1 \in U
  BY <1>1, <1>2 DEF U
<1> QED BY <1>1, <1>2, <1>3

---------------------------------------------------------------------------
(* The expansion of conditions. *)

\* The places the expansion looks at: a condition of a task, and the tasks on the way to it.
Places(w) ==
  LET Tasks == DOMAIN w.tasks
      Reqs == UNION {Written(w)[t] : t \in Tasks}
  IN Tasks \X Reqs \X SUBSET Tasks

\* What the conditions of deeper tasks stand for.
Deep(w) ==
  LET Tasks == DOMAIN w.tasks
      Reqs == UNION {Written(w)[t] : t \in Tasks}
      expanded[x \in Tasks \X Reqs \X SUBSET Tasks] ==
        Unfolded(w, Written(w), x[1], x[2], x[3], expanded)
  IN expanded

\* What the expansion depends on.
LEMMA UnfoldedAlike ==
  ASSUME NEW w, NEW raw, NEW c, NEW r, NEW seen, NEW g, NEW h,
         Excepted(w, c, r) /\ r.ref \notin seen =>
           \A up \in raw[r.ref] : g[<<r.ref, up, seen \cup {r.ref}>>]
                                    = h[<<r.ref, up, seen \cup {r.ref}>>]
  PROVE  Unfolded(w, raw, c, r, seen, g) = Unfolded(w, raw, c, r, seen, h)
<1>1. CASE ~(Excepted(w, c, r) /\ r.ref \notin seen)
  BY <1>1 DEF Unfolded
<1>2. CASE Excepted(w, c, r) /\ r.ref \notin seen
  <2> DEFINE up == {b \in raw[r.ref] : b.hard}
             G(b) == g[<<r.ref, b, seen \cup {r.ref}>>]
             H(b) == h[<<r.ref, b, seen \cup {r.ref}>>]
             more(d) == {Inherited(e, r) : e \in d}
  <2>1. \A b \in up : G(b) = H(b)
    BY <1>2
  <2>2. /\ Unfolded(w, raw, c, r, seen, g)
             = {[r EXCEPT !.waived = TRUE]} \cup UNION {more(G(b)) : b \in up}
        /\ Unfolded(w, raw, c, r, seen, h)
             = {[r EXCEPT !.waived = TRUE]} \cup UNION {more(H(b)) : b \in up}
    BY <1>2 DEF Unfolded
  <2> HIDE DEF up, G, H, more
  <2>3. {more(G(b)) : b \in up} = {more(H(b)) : b \in up}
    BY <2>1
  <2> QED BY <2>2, <2>3
<1> QED BY <1>1, <1>2

\* With every task on the way there are fewer to see.
LEMMA Fewer ==
  ASSUME NEW D, IsFiniteSet(D), NEW seen, NEW y \in D \ seen
  PROVE  /\ Cardinality(D \ seen) \in Nat /\ Cardinality(D \ (seen \cup {y})) \in Nat
         /\ Cardinality(D \ (seen \cup {y})) < Cardinality(D \ seen)
<1> DEFINE S == D \ seen
           R == S \ {y}
<1>1. D \ (seen \cup {y}) = R
  OBVIOUS
<1>2. IsFiniteSet(S) /\ y \in S
  BY FS_Subset
<1> HIDE DEF S
<1>3. /\ IsFiniteSet(R) /\ Cardinality(R) = Cardinality(S) - 1
      /\ Cardinality(S) \in Nat /\ Cardinality(R) \in Nat
  BY <1>2, FS_RemoveElement, FS_CardinalityType
<1> HIDE DEF R
<1> QED BY <1>1, <1>3 DEF S

\* The expansion is what it is defined to be: it ends, because a task on the way is not seen again.
LEMMA DeepDefined ==
  ASSUME NEW w, IsFiniteSet(DOMAIN w.tasks)
  PROVE  \A x \in Places(w) : Deep(w)[x] = Unfolded(w, Written(w), x[1], x[2], x[3], Deep(w))
<1> DEFINE D == DOMAIN w.tasks
           P == Places(w)
           R == UNION {Written(w)[t] : t \in D}
           N == Cardinality(D)
           rank(x) == Cardinality(D \ x[3])
           unfolded(h, x) == Unfolded(w, Written(w), x[1], x[2], x[3], h)
           good(h, k) == \A x \in P : rank(x) < k => h[x] = unfolded(h, x)
           reached == {k \in 0..(N + 1) : \E h : good(h, k)}
<1>0. N \in Nat
  BY FS_CardinalityType
<1>1. \A x \in P : x[1] \in D /\ x[3] \subseteq D /\ rank(x) \in 0..N
  <2> SUFFICES ASSUME NEW x \in P PROVE x[1] \in D /\ x[3] \subseteq D /\ rank(x) \in 0..N
    OBVIOUS
  <2>1. x[1] \in D /\ x[3] \subseteq D
    <3> HIDE DEF R
    <3>1. x \in D \X R \X SUBSET D
      BY DEF Places, R
    <3> QED BY <3>1
  <2>2. rank(x) \in Nat /\ rank(x) <= N
    BY FS_Subset, FS_CardinalityType
  <2> QED BY <1>0, <2>1, <2>2
<1>2. ASSUME NEW x \in P, Excepted(w, x[1], x[2]), x[2].ref \notin x[3],
             NEW up \in Written(w)[x[2].ref]
      PROVE  LET y == <<x[2].ref, up, x[3] \cup {x[2].ref}>> IN y \in P /\ rank(y) < rank(x)
  <2> DEFINE s == x[2].ref
             y == <<s, up, x[3] \cup {s}>>
  <2>1. s \in D /\ s \notin x[3] /\ x[3] \subseteq D
    BY <1>1, <1>2 DEF Excepted
  <2>2. y \in P
    <3>1. up \in R
      BY <2>1
    <3> HIDE DEF R
    <3>2. y \in D \X R \X SUBSET D
      BY <2>1, <3>1
    <3> QED BY <3>2 DEF Places, R
  <2>3. rank(y) < rank(x)
    BY <2>1, Fewer
  <2> QED BY <2>2, <2>3
<1> HIDE DEF rank, P
<1>3. ASSUME NEW g, NEW h, NEW x \in P, \A y \in P : rank(y) < rank(x) => g[y] = h[y]
      PROVE  unfolded(g, x) = unfolded(h, x)
  BY <1>2, <1>3, UnfoldedAlike
<1> HIDE DEF unfolded
<1>4. 0 \in reached
  <2>1. \A h : good(h, 0)
    BY <1>1
  <2> HIDE DEF good
  <2> QED BY <1>0, <2>1
<1>5. ASSUME NEW k \in 1..(N + 1), k - 1 \in reached PROVE k \in reached
  <2>1. PICK h : good(h, k - 1)
    BY <1>5
  <2> DEFINE g == [x \in P |-> IF rank(x) = k - 1 THEN unfolded(h, x) ELSE h[x]]
  <2>2. ASSUME NEW x \in P, rank(x) < k PROVE g[x] = unfolded(g, x)
    <3>1. \A y \in P : rank(y) < rank(x) => g[y] = h[y]
      BY <1>0, <1>1, <2>2
    <3>2. g[x] = unfolded(h, x)
      BY <1>0, <1>1, <2>1, <2>2
    <3> HIDE DEF g
    <3> QED BY <1>3, <3>1, <3>2
  <2>3. good(g, k)
    <3> HIDE DEF g
    <3> QED BY <2>2
  <2> HIDE DEF good, g
  <2> QED BY <2>3
<1>6. N + 1 \in reached
  <2> HIDE DEF reached
  <2> QED BY <1>0, <1>4, <1>5, Counted
<1>7. PICK h : good(h, N + 1)
  <2> HIDE DEF good
  <2> QED BY <1>6
<1> DEFINE g == [x \in P |-> h[x]]
<1>8. ASSUME NEW x \in P PROVE g[x] = unfolded(g, x)
  <2>1. h[x] = unfolded(h, x)
    BY <1>0, <1>1, <1>7
  <2>2. \A y \in P : g[y] = h[y]
    OBVIOUS
  <2> HIDE DEF g
  <2> QED BY <1>3, <2>1, <2>2
<1>9. g = [x \in P |-> unfolded(g, x)]
  BY <1>8
<1> HIDE DEF g
<1>10. Deep(w) = [x \in P |-> unfolded(Deep(w), x)]
  <2>1. Deep(w) = CHOOSE f : f = [x \in P |-> unfolded(f, x)]
    BY DEF Deep, unfolded, P, Places
  <2> QED BY <1>9, <2>1
<1> QED BY <1>10 DEF unfolded, P

\* The tasks that released conditions lead to from x, past none of those seen.
Through(w, seen, S) ==
  \A y \in S : \A q \in Written(w)[y] : Excepted(w, y, q) /\ q.ref \notin seen => q.ref \in S
Reached(w, x, seen) ==
  {y \in DOMAIN w.tasks :
     \A S \in SUBSET DOMAIN w.tasks : x \in S /\ Through(w, seen, S) => y \in S}

\* They are reached from x or from one of the next tasks.
LEMMA ReachedNext ==
  ASSUME NEW w, NEW x \in DOMAIN w.tasks, NEW seen, x \in seen
  PROVE  \A y : y \in Reached(w, x, seen) <=>
           \/ y = x
           \/ \E q \in Written(w)[x] : /\ Excepted(w, x, q) /\ q.ref \notin seen
                                       /\ y \in Reached(w, q.ref, seen \cup {q.ref})
<1> DEFINE D == DOMAIN w.tasks
           raw == Written(w)
           next == {q \in raw[x] : Excepted(w, x, q) /\ q.ref \notin seen}
           F(q) == Reached(w, q.ref, seen \cup {q.ref})
           all == {x} \cup UNION {F(q) : q \in next}
<1>1. \A q \in next : q.ref \in D
  BY DEF Excepted
<1>2. ASSUME NEW s \in D, NEW ways PROVE s \in Reached(w, s, ways)
  BY DEF Reached
<1>3. ASSUME NEW q \in next, NEW y \in F(q) PROVE y \in Reached(w, x, seen)
  <2>1. y \in D
    BY DEF Reached
  <2>2. ASSUME NEW S \in SUBSET D, x \in S, Through(w, seen, S) PROVE y \in S
    <3>1. q.ref \in S
      BY <2>2 DEF Through
    <3>2. Through(w, seen \cup {q.ref}, S)
      BY <2>2 DEF Through
    <3> QED BY <3>1, <3>2 DEF Reached
  <2> QED BY <2>1, <2>2 DEF Reached
<1>4. all \subseteq Reached(w, x, seen)
  <2> HIDE DEF F, next
  <2> QED BY <1>2, <1>3
<1>5. all \in SUBSET D
  <2>1. \A q \in next : F(q) \subseteq D
    BY DEF Reached
  <2> HIDE DEF F, next
  <2> QED BY <2>1
<1>6. Through(w, seen, all)
  <2> SUFFICES ASSUME NEW y \in all, NEW q \in raw[y], Excepted(w, y, q), q.ref \notin seen
               PROVE  q.ref \in all
    BY DEF Through
  <2>1. CASE y = x
    <3>1. q \in next
      BY <2>1
    <3>2. q.ref \in F(q)
      BY <1>1, <1>2, <3>1
    <3> HIDE DEF F, next
    <3> QED BY <3>1, <3>2
  <2>2. ASSUME NEW p \in next, y \in F(p) PROVE q.ref \in all
    <3>1. q.ref \in F(p)
      <4>1. CASE q.ref = p.ref
        BY <1>1, <1>2, <4>1
      <4>2. CASE q.ref # p.ref
        <5>1. q.ref \in D
          BY DEF Excepted
        <5>2. ASSUME NEW S \in SUBSET D, p.ref \in S, Through(w, seen \cup {p.ref}, S)
              PROVE  q.ref \in S
          <6>1. y \in S
            BY <2>2, <5>2 DEF Reached
          <6> QED BY <4>2, <5>2, <6>1 DEF Through
        <5> QED BY <5>1, <5>2 DEF Reached
      <4> QED BY <4>1, <4>2
    <3> HIDE DEF F, next
    <3> QED BY <3>1
  <2>3. y = x \/ \E p \in next : y \in F(p)
    <3> HIDE DEF F, next
    <3> QED OBVIOUS
  <2> QED BY <2>1, <2>2, <2>3
<1>7. Reached(w, x, seen) \subseteq all
  <2>1. x \in all
    OBVIOUS
  <2> HIDE DEF all
  <2> QED BY <1>5, <1>6, <2>1 DEF Reached
<1>8. \A y : y \in Reached(w, x, seen) <=> y = x \/ \E q \in next : y \in F(q)
  <2> HIDE DEF F, next
  <2> QED BY <1>4, <1>7
<1> QED BY <1>8

---------------------------------------------------------------------------
(* What an expansion comes to. *)

\* A condition wherever it is taken over to; what blocks among conditions; and what blocks a task
\* that takes over the conditions of x.
What(r) == [id |-> r.id, kind |-> r.kind, ref |-> r.ref]
Blocks(e, k) == e.hard /\ ~e.waived /\ What(e) = k
Comes(w, x, seen, k) ==
  \E up \in Written(w)[x] : up.hard /\ \E e \in Deep(w)[<<x, up, seen>>] : Blocks(e, k)

\* Conditions as the records of a task have them.
ReqsRecorded(w) ==
  \A t \in DOMAIN w.tasks : \A r \in w.tasks[t].reqs : {"waived", "from"} \subseteq DOMAIN r

\* A condition as it is written.
LEMMA WrittenPlain ==
  ASSUME NEW w, ReqsRecorded(w), NEW t \in DOMAIN w.tasks, NEW r \in Written(w)[t]
  PROVE  /\ {"waived", "from"} \subseteq DOMAIN r /\ r.waived = FALSE /\ r.from = None
         /\ Plain(r) = r
<1>1. PICK q \in w.tasks[t].reqs : r = Plain(q)
  BY DEF Written
<1>2. {"waived", "from"} \subseteq DOMAIN q
  BY DEF ReqsRecorded
<1> QED BY <1>1, <1>2 DEF Plain

\* What blocks a task in the place of its condition r, and at which point.
Stands(w, t, r, seen, k) ==
  IF Excepted(w, t, r) THEN r.ref \notin seen /\ Comes(w, r.ref, seen \cup {r.ref}, k)
  ELSE r.hard /\ What(r) = k
Substituted(w, t, r, seen) ==
  \A k, at : (\E e \in Unfolded(w, Written(w), t, r, seen, Deep(w)) : Blocks(e, k) /\ e.at = at)
               <=> at = r.at /\ Stands(w, t, r, seen, k)

\* A condition that is not released blocks, and in the place of one that is released comes what its
\* task has to wait for, at the same point.
LEMMA UnfoldedBlocks ==
  ASSUME NEW w, ReqsRecorded(w), NEW t \in DOMAIN w.tasks, NEW r \in Written(w)[t], NEW seen
  PROVE  Substituted(w, t, r, seen)
<1> SUFFICES ASSUME NEW k, NEW at
             PROVE  (\E e \in Unfolded(w, Written(w), t, r, seen, Deep(w)) :
                       Blocks(e, k) /\ e.at = at)
                      <=> at = r.at /\ Stands(w, t, r, seen, k)
  BY DEF Substituted
<1> DEFINE U == Unfolded(w, Written(w), t, r, seen, Deep(w))
           off == [r EXCEPT !.waived = TRUE]
           ups == {b \in Written(w)[r.ref] : b.hard}
           G(b) == Deep(w)[<<r.ref, b, seen \cup {r.ref}>>]
           taken == UNION {{Inherited(e, r) : e \in G(b)} : b \in ups}
           released == Excepted(w, t, r)
           comes == Comes(w, r.ref, seen \cup {r.ref}, k)
<1> SUFFICES (\E e \in U : Blocks(e, k) /\ e.at = at)
               <=> /\ at = r.at
                   /\ IF released THEN r.ref \notin seen /\ comes ELSE r.hard /\ What(r) = k
  BY DEF Stands
<1>1. {"waived", "from"} \subseteq DOMAIN r /\ r.waived = FALSE
  BY WrittenPlain
<1>2. CASE ~Excepted(w, t, r)
  <2>1. U = {r}
    BY <1>2 DEF Unfolded
  <2> HIDE DEF U
  <2> QED BY <1>1, <1>2, <2>1 DEF Blocks
<1>3. off.waived = TRUE
  BY <1>1
<1>4. CASE Excepted(w, t, r) /\ r.ref \in seen
  <2>1. U = {off}
    BY <1>4 DEF Unfolded
  <2> HIDE DEF U, off
  <2> QED BY <1>3, <1>4, <2>1 DEF Blocks
<1>5. CASE Excepted(w, t, r) /\ r.ref \notin seen
  <2>1. U = {off} \cup taken
    BY <1>5 DEF Unfolded
  <2>2. \A e : Blocks(Inherited(e, r), k) <=> Blocks(e, k)
    BY DEF Blocks, Inherited, What
  <2>3. \A e : Inherited(e, r).at = r.at
    BY DEF Inherited
  <2>4. comes <=> \E b \in ups : \E e \in G(b) : Blocks(e, k)
    BY DEF Comes
  <2>5. \A d : d \in taken <=> \E b \in ups : \E e \in G(b) : d = Inherited(e, r)
    <3> HIDE DEF ups, G
    <3> QED OBVIOUS
  <2>6. ~Blocks(off, k)
    BY <1>3 DEF Blocks
  <2> HIDE DEF U, off, taken, ups, G, comes
  <2>7. (\E e \in U : Blocks(e, k) /\ e.at = at) <=> (\E e \in taken : Blocks(e, k) /\ e.at = at)
    BY <2>1, <2>6
  <2>8. (\E e \in taken : Blocks(e, k) /\ e.at = at)
          <=> at = r.at /\ \E b \in ups : \E e \in G(b) : Blocks(e, k)
    BY <2>2, <2>3, <2>5
  <2> QED BY <1>5, <2>4, <2>7, <2>8
<1> QED BY <1>2, <1>4, <1>5

\* A condition of y blocks where it is taken over, and what is taken over is what blocks there.
Open(w, y, k) == \E p \in Written(w)[y] : p.hard /\ ~Excepted(w, y, p) /\ What(p) = k
Right(w, x, seen) ==
  \A k : Comes(w, x, seen, k) <=> \E y \in Reached(w, x, seen) : Open(w, y, k)

\* One more task on the way.
LEMMA ComesNext ==
  ASSUME NEW w, ReqsRecorded(w), IsFiniteSet(DOMAIN w.tasks),
         NEW x \in DOMAIN w.tasks, NEW seen \in SUBSET DOMAIN w.tasks, x \in seen,
         \A q \in Written(w)[x] :
           Excepted(w, x, q) /\ q.ref \notin seen => Right(w, q.ref, seen \cup {q.ref})
  PROVE  Right(w, x, seen)
<1> DEFINE raw == Written(w)[x]
           further(q, k) == Comes(w, q.ref, seen \cup {q.ref}, k)
<1> SUFFICES ASSUME NEW k
             PROVE  Comes(w, x, seen, k) <=> \E y \in Reached(w, x, seen) : Open(w, y, k)
  BY DEF Right
<1>1. ASSUME NEW up \in raw
      PROVE  (\E e \in Deep(w)[<<x, up, seen>>] : Blocks(e, k)) <=> Stands(w, x, up, seen, k)
  <2> DEFINE U == Unfolded(w, Written(w), x, up, seen, Deep(w))
             place == <<x, up, seen>>
  <2>1. place \in Places(w) /\ place[1] = x /\ place[2] = up /\ place[3] = seen
    <3> DEFINE D == DOMAIN w.tasks
               R == UNION {Written(w)[t] : t \in D}
    <3>1. up \in R
      OBVIOUS
    <3> HIDE DEF R
    <3>2. place \in D \X R \X SUBSET D
      BY <3>1
    <3> QED BY <3>2 DEF Places, R
  <2>2. Deep(w)[place] = U
    BY <2>1, DeepDefined
  <2>3. Substituted(w, x, up, seen)
    BY UnfoldedBlocks
  <2>4. \A at : (\E e \in U : Blocks(e, k) /\ e.at = at) <=> at = up.at /\ Stands(w, x, up, seen, k)
    BY <2>3 DEF Substituted
  <2> HIDE DEF U
  <2>5. (\E e \in U : Blocks(e, k)) <=> Stands(w, x, up, seen, k)
    BY <2>4
  <2> QED BY <2>2, <2>5
<1>2. \A q : Excepted(w, x, q) => q.hard
  BY DEF Excepted
<1>3. Comes(w, x, seen, k) <=>
        \/ \E q \in raw : q.hard /\ ~Excepted(w, x, q) /\ What(q) = k
        \/ \E q \in raw : Excepted(w, x, q) /\ q.ref \notin seen /\ further(q, k)
  <2>1. Comes(w, x, seen, k) <=>
          \E up \in raw : up.hard /\ \E e \in Deep(w)[<<x, up, seen>>] : Blocks(e, k)
    BY DEF Comes
  <2>2. \A up \in raw : Stands(w, x, up, seen, k) <=>
          IF Excepted(w, x, up) THEN up.ref \notin seen /\ further(up, k)
          ELSE up.hard /\ What(up) = k
    BY DEF Stands
  <2> HIDE DEF raw, further
  <2> QED BY <1>1, <1>2, <2>1, <2>2
<1>4. \A q \in raw : Excepted(w, x, q) /\ q.ref \notin seen =>
        (further(q, k) <=> \E y \in Reached(w, q.ref, seen \cup {q.ref}) : Open(w, y, k))
  BY DEF Right
<1>5. \A y : y \in Reached(w, x, seen) <=>
        \/ y = x
        \/ \E q \in raw : /\ Excepted(w, x, q) /\ q.ref \notin seen
                          /\ y \in Reached(w, q.ref, seen \cup {q.ref})
  BY ReachedNext
<1>6. Open(w, x, k) <=> \E q \in raw : q.hard /\ ~Excepted(w, x, q) /\ What(q) = k
  BY DEF Open
<1> HIDE DEF raw, further
<1>7. (\E q \in raw : Excepted(w, x, q) /\ q.ref \notin seen /\ further(q, k))
        <=> \E y : /\ \E q \in raw : /\ Excepted(w, x, q) /\ q.ref \notin seen
                                     /\ y \in Reached(w, q.ref, seen \cup {q.ref})
                   /\ Open(w, y, k)
  BY <1>4
<1> QED BY <1>3, <1>5, <1>6, <1>7

\* What comes in the place of conditions on a task is what blocks the tasks reached from it.
LEMMA ComesFrom ==
  ASSUME NEW w, ReqsRecorded(w), IsFiniteSet(DOMAIN w.tasks)
  PROVE  \A x \in DOMAIN w.tasks : \A seen \in SUBSET DOMAIN w.tasks :
           x \in seen => Right(w, x, seen)
<1> DEFINE D == DOMAIN w.tasks
           wrong(x, seen) == x \in seen /\ ~Right(w, x, seen)
           S == {n \in Nat : \E x \in D : \E seen \in SUBSET D :
                               wrong(x, seen) /\ n = Cardinality(D \ seen)}
<1>1. \A seen \in SUBSET D : Cardinality(D \ seen) \in Nat
  BY FS_Subset, FS_CardinalityType
<1>2. ASSUME S # {} PROVE FALSE
  <2>1. PICK n \in S : \A m \in S : n <= m
    <3>1. S \subseteq Nat
      OBVIOUS
    <3> HIDE DEF S
    <3> QED BY <1>2, <3>1, Smallest
  <2>2. PICK x \in D, seen \in SUBSET D : wrong(x, seen) /\ n = Cardinality(D \ seen)
    BY <2>1
  <2>3. ASSUME NEW q \in Written(w)[x], Excepted(w, x, q), q.ref \notin seen
        PROVE  Right(w, q.ref, seen \cup {q.ref})
    <3> DEFINE s == q.ref
               m == Cardinality(D \ (seen \cup {s}))
    <3>1. s \in D /\ s \notin seen
      BY <2>3 DEF Excepted
    <3>2. m \in Nat /\ m < n /\ n \in Nat
      BY <2>2, <3>1, Fewer
    <3>3. m \notin S
      <4> HIDE DEF S, m
      <4> QED BY <2>1, <3>2
    <3>4. ~wrong(s, seen \cup {s})
      BY <3>1, <3>2, <3>3
    <3> QED BY <3>4
  <2> QED BY <2>2, <2>3, ComesNext
<1>3. \A x \in D : \A seen \in SUBSET D : ~wrong(x, seen)
  BY <1>1, <1>2
<1> QED BY <1>3

\* Condition p is the one written among those that stand for it.
Kept(p, U) == \A x : x = p <=> \E r \in U : r.from = None /\ x = Plain(r)

\* Working conditions out changes no written one.
LEMMA UnfoldedWritten ==
  ASSUME NEW w, ReqsRecorded(w), None \notin DOMAIN w.tasks, NEW t \in DOMAIN w.tasks,
         NEW p \in Written(w)[t], NEW raw, NEW seen, NEW deeper
  PROVE  Kept(p, Unfolded(w, raw, t, p, seen, deeper))
<1> DEFINE U == Unfolded(w, raw, t, p, seen, deeper)
           off == [p EXCEPT !.waived = TRUE]
           ups == {b \in raw[p.ref] : b.hard}
           G(b) == deeper[<<p.ref, b, seen \cup {p.ref}>>]
           taken == UNION {{Inherited(e, p) : e \in G(b)} : b \in ups}
<1>1. {"waived", "from"} \subseteq DOMAIN p /\ p.waived = FALSE /\ p.from = None /\ Plain(p) = p
  BY WrittenPlain
<1>2. off.from = None /\ Plain(off) = p
  <2>1. off.from = None
    BY <1>1
  <2>2. DOMAIN Plain(off) = DOMAIN p /\ \A x \in DOMAIN p : Plain(off)[x] = p[x]
    BY <1>1 DEF Plain
  <2>3. /\ Plain(off) = [x \in DOMAIN Plain(off) |-> Plain(off)[x]]
        /\ Plain(p) = [x \in DOMAIN Plain(p) |-> Plain(p)[x]]
    BY DEF Plain
  <2> QED BY <1>1, <2>1, <2>2, <2>3
<1>3. \A r \in taken : Excepted(w, t, p) => r.from # None
  <2>1. \A e : Inherited(e, p).from = p.ref
    BY DEF Inherited
  <2>2. Excepted(w, t, p) => p.ref # None
    BY DEF Excepted
  <2> HIDE DEF ups, G
  <2> QED BY <2>1, <2>2
<1>4. \/ U = {p}
      \/ U = {off}
      \/ Excepted(w, t, p) /\ U = {off} \cup taken
  BY DEF Unfolded
<1> SUFFICES \A x : x = p <=> \E r \in U : r.from = None /\ x = Plain(r)
  BY DEF Kept
<1> HIDE DEF U, off, taken
<1> QED BY <1>1, <1>2, <1>3, <1>4

\* What blocks a task, with the point it blocks.
Mark(k, at) == [id |-> k.id, kind |-> k.kind, ref |-> k.ref, at |-> at]
WorkedOut(v) ==
  \A c \in DOMAIN v.tasks :
    {Blocking(q, q.at) : q \in {e \in v.tasks[c].reqs : e.hard /\ ~e.waived}} = Binding(v, c)

\* The tasks behind a released condition.
LEMMA ChainReached ==
  ASSUME NEW w, NEW c, NEW s
  PROVE  Chain(w, c, s) = Reached(w, s, {c} \cup {s})
<1> DEFINE closed(S) == \A x \in S : \A q \in Written(w)[x] :
                          Excepted(w, x, q) /\ q.ref # c => q.ref \in S
<1>1. \A S : s \in S => (closed(S) <=> Through(w, {c} \cup {s}, S))
  BY DEF Through
<1>2. Chain(w, c, s) =
        {x \in DOMAIN w.tasks : \A S \in SUBSET DOMAIN w.tasks : s \in S /\ closed(S) => x \in S}
  BY DEF Chain
<1> HIDE DEF closed
<1> QED BY <1>1, <1>2 DEF Reached

\* Every task is left behind exactly the conditions that bind it.
LEMMA EffectiveWorks ==
  ASSUME NEW w, ReqsRecorded(w), IsFiniteSet(DOMAIN w.tasks), None \notin DOMAIN w.tasks,
         "tasks" \in DOMAIN w,
         \A t \in DOMAIN w.tasks : {"reqs", "skip"} \subseteq DOMAIN w.tasks[t]
  PROVE  WorkedOut(Effective(w))
<1> DEFINE v == Effective(w)
           U(t, r) == Unfolded(w, Written(w), t, r, {t}, Deep(w))
           reqs(t) == UNION {U(t, r) : r \in Written(w)[t]}
           tasks == [t \in DOMAIN w.tasks |-> [w.tasks[t] EXCEPT !.reqs = reqs(t)]]
<1>1. v = [w EXCEPT !.tasks = tasks]
  BY DEF Effective, Expand, Deep
<1> SUFFICES WorkedOut(v)
  OBVIOUS
<1> HIDE DEF v, reqs
<1>2. v.tasks = tasks
  BY <1>1
<1>3. /\ DOMAIN v.tasks = DOMAIN w.tasks
      /\ \A t \in DOMAIN w.tasks : v.tasks[t].reqs = reqs(t) /\ v.tasks[t].skip = w.tasks[t].skip
  BY <1>2
<1> HIDE DEF tasks
<1>4. \A t, r : Excepted(v, t, r) <=> Excepted(w, t, r)
  BY <1>3 DEF Excepted
<1>5. \A t \in DOMAIN w.tasks : Written(v)[t] = Written(w)[t]
  <2> SUFFICES ASSUME NEW t \in DOMAIN w.tasks PROVE Written(v)[t] = Written(w)[t]
    OBVIOUS
  <2>1. Written(v)[t] = {Plain(r) : r \in {q \in reqs(t) : q.from = None}}
    BY <1>3 DEF Written
  <2>2. \A p \in Written(w)[t] : Kept(p, U(t, p))
    BY UnfoldedWritten
  <2>3. \A r : r \in reqs(t) <=> \E p \in Written(w)[t] : r \in U(t, p)
    <3> HIDE DEF U
    <3> QED BY DEF reqs
  <2> HIDE DEF U
  <2>4. \A x : x \in Written(v)[t] <=> x \in Written(w)[t]
    <3>1. \A x : x \in Written(v)[t] <=> \E r : r \in reqs(t) /\ r.from = None /\ x = Plain(r)
      BY <2>1
    <3>2. \A x : (\E r : r \in reqs(t) /\ r.from = None /\ x = Plain(r))
            <=> \E p \in Written(w)[t] : \E r \in U(t, p) : r.from = None /\ x = Plain(r)
      BY <2>3
    <3>3. \A p \in Written(w)[t] : \A x :
            x = p <=> \E r \in U(t, p) : r.from = None /\ x = Plain(r)
      BY <2>2 DEF Kept
    <3> QED BY <3>1, <3>2, <3>3
  <2> QED BY <2>1, <2>4 DEF Written
<1>6. Written(v) = Written(w)
  <2>1. DOMAIN Written(v) = DOMAIN w.tasks /\ DOMAIN Written(w) = DOMAIN w.tasks
    BY <1>3 DEF Written
  <2>2. /\ Written(v) = [t \in DOMAIN Written(v) |-> Written(v)[t]]
        /\ Written(w) = [t \in DOMAIN Written(w) |-> Written(w)[t]]
    BY DEF Written
  <2> QED BY <1>5, <2>1, <2>2
<1>7. \A c, s : Chain(v, c, s) = Reached(w, s, {c} \cup {s})
  <2>1. \A s, seen : Reached(v, s, seen) = Reached(w, s, seen)
    BY <1>3, <1>4, <1>6 DEF Reached, Through
  <2> QED BY <2>1, ChainReached
<1> SUFFICES ASSUME NEW c \in DOMAIN w.tasks
             PROVE  {Blocking(q, q.at) : q \in {e \in reqs(c) : e.hard /\ ~e.waived}}
                      = Binding(v, c)
  BY <1>3 DEF WorkedOut
<1> DEFINE raw == Written(w)[c]
           unreleased(x) == {r \in Written(w)[x] : r.hard /\ ~Excepted(w, x, r)}
           released == {r \in raw : Excepted(w, c, r) /\ r.ref # c}
           behind(r) == UNION {{Blocking(q, r.at) : q \in unreleased(s)} :
                                 s \in Reached(w, r.ref, {c} \cup {r.ref})}
<1>8. \A e, at : Blocking(e, at) = Mark(What(e), at)
  BY DEF Blocking, Mark, What
<1>9. Binding(v, c)
        = {Blocking(r, r.at) : r \in unreleased(c)} \cup UNION {behind(r) : r \in released}
  <2> DEFINE open(x) == {r \in Written(v)[x] : r.hard /\ ~Excepted(v, x, r)}
             off == {r \in Written(v)[c] : Excepted(v, c, r) /\ r.ref # c}
             after(r) == UNION {{Blocking(q, r.at) : q \in open(s)} : s \in Chain(v, c, r.ref)}
  <2>1. Binding(v, c) = {Blocking(r, r.at) : r \in open(c)} \cup UNION {after(r) : r \in off}
    BY DEF Binding
  <2>2. off = released /\ \A x : open(x) = unreleased(x)
    BY <1>4, <1>6
  <2> HIDE DEF open, off, unreleased, released
  <2>3. \A r : after(r) = behind(r)
    BY <1>7, <2>2
  <2> HIDE DEF after, behind
  <2> QED BY <2>1, <2>2, <2>3
<1>10. \A r \in released : \A z :
         z \in behind(r) <=> \E s \in Reached(w, r.ref, {c} \cup {r.ref}) :
                               \E k : Open(w, s, k) /\ z = Mark(k, r.at)
  BY <1>8 DEF Open
<1>11. \A r \in raw : \A k : Stands(w, c, r, {c}, k) <=>
         IF Excepted(w, c, r)
         THEN r.ref # c /\ \E s \in Reached(w, r.ref, {c} \cup {r.ref}) : Open(w, s, k)
         ELSE r.hard /\ What(r) = k
  <2> SUFFICES ASSUME NEW r \in raw, Excepted(w, c, r), r.ref # c
               PROVE  \A k : Comes(w, r.ref, {c} \cup {r.ref}, k)
                              <=> \E s \in Reached(w, r.ref, {c} \cup {r.ref}) : Open(w, s, k)
    BY DEF Stands
  <2>1. r.ref \in DOMAIN w.tasks
    BY DEF Excepted
  <2>2. Right(w, r.ref, {c} \cup {r.ref})
    BY <2>1, ComesFrom
  <2> QED BY <2>2 DEF Right
<1>12. \A z : z \in Binding(v, c) <=>
         \E r \in raw : \E k : Stands(w, c, r, {c}, k) /\ z = Mark(k, r.at)
  <2>1. \A z : z \in Binding(v, c) <=>
          \/ \E r \in raw : r.hard /\ ~Excepted(w, c, r) /\ z = Mark(What(r), r.at)
          \/ \E r \in raw : Excepted(w, c, r) /\ r.ref # c /\ z \in behind(r)
    <3> HIDE DEF behind
    <3> QED BY <1>8, <1>9
  <2> HIDE DEF behind
  <2>2. \A r \in raw : \A z : Excepted(w, c, r) /\ r.ref # c =>
          (z \in behind(r) <=> \E k : Stands(w, c, r, {c}, k) /\ z = Mark(k, r.at))
    BY <1>10, <1>11
  <2>3. \A r \in raw : \A z : ~Excepted(w, c, r) =>
          (r.hard /\ z = Mark(What(r), r.at)
             <=> \E k : Stands(w, c, r, {c}, k) /\ z = Mark(k, r.at))
    BY <1>11
  <2>4. \A r \in raw : \A k : Stands(w, c, r, {c}, k) /\ Excepted(w, c, r) => r.ref # c
    BY <1>11
  <2> HIDE DEF raw, released
  <2> SUFFICES ASSUME NEW z
               PROVE  z \in Binding(v, c) <=>
                        \E r \in raw : \E k : Stands(w, c, r, {c}, k) /\ z = Mark(k, r.at)
    OBVIOUS
  <2>5. ASSUME NEW r \in raw
        PROVE  (\/ r.hard /\ ~Excepted(w, c, r) /\ z = Mark(What(r), r.at)
                \/ Excepted(w, c, r) /\ r.ref # c /\ z \in behind(r))
                 <=> \E k : Stands(w, c, r, {c}, k) /\ z = Mark(k, r.at)
    <3>1. CASE Excepted(w, c, r)
      BY <2>2, <2>4, <3>1
    <3>2. CASE ~Excepted(w, c, r)
      BY <2>3, <3>2
    <3> QED BY <3>1, <3>2
  <2> QED BY <2>1, <2>5
<1>13. \A r \in raw : \A k, at : (\E e \in U(c, r) : Blocks(e, k) /\ e.at = at)
                                   <=> at = r.at /\ Stands(w, c, r, {c}, k)
  <2> SUFFICES ASSUME NEW r \in raw PROVE Substituted(w, c, r, {c})
    BY DEF Substituted
  <2> QED BY UnfoldedBlocks
<1>14. \A z : z \in {Blocking(q, q.at) : q \in {e \in reqs(c) : e.hard /\ ~e.waived}}
                <=> \E r \in raw : \E k : Stands(w, c, r, {c}, k) /\ z = Mark(k, r.at)
  <2>1. \A e : e \in reqs(c) <=> \E r \in raw : e \in U(c, r)
    <3> HIDE DEF U
    <3> QED BY DEF reqs
  <2>2. \A e : e.hard /\ ~e.waived <=> Blocks(e, What(e))
    BY DEF Blocks
  <2>3. \A e, k : Blocks(e, k) => What(e) = k
    BY DEF Blocks
  <2> HIDE DEF U, raw
  <2>4. \A z : z \in {Blocking(q, q.at) : q \in {e \in reqs(c) : e.hard /\ ~e.waived}}
                <=> \E r \in raw : \E e \in U(c, r) : Blocks(e, What(e)) /\ z = Mark(What(e), e.at)
    BY <1>8, <2>1, <2>2
  <2>5. ASSUME NEW z, NEW r \in raw
        PROVE  (\E e \in U(c, r) : Blocks(e, What(e)) /\ z = Mark(What(e), e.at))
                 <=> \E k : Stands(w, c, r, {c}, k) /\ z = Mark(k, r.at)
    <3>1. ASSUME NEW e \in U(c, r), Blocks(e, What(e)), z = Mark(What(e), e.at)
          PROVE  \E k : Stands(w, c, r, {c}, k) /\ z = Mark(k, r.at)
      <4>1. e.at = r.at /\ Stands(w, c, r, {c}, What(e))
        BY <1>13, <3>1
      <4> QED BY <3>1, <4>1
    <3>2. ASSUME NEW k, Stands(w, c, r, {c}, k), z = Mark(k, r.at)
          PROVE  \E e \in U(c, r) : Blocks(e, What(e)) /\ z = Mark(What(e), e.at)
      <4>1. PICK e \in U(c, r) : Blocks(e, k) /\ e.at = r.at
        BY <1>13, <3>2
      <4> QED BY <2>3, <3>2, <4>1
    <3> QED BY <3>1, <3>2
  <2> QED BY <2>4, <2>5
<1> HIDE DEF raw
<1> QED BY <1>12, <1>14

---------------------------------------------------------------------------
(* The commands that make and end exceptions. *)

\* A command that carries all but exceptions, and works the conditions out.
Excepting(w, v) ==
  /\ Collections(v) /\ TasksOn(w, v) /\ PlansOn(w, v) /\ ProposalsOn(w, v)
  /\ Stored(v) /\ WaiversStand(v) /\ WorkedOut(v)

\* A task that is skipped or restored.
LEMMA ExceptionMade ==
  ASSUME NEW w, Stored(w), NEW t \in DOMAIN w.tasks, NEW skip
  PROVE  Excepting(w, TaskException(w, t, skip))
<1>1. PICK n : n = w.tasks[t].revision + 1
  OBVIOUS
<1> DEFINE one == [w.tasks[t] EXCEPT !.skip = skip]
           e == [one EXCEPT !.revision = n]
           tasks == [w.tasks EXCEPT ![t] = e]
           m == [w EXCEPT !.tasks = tasks]
           v == Effective(m)
<1>2. TaskException(w, t, skip) = v
  <2>1. one.revision = w.tasks[t].revision
    BY DEF Stored
  <2>2. m = [w EXCEPT !.tasks[t].skip = skip, !.tasks[t].revision = @ + 1]
    BY <1>1, <2>1 DEF Stored
  <2> HIDE DEF m
  <2> QED BY <2>2 DEF TaskException
<1>3. /\ {"revision", "files", "reqs", "skip"} \subseteq DOMAIN e
      /\ e.revision = n /\ e.files = w.tasks[t].files /\ e.reqs = w.tasks[t].reqs
  BY DEF Stored
<1> HIDE DEF e
<1>4. /\ Collections(m) /\ m.plans = w.plans /\ m.proposals = w.proposals /\ m.tasks = tasks
  BY DEF Stored, Collections
<1>5. /\ DOMAIN tasks = DOMAIN w.tasks
      /\ \A k \in DOMAIN w.tasks : tasks[k] = IF k = t THEN e ELSE w.tasks[k]
  OBVIOUS
<1> HIDE DEF m, tasks
<1>6. \A k \in DOMAIN w.tasks :
        /\ TaskOn(w.tasks[k], tasks[k])
        /\ {"revision", "files", "reqs", "skip"} \subseteq DOMAIN tasks[k]
        /\ \A r \in tasks[k].reqs : {"waived", "from"} \subseteq DOMAIN r
  BY <1>1, <1>3, <1>5 DEF TaskOn, Stored
<1>7. /\ Collections(v) /\ v.plans = w.plans /\ v.proposals = w.proposals
      /\ DOMAIN v.tasks = DOMAIN w.tasks
      /\ \A k \in DOMAIN w.tasks :
           /\ {"revision", "files", "reqs", "skip"} \subseteq DOMAIN v.tasks[k]
           /\ v.tasks[k].revision = tasks[k].revision
           /\ v.tasks[k].files = tasks[k].files /\ v.tasks[k].skip = tasks[k].skip
           /\ \A r \in v.tasks[k].reqs : Worked(m, k, r)
  BY <1>4, <1>5, <1>6, Effected DEF Stored
<1>12. WorkedOut(v)
  <2>1. ReqsRecorded(m)
    BY <1>4, <1>5, <1>6 DEF ReqsRecorded
  <2>2. /\ IsFiniteSet(DOMAIN m.tasks) /\ None \notin DOMAIN m.tasks /\ "tasks" \in DOMAIN m
        /\ \A k \in DOMAIN m.tasks : {"reqs", "skip"} \subseteq DOMAIN m.tasks[k]
    BY <1>4, <1>5, <1>6 DEF Stored, Collections
  <2> QED BY <2>1, <2>2, EffectiveWorks
<1> HIDE DEF v
<1>8. TasksOn(w, v)
  BY <1>6, <1>7 DEF TasksOn, TaskOn
<1>9. WaiversStand(v)
  BY <1>4, <1>5, <1>7 DEF WaiversStand, Worked
<1>10. PlansOn(w, v) /\ ProposalsOn(w, v)
  BY <1>7, Untouched
<1>11. Stored(v)
  BY <1>7, <1>8 DEF Stored, Collections, TasksOn, TaskOn, Worked
<1> QED BY <1>2, <1>7, <1>8, <1>9, <1>10, <1>11, <1>12 DEF Excepting

---------------------------------------------------------------------------
(* Votes. *)

\* Only proposal p is voted on.  It is approved when everyone asked has voted for it, and while it
\* is current.
VotedOn(w, v, p) ==
  /\ Lasting(w, v) /\ PlansOn(w, v)
  /\ DOMAIN v.proposals = DOMAIN w.proposals
  /\ \A r \in DOMAIN w.proposals : r # p => v.proposals[r] = w.proposals[r]
  /\ v.proposals[p].status # w.proposals[p].status =>
       /\ w.proposals[p].approvers \subseteq v.proposals[p].votes
       /\ ProposalIsCurrent(w, w.proposals[p])

\* A vote (decideProposal).
LEMMA Voted ==
  ASSUME NEW w, NEW v, NEW u, NEW p \in DOMAIN w.proposals, NEW revision, Stored(w),
         ApproveProposal(w, v, u, {}, {}, p, revision)
  PROVE  VotedOn(w, v, p)
<1> DEFINE q == w.proposals[p]
           votes == q.votes \cup {u}
           one == [q EXCEPT !.votes = votes]
           two == [one EXCEPT !.status = "approved"]
           voted == [w EXCEPT !.proposals = [w.proposals EXCEPT ![p] = one]]
           approved == [w EXCEPT !.proposals = [w.proposals EXCEPT ![p] = two]]
<1>1. /\ ProposalIsCurrent(w, q) /\ q.target # None
      /\ v = IF q.approvers \ votes # {} THEN voted
             ELSE FieldsApplied(approved, q.target[1], q.target[2], q.fields)
  <2>1. [w EXCEPT !.proposals[p].votes = @ \cup {u}] = voted
    BY DEF Stored, Asked
  <2>2. [voted EXCEPT !.proposals[p].status = "approved"] = approved
    BY DEF Stored, Asked
  <2>3. ~HasRoom({}, w.plans)
    BY DEF HasRoom
  <2>4. /\ ProposalIsCurrent(w, q) /\ (q.target = None => HasRoom({}, w.plans))
        /\ v = IF q.approvers \ (q.votes \cup {u}) # {}
               THEN [w EXCEPT !.proposals[p].votes = @ \cup {u}]
               ELSE IF q.target # None
               THEN FieldsApplied(
                      [[w EXCEPT !.proposals[p].votes = @ \cup {u}]
                         EXCEPT !.proposals[p].status = "approved"],
                      q.target[1], q.target[2], q.fields)
               ELSE Arrangement(
                      [[w EXCEPT !.proposals[p].votes = @ \cup {u}]
                         EXCEPT !.proposals[p].status = "approved"],
                      {}, {}, p)
    BY DEF ApproveProposal
  <2>5. [[w EXCEPT !.proposals[p].votes = @ \cup {u}]
           EXCEPT !.proposals[p].status = "approved"] = approved
    BY <2>1, <2>2
  <2> HIDE DEF voted, approved, q
  <2> QED BY <2>1, <2>3, <2>4, <2>5
<1>2. Asked(q)
  BY DEF Stored
<1>3. /\ Asked(one) /\ one.status = q.status
      /\ Asked(two) /\ two.votes = votes /\ two.status = "approved"
  <2> HIDE DEF q, votes
  <2> QED BY <1>2 DEF Asked
<1> HIDE DEF one, two
<1>4. ASSUME NEW n, NEW e, Asked(e), n = [w EXCEPT !.proposals = [w.proposals EXCEPT ![p] = e]]
      PROVE  /\ Stored(n) /\ Collections(n) /\ n.tasks = w.tasks /\ n.plans = w.plans
             /\ DOMAIN n.proposals = DOMAIN w.proposals /\ n.proposals[p] = e
             /\ \A r \in DOMAIN w.proposals : r # p => n.proposals[r] = w.proposals[r]
  <2>1. /\ Collections(n) /\ n.tasks = w.tasks /\ n.plans = w.plans
        /\ n.proposals = [w.proposals EXCEPT ![p] = e]
    BY <1>4 DEF Stored, Collections
  <2>2. /\ DOMAIN n.proposals = DOMAIN w.proposals /\ n.proposals[p] = e
        /\ \A r \in DOMAIN w.proposals : r # p => n.proposals[r] = w.proposals[r]
    BY <2>1
  <2> QED BY <1>4, <2>1, <2>2 DEF Stored, Collections
<1> HIDE DEF q, votes, voted, approved
<1>5. CASE q.approvers \ votes # {}
  <2>1. /\ Stored(v) /\ Collections(v) /\ v.tasks = w.tasks /\ v.plans = w.plans
        /\ DOMAIN v.proposals = DOMAIN w.proposals /\ v.proposals[p] = one
        /\ \A r \in DOMAIN w.proposals : r # p => v.proposals[r] = w.proposals[r]
    BY <1>1, <1>3, <1>4, <1>5 DEF voted
  <2>2. TasksOn(w, v) /\ ExceptionsOn(w, v) /\ PlansOn(w, v)
    BY <2>1, Untouched
  <2> QED BY <1>3, <2>1, <2>2 DEF VotedOn, Lasting, Stored, q
<1>6. CASE q.approvers \subseteq votes
  <2>1. /\ Stored(approved) /\ approved.tasks = w.tasks /\ approved.plans = w.plans
        /\ DOMAIN approved.proposals = DOMAIN w.proposals /\ approved.proposals[p] = two
        /\ \A r \in DOMAIN w.proposals : r # p => approved.proposals[r] = w.proposals[r]
    BY <1>3, <1>4 DEF approved
  <2>2. v = FieldsApplied(approved, q.target[1], q.target[2], q.fields)
    BY <1>1, <1>6
  <2>3. Carried(approved, v) /\ v.proposals = approved.proposals
    BY <2>1, <2>2, FieldsWritten
  <2>4. Collections(v) /\ TasksOn(w, v) /\ ExceptionsOn(w, v) /\ PlansOn(w, v)
    BY <2>1, <2>3 DEF Carried, TasksOn, ExceptionsOn, PlansOn
  <2>5. \A r \in DOMAIN v.proposals : Asked(v.proposals[r])
    BY <2>1, <2>3 DEF Stored
  <2>6. q.approvers \subseteq v.proposals[p].votes
    BY <1>3, <1>6, <2>1, <2>3
  <2> QED BY <1>1, <2>1, <2>3, <2>4, <2>5, <2>6 DEF VotedOn, Lasting, PlansOn, q
<1> QED BY <1>5, <1>6

---------------------------------------------------------------------------
(* The acceptance of a plan. *)

\* The owner accepts one plan, which is finished, and nothing else changes.
PlanAccepted(w, v, p) ==
  /\ Lasting(w, v) /\ ProposalsOn(w, v) /\ DOMAIN v.plans = DOMAIN w.plans
  /\ \A r \in DOMAIN w.plans : r # p => v.plans[r].status = w.plans[r].status
  /\ p \in DOMAIN w.plans => ~NeedsReview(v, p)

\* Accepting a plan (planAction).
LEMMA AcceptedPlan ==
  ASSUME NEW w, NEW v, NEW u, NEW p, NEW key, Stored(w), AcceptPlan(w, v, u, p, key)
  PROVE  PlanAccepted(w, v, p)
<1> DEFINE e == [w.plans[p] EXCEPT !.status = "accepted"]
<1>1. v = [w EXCEPT !.plans = [w.plans EXCEPT ![p] = e]]
  BY DEF AcceptPlan
<1>2. p \in DOMAIN w.plans => "status" \in DOMAIN e /\ e.refs = w.plans[p].refs
  BY DEF Stored
<1> HIDE DEF e
<1>3. /\ Collections(v) /\ v.tasks = w.tasks /\ v.proposals = w.proposals
      /\ v.plans = [w.plans EXCEPT ![p] = e]
  BY <1>1 DEF Stored, Collections
<1>4. /\ DOMAIN v.plans = DOMAIN w.plans
      /\ \A r \in DOMAIN w.plans : v.plans[r] = IF r = p THEN e ELSE w.plans[r]
  BY <1>3
<1>5. TasksOn(w, v) /\ ExceptionsOn(w, v) /\ ProposalsOn(w, v)
  BY <1>3, Untouched
<1>6. Lasting(w, v)
  BY <1>2, <1>3, <1>4, <1>5 DEF Lasting, Stored
<1>7. ASSUME p \in DOMAIN w.plans PROVE Outstanding(v, p) = {}
  <2>1. PlanTasks(v, p) = PlanTasks(w, p)
    BY <1>2, <1>3, <1>4, <1>7 DEF PlanTasks
  <2>2. Outstanding(v, p) = Outstanding(w, p)
    BY <1>3, <2>1 DEF Outstanding
  <2> QED BY <2>2 DEF AcceptPlan
<1> QED BY <1>4, <1>5, <1>6, <1>7 DEF PlanAccepted, NeedsReview

\* What a dialog shows of a task that is still under its revision is what the task delivered.
ReviewFits(w, d) ==
  d # None =>
    /\ {"plan", "key", "files"} \subseteq DOMAIN d /\ "tasks" \in DOMAIN d.key
    /\ d.files = [t \in {e[1] : e \in d.key.tasks} |-> d.files[t]]
    /\ \A e \in d.key.tasks :
         /\ e[1] \in DOMAIN w.tasks /\ e[2] \in Nat /\ e[2] <= w.tasks[e[1]].revision
         /\ e[2] = w.tasks[e[1]].revision => d.files[e[1]] = w.tasks[e[1]].files
ReviewsFit ==
  review = [u \in Members |-> review[u]] /\ \A u \in Members : ReviewFits(work, review[u])

\* An open dialog fits while tasks move on.
LEMMA ReviewKept ==
  ASSUME NEW w, NEW v, NEW d, Stored(w), TasksOn(w, v), ReviewFits(w, d)
  PROVE  ReviewFits(v, d)
<1> SUFFICES ASSUME d # None, NEW e \in d.key.tasks
             PROVE  /\ e[1] \in DOMAIN v.tasks /\ e[2] \in Nat /\ e[2] <= v.tasks[e[1]].revision
                    /\ e[2] = v.tasks[e[1]].revision => d.files[e[1]] = v.tasks[e[1]].files
  BY DEF ReviewFits
<1> DEFINE t == e[1]
<1>1. /\ t \in DOMAIN w.tasks /\ e[2] \in Nat /\ e[2] <= w.tasks[t].revision
      /\ e[2] = w.tasks[t].revision => d.files[t] = w.tasks[t].files
  BY DEF ReviewFits
<1>2. DOMAIN v.tasks = DOMAIN w.tasks /\ TaskOn(w.tasks[t], v.tasks[t])
      /\ w.tasks[t].revision \in Nat
  BY <1>1 DEF TasksOn, Stored
<1> HIDE DEF t
<1>3. /\ t \in DOMAIN v.tasks /\ e[2] \in Nat /\ e[2] <= v.tasks[t].revision
      /\ e[2] = v.tasks[t].revision => d.files[t] = v.tasks[t].files
  BY <1>1, <1>2 DEF TaskOn
<1> QED BY <1>3 DEF t

\* A dialog that is opened fits.
LEMMA ReviewOpened ==
  ASSUME NEW w, NEW p, Stored(w)
  PROVE  ReviewFits(w, PlanReview(w, p))
<1> DEFINE d == PlanReview(w, p)
           T == PlanTasks(w, p)
           row(t) == <<t, w.tasks[t].revision, w.tasks[t].status, w.tasks[t].skip>>
<1>1. /\ {"plan", "key", "files"} \subseteq DOMAIN d /\ "tasks" \in DOMAIN d.key
      /\ d.files = [t \in T |-> w.tasks[t].files] /\ d.key.tasks = {row(t) : t \in T}
  BY DEF PlanReview, PlanReviewKey
<1>2. T \subseteq DOMAIN w.tasks
  BY DEF PlanTasks
<1> HIDE DEF d, T
<1>3. ASSUME NEW e \in d.key.tasks
      PROVE  /\ e[1] \in T /\ e[1] \in DOMAIN w.tasks /\ e[2] = w.tasks[e[1]].revision
             /\ e[2] \in Nat /\ d.files[e[1]] = w.tasks[e[1]].files
  BY <1>1, <1>2 DEF Stored
<1>4. {e[1] : e \in d.key.tasks} = T
  <2>1. \A t \in T : row(t) \in d.key.tasks /\ row(t)[1] = t
    BY <1>1
  <2> QED BY <1>3, <2>1
<1> QED BY <1>1, <1>3, <1>4 DEF ReviewFits, d

\* A dialog that fits and is current shows what its plan's tasks delivered.
LEMMA ReviewShows ==
  ASSUME NEW w, NEW d, Stored(w), ReviewFits(w, d), d # None, ~PlanChanged(w, d)
  PROVE  d.files = PlanReview(w, d.plan).files
<1> DEFINE T == PlanTasks(w, d.plan)
           row(t) == <<t, w.tasks[t].revision, w.tasks[t].status, w.tasks[t].skip>>
<1>1. d.key.tasks = {row(t) : t \in T}
  BY DEF PlanChanged, PlanReviewKey
<1>2. PlanReview(w, d.plan).files = [t \in T |-> w.tasks[t].files]
  BY DEF PlanReview
<1> HIDE DEF T
<1>3. {e[1] : e \in d.key.tasks} = T
  <2>1. \A t \in T : row(t) \in d.key.tasks /\ row(t)[1] = t
    BY <1>1
  <2>2. \A e \in d.key.tasks : e[1] \in T
    BY <1>1
  <2> QED BY <2>1, <2>2
<1>4. ASSUME NEW t \in T PROVE d.files[t] = w.tasks[t].files
  <2>1. row(t) \in d.key.tasks /\ row(t)[1] = t /\ row(t)[2] = w.tasks[t].revision
    BY <1>1
  <2> QED BY <2>1 DEF ReviewFits
<1> QED BY <1>2, <1>3, <1>4 DEF ReviewFits

---------------------------------------------------------------------------

\* The inductive invariant.
IInv == Stored(work) /\ WaiverStands /\ ReviewsFit

\* The steps of one person that carry the state.
Carrying(u) ==
  \/ Draft(u) \/ Change(u) \/ Discard(u) \/ ConfirmTask(u) \/ ConfirmPlan(u)
  \/ Refuse(u) \/ Replace(u) \/ Begin(u) \/ Deliver(u) \/ Accept(u)

\* Every one of them carries the state and opens no dialog.
LEMMA CarryingSteps ==
  ASSUME Stored(work), NEW u \in Members, Carrying(u)
  PROVE  Carried(work, work') /\ UNCHANGED review
<1> USE DEF Act
<1>1. CASE Draft(u)
  BY <1>1, DraftUpdated DEF Draft
<1>2. CASE Change(u)
  BY <1>2, ChangeProposed DEF Change
<1>3. CASE Discard(u)
  BY <1>3, Discarded DEF Discard
<1>4. CASE ConfirmTask(u)
  BY <1>4, DraftDecided DEF ConfirmTask
<1>5. CASE ConfirmPlan(u)
  BY <1>5, PlanActivated DEF ConfirmPlan
<1>6. CASE Refuse(u)
  BY <1>6, Refused DEF Refuse
<1>7. CASE Replace(u)
  BY <1>7, SeatReplaced DEF Replace
<1>8. CASE Begin(u)
  BY <1>8, MovedTask DEF Begin, StartTask
<1>9. CASE Deliver(u)
  BY <1>9, Delivered DEF Deliver
<1>10. CASE Accept(u)
  BY <1>10, MovedTask DEF Accept, AcceptTask
<1> QED BY <1>1, <1>2, <1>3, <1>4, <1>5, <1>6, <1>7, <1>8, <1>9, <1>10 DEF Carrying

\* Skipping and restoring make and end exceptions and open no dialog.
LEMMA ExceptionSteps ==
  ASSUME Stored(work), NEW u \in Members, Skip(u) \/ Restore(u)
  PROVE  Excepting(work, work') /\ UNCHANGED review
<1> USE DEF Act
<1>1. CASE Skip(u)
  BY <1>1, ExceptionMade DEF Skip, SkipTask
<1>2. CASE Restore(u)
  BY <1>2, ExceptionMade DEF Restore, RestoreTask
<1> QED BY <1>1, <1>2

\* A vote is on one of the proposals.
LEMMA VoteSteps ==
  ASSUME Stored(work), NEW u \in Members, Vote(u)
  PROVE  (\E p \in DOMAIN work.proposals : VotedOn(work, work', p)) /\ UNCHANGED review
BY Voted DEF Vote, Act

\* Every step is one of these.
LEMMA NextKinds ==
  ASSUME Next
  PROVE  \E u \in Members : \/ Carrying(u) \/ (Skip(u) \/ Restore(u)) \/ Vote(u)
                            \/ OpenReview(u) \/ CloseReview(u) \/ ConfirmReview(u)
BY DEF Next, Carrying

\* The loaded state satisfies it, and no dialog is open.
LEMMA InitIInv == Init => IInv
BY StartAssumption DEF Init, IInv, WaiverStands, ReviewsFit, ReviewFits

\* What lasts keeps the invariant, when no dialog is opened.
LEMMA LastingSteps ==
  ASSUME IInv, Stored(work'), WaiversStand(work'), TasksOn(work, work'),
         \/ UNCHANGED review
         \/ \E u \in Members : review' = [review EXCEPT ![u] = None]
  PROVE  IInv'
<1>1. \A u \in Members : ReviewFits(work', review[u])
  BY ReviewKept DEF IInv, ReviewsFit
<1>2. ReviewsFit'
  <2>1. CASE UNCHANGED review
    BY <1>1, <2>1 DEF IInv, ReviewsFit
  <2>2. ASSUME NEW u \in Members, review' = [review EXCEPT ![u] = None] PROVE ReviewsFit'
    <3>1. ReviewFits(work', None)
      BY DEF ReviewFits
    <3>2. review = [m \in Members |-> review[m]]
      BY DEF IInv, ReviewsFit
    <3>3. /\ review' = [m \in Members |-> review'[m]]
          /\ \A m \in Members : review'[m] = None \/ review'[m] = review[m]
      BY <2>2, <3>2
    <3> QED BY <1>1, <3>1, <3>3 DEF ReviewsFit
  <2> QED BY <2>1, <2>2
<1> QED BY <1>2 DEF IInv, WaiverStands

\* Every step preserves it.
LEMMA StepIInv == IInv /\ [Next]_vars => IInv'
<1> SUFFICES ASSUME IInv, [Next]_vars PROVE IInv'
  OBVIOUS
<1>0. Stored(work) /\ WaiversStand(work)
  BY DEF IInv, WaiverStands
<1>1. CASE UNCHANGED vars
  BY <1>1 DEF vars, IInv, WaiverStands, ReviewsFit, Members
<1>2. ASSUME NEW u \in Members, Carrying(u) PROVE IInv'
  BY <1>0, <1>2, CarryingSteps, CarriedLasts, LastingStored, LastingSteps DEF Lasting
<1>3. ASSUME NEW u \in Members, Skip(u) \/ Restore(u) PROVE IInv'
  BY <1>0, <1>3, ExceptionSteps, LastingSteps DEF Excepting
<1>4. ASSUME NEW u \in Members, Vote(u) PROVE IInv'
  BY <1>0, <1>4, VoteSteps, LastingStored, LastingSteps DEF VotedOn, Lasting
<1>5. ASSUME NEW u \in Members, OpenReview(u) PROVE IInv'
  <2>1. PICK p : review' = [review EXCEPT ![u] = PlanReview(work, p)]
    BY <1>5 DEF OpenReview
  <2>2. UNCHANGED work
    BY <1>5 DEF OpenReview
  <2>3. ReviewFits(work, PlanReview(work, p))
    BY <1>0, ReviewOpened
  <2>4. ReviewsFit'
    BY <2>1, <2>2, <2>3 DEF IInv, ReviewsFit, Members
  <2> QED BY <1>0, <2>2, <2>4 DEF IInv, WaiverStands
<1>6. ASSUME NEW u \in Members, CloseReview(u) PROVE IInv'
  <2>1. UNCHANGED work /\ review' = [review EXCEPT ![u] = None]
    BY <1>6 DEF CloseReview
  <2>2. TasksOn(work, work')
    BY <1>0, <2>1, Untouched
  <2> QED BY <1>0, <2>1, <2>2, LastingSteps
<1>7. ASSUME NEW u \in Members, ConfirmReview(u) PROVE IInv'
  <2>1. Lasting(work, work')
    BY <1>0, <1>7, AcceptedPlan DEF ConfirmReview, PlanAccepted
  <2>2. review' = [review EXCEPT ![u] = None]
    BY <1>7 DEF ConfirmReview
  <2> QED BY <1>0, <2>1, <2>2, LastingStored, LastingSteps DEF Lasting
<1> QED BY <1>1, <1>2, <1>3, <1>4, <1>5, <1>6, <1>7, NextKinds

\* IInv holds in every reachable state.
THEOREM Invariant == Spec => []IInv
BY InitIInv, StepIInv, PTL DEF Spec

\* A condition is waived only while the exception that waives it is in force, and one taken over
\* from a skipped task goes with the exception, however tasks are skipped, restored and edited
\* (changeDemoExecution, applyDemoWorkFields).
THEOREM WaiversAlwaysStand == Spec => []WaiverStands
<1>1. IInv => WaiverStands
  BY DEF IInv
<1> QED BY <1>1, Invariant, PTL

\* Skipping and restoring leave every task behind exactly the conditions that still bind it
\* (changeDemoExecution, effectiveRequirements): what the expansion along the tasks on the way
\* comes to is what is reached from the task at all.
THEOREM ExceptionsAreWorkedOut == Spec => ExceptionsWorkedOut
<1> DEFINE A == (\E t \in DOMAIN work.tasks : work'.tasks[t].skip # work.tasks[t].skip) =>
                  \A c \in DOMAIN work'.tasks :
                    {Blocking(q, q.at) : q \in {e \in work'.tasks[c].reqs : e.hard /\ ~e.waived}}
                      = Binding(work', c)
<1>1. IInv /\ [Next]_vars => [A]_vars
  <2> SUFFICES ASSUME IInv, Next,
                      NEW t \in DOMAIN work.tasks, work'.tasks[t].skip # work.tasks[t].skip
               PROVE  WorkedOut(work')
    BY DEF WorkedOut
  <2>0. Stored(work)
    BY DEF IInv
  <2>1. ~ExceptionsOn(work, work')
    BY DEF ExceptionsOn
  <2>2. PICK u \in Members : Skip(u) \/ Restore(u)
    <3>1. \A u \in Members : ~Carrying(u) /\ ~Vote(u)
      BY <2>0, <2>1, CarryingSteps, VoteSteps DEF Carried, VotedOn, Lasting
    <3>2. \A u \in Members : ~OpenReview(u) /\ ~CloseReview(u)
      BY DEF OpenReview, CloseReview
    <3>3. \A u \in Members : ~ConfirmReview(u)
      BY <2>0, <2>1, AcceptedPlan DEF ConfirmReview, PlanAccepted, Lasting
    <3> QED BY <3>1, <3>2, <3>3, NextKinds
  <2> QED BY <2>0, <2>2, ExceptionSteps DEF Excepting
<1> HIDE DEF A
<1>2. Spec => [][A]_vars
  BY <1>1, Invariant, PTL DEF Spec
<1> QED BY <1>2 DEF ExceptionsWorkedOut, A

\* A change of work takes effect with the votes of all who hold the bound seats at that moment, on
\* the version of the work it was made for (decideProposal, proposalIsCurrent).
THEOREM HoldersApprove == Spec => ApprovedByHolders
<1> DEFINE A == \A p \in DOMAIN work.proposals :
                  LET q == work.proposals[p]
                  IN q.status = "pending" /\ work'.proposals[p].status = "approved"
                       => /\ {SeatPerson(work, b[1]) : b \in q.bindings} \ {None}
                               \subseteq work'.proposals[p].votes
                          /\ q.target # None =>
                               Object(work, q.target[1], q.target[2]).revision = q.version
<1>1. IInv /\ [Next]_vars => [A]_vars
  <2> SUFFICES ASSUME IInv, Next, NEW p \in DOMAIN work.proposals,
                      work.proposals[p].status = "pending",
                      work'.proposals[p].status = "approved"
               PROVE  LET q == work.proposals[p]
                      IN /\ {SeatPerson(work, b[1]) : b \in q.bindings} \ {None}
                              \subseteq work'.proposals[p].votes
                         /\ q.target # None =>
                              Object(work, q.target[1], q.target[2]).revision = q.version
    OBVIOUS
  <2>0. Stored(work)
    BY DEF IInv
  <2>1. ~ProposalsOn(work, work')
    BY DEF ProposalsOn, ProposalOn
  <2>2. PICK u \in Members : Vote(u)
    <3>1. \A u \in Members : ~Carrying(u) /\ ~Skip(u) /\ ~Restore(u)
      BY <2>0, <2>1, CarryingSteps, ExceptionSteps DEF Carried, Excepting
    <3>2. \A u \in Members : ~OpenReview(u) /\ ~CloseReview(u)
      BY DEF OpenReview, CloseReview
    <3>3. \A u \in Members : ~ConfirmReview(u)
      BY <2>0, <2>1, AcceptedPlan DEF ConfirmReview, PlanAccepted
    <3> QED BY <3>1, <3>2, <3>3, NextKinds
  <2>3. VotedOn(work, work', p)
    BY <2>0, <2>2, VoteSteps DEF VotedOn
  <2> DEFINE q == work.proposals[p]
  <2>4. /\ q.approvers \subseteq work'.proposals[p].votes
        /\ ProposalIsCurrent(work, q) /\ People(q.bindings) \subseteq q.approvers
    BY <2>0, <2>3 DEF VotedOn, Stored, Asked
  <2>5. \A b \in q.bindings : SeatPerson(work, b[1]) = b[2]
    BY <2>4 DEF ProposalIsCurrent
  <2>6. {SeatPerson(work, b[1]) : b \in q.bindings} \ {None} \subseteq People(q.bindings)
    BY <2>5 DEF People
  <2>7. q.target # None => Object(work, q.target[1], q.target[2]).revision = q.version
    BY <2>4 DEF ProposalIsCurrent
  <2> QED BY <2>4, <2>6, <2>7
<1> HIDE DEF A
<1>2. Spec => [][A]_vars
  BY <1>1, Invariant, PTL DEF Spec
<1> QED BY <1>2 DEF ApprovedByHolders, A

\* A plan is accepted with the results its owner's dialog showed, and none of them is open
\* (planAction, planReviewKey).
THEOREM PlansAcceptedAsReviewed == Spec => PlanAcceptedAsReviewed
<1> DEFINE A == \A p \in DOMAIN work.plans :
                  work.plans[p].status = "active" /\ work'.plans[p].status = "accepted" =>
                    /\ \E u \in Members : /\ review[u] # None /\ review[u].plan = p
                                          /\ review[u].files = PlanReview(work, p).files
                    /\ ~NeedsReview(work', p)
<1>1. IInv /\ [Next]_vars => [A]_vars
  <2> SUFFICES ASSUME IInv, Next, NEW p \in DOMAIN work.plans,
                      work.plans[p].status = "active", work'.plans[p].status = "accepted"
               PROVE  /\ \E u \in Members : /\ review[u] # None /\ review[u].plan = p
                                            /\ review[u].files = PlanReview(work, p).files
                      /\ ~NeedsReview(work', p)
    OBVIOUS
  <2>0. Stored(work)
    BY DEF IInv
  <2>1. ~PlansOn(work, work')
    BY DEF PlansOn
  <2>2. PICK u \in Members : ConfirmReview(u)
    <3>1. \A u \in Members : ~Carrying(u) /\ ~Skip(u) /\ ~Restore(u) /\ ~Vote(u)
      BY <2>0, <2>1, CarryingSteps, ExceptionSteps, VoteSteps DEF Carried, Excepting, VotedOn
    <3>2. \A u \in Members : ~OpenReview(u) /\ ~CloseReview(u)
      BY DEF OpenReview, CloseReview
    <3> QED BY <3>1, <3>2, NextKinds
  <2>3. PlanAccepted(work, work', review[u].plan)
    BY <2>0, <2>2, AcceptedPlan DEF ConfirmReview
  <2>4. review[u].plan = p /\ ~NeedsReview(work', p)
    BY <2>3 DEF PlanAccepted
  <2>5. review[u].files = PlanReview(work, p).files
    BY <2>0, <2>2, <2>4, ReviewShows DEF IInv, ReviewsFit, ConfirmReview
  <2> QED BY <2>2, <2>4, <2>5 DEF ConfirmReview
<1> HIDE DEF A
<1>2. Spec => [][A]_vars
  BY <1>1, Invariant, PTL DEF Spec
<1> QED BY <1>2 DEF PlanAcceptedAsReviewed, A
=============================================================================
