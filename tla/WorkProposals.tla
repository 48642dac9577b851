---------------------------- MODULE WorkProposals ----------------------------
(***************************************************************************)
(* Work proposals of the preview (features/chat/proposalModel.ts, the      *)
(* change of confirmed work of demoRuntime.ts): an arrangement of new work *)
(* out of a topic, or a change of one plan or task, that everyone it binds *)
(* has to approve.                                                         *)
(***************************************************************************)
EXTENDS WorkRuntime

Holders(w, seats) == {<<x, SeatPerson(w, x)>> : x \in seats}
People(bindings) == {b[2] : b \in bindings} \ {None}
FlowVersion(w) == w.flows["delivery"].version

\* Whether a person may do the given step of the flow from the seat.
Fits(w, x, node) ==
  /\ x \in DOMAIN w.seats /\ w.seats[x].position \in DOMAIN w.positions
  /\ <<"delivery", node>> \in w.positions[w.seats[x].position]

\* Mutant: whoever holds the seats by now.
ProposalIsCurrentForSeats(w, p) ==
  /\ FlowVersion(w) = p.flowVersion
  /\ IF p.target # None
     THEN Object(w, p.target[1], p.target[2]).revision = p.version
     ELSE /\ \A b \in p.bindings : Member(w, b[2])
          /\ \A i \in DOMAIN p.tasks : Fits(w, p.tasks[i].seat, p.tasks[i].node)

ProposalIsCurrent(w, p) ==
  /\ FlowVersion(w) = p.flowVersion
  /\ \A b \in p.bindings : SeatPerson(w, b[1]) = b[2]
  /\ IF p.target # None
     THEN Object(w, p.target[1], p.target[2]).revision = p.version
     ELSE /\ \A b \in p.bindings : Member(w, b[2])
          /\ \A i \in DOMAIN p.tasks : Fits(w, p.tasks[i].seat, p.tasks[i].node)

Proposed(target, topic, sender, flow, bindings) ==
  [target |-> target, topic |-> topic, sender |-> sender, flowVersion |-> flow,
   bindings |-> bindings, approvers |-> People(bindings), votes |-> {}, status |-> "pending",
   revision |-> 1, previous |-> None, version |-> 0, fields |-> <<>>, owner |-> None,
   tasks |-> <<>>, after |-> 0, plan |-> None]

\* input has an owner seat and a sequence of tasks, each after some of the earlier ones; previous
\* is a rejected proposal of the same sender that nobody has answered yet, or None.
InputFits(w, input) ==
  /\ input.tasks # <<>>
  /\ \A i \in DOMAIN input.tasks :
       /\ input.tasks[i].node \in Nodes(w, "delivery")
       /\ \A a \in input.tasks[i].after : a \in 1..(i - 1)
       /\ Fits(w, input.tasks[i].seat, input.tasks[i].node)

Answerable(w, u, topic, previous) ==
  /\ previous \in DOMAIN w.proposals
  /\ w.proposals[previous].topic = topic
  /\ w.proposals[previous].status = "rejected" /\ w.proposals[previous].sender = u
  /\ \A q \in DOMAIN w.proposals : w.proposals[q].previous # previous

SubmitProposal(w, v, u, ids, topic, input, previous) ==
  LET seats == {input.owner} \cup
               UNION {{input.tasks[i].seat, input.tasks[i].reviewer} : i \in DOMAIN input.tasks}
      bindings == Holders(w, seats)
  IN /\ Member(w, u) /\ HasRoom(ids, w.proposals)
     /\ w.flows["delivery"].status # "draft"
     /\ \A b \in bindings : /\ Member(w, b[2])
                            /\ w.seats[b[1]].position \in DOMAIN w.positions
     /\ InputFits(w, input)
     /\ previous # None => Answerable(w, u, topic, previous)
     /\ v = [w EXCEPT !.proposals = Put(@, Fresh(ids, @),
          [Proposed(None, topic, u, FlowVersion(w), bindings) EXCEPT
            !.revision = IF previous = None THEN 1 ELSE w.proposals[previous].revision + 1,
            !.previous = previous, !.owner = input.owner, !.tasks = input.tasks,
            !.after = LastSeq(w, topic)])]

\* A change of confirmed work binds the people of the work as it is and as it would be.  With
\* nobody on the work the owner of the project approves.
ProposeWorkChange(w, v, u, ids, kind, o, version, fields) ==
  LET now == Object(w, kind, o)
      plan == IF kind = "plan" THEN o ELSE now.plan
      old == (IF kind = "task" THEN now.seats \cup {now.reviewer} ELSE {}) \cup
             (IF plan \in DOMAIN w.plans THEN {w.plans[plan].owner} ELSE {})
      new == UNION {IF k = "seats" THEN fields[k] ELSE {fields[k]} :
                      k \in DOMAIN fields \cap {"seats", "reviewer", "owner"}}
      bindings == Holders(w, old \cup new)
      owners == {m \in DOMAIN w.members : w.members[m] = "owner"}
      topic == IF kind = "task" /\ now.main # None THEN now.main
               ELSE IF plan \in DOMAIN w.plans THEN w.plans[plan].main ELSE None
      p == Proposed(<<kind, o>>, topic, u, FlowVersion(w), bindings)
  IN /\ MayPropose(w, u, kind, o) /\ now.revision = version /\ HasRoom(ids, w.proposals)
     /\ v = [w EXCEPT !.proposals = Put(@, Fresh(ids, @),
          [p EXCEPT !.version = version, !.fields = fields,
                    !.owner = IF plan \in DOMAIN w.plans THEN w.plans[plan].owner ELSE None,
                    !.approvers = IF @ = {} THEN owners ELSE @])]

---------------------------------------------------------------------------

MayDecide(w, u, p, revision) ==
  LET q == w.proposals[p]
  IN /\ q.status = "pending" /\ q.revision = revision /\ u \notin q.votes
     /\ Member(w, u) /\ u \in q.approvers

RejectProposal(w, v, u, p, revision) ==
  /\ MayDecide(w, u, p, revision)
  /\ v = [w EXCEPT !.proposals[p].status = "rejected"]

\* The work an approved arrangement creates: an active plan, its ready tasks, each behind the
\* tasks it comes after, and a main topic forked from the topic it was proposed in.
Predecessor(ids, a) ==
  [id |-> <<"after", a>>, kind |-> "task", ref |-> ids[a], at |-> "both",
   hard |-> TRUE, waived |-> FALSE, from |-> None]

ArrangedTask(plan, ids, t) ==
  [plan |-> plan, parent |-> None, seats |-> {t.seat}, reviewer |-> t.reviewer,
   status |-> "ready", revision |-> 1, files |-> 0,
   reqs |-> {Predecessor(ids, a) : a \in t.after},
   skip |-> None, discarded |-> FALSE, by |-> None, main |-> None]

FreshSequence(n, pool, f) ==
  CHOOSE s \in [1..n -> pool \ DOMAIN f] : \A i, j \in 1..n : i # j => s[i] # s[j]

Arrangement(w, planIds, taskIds, p) ==
  LET q == w.proposals[p]
      plan == Fresh(planIds, w.plans)
      main == <<"main", plan>>
      ids == FreshSequence(Len(q.tasks), taskIds, w.tasks)
      new == {ids[i] : i \in DOMAIN ids}
      at(t) == CHOOSE i \in DOMAIN ids : ids[i] = t
  IN [w EXCEPT
       !.proposals[p].plan = plan,
       !.plans = Put(@, plan,
          [owner |-> q.owner, status |-> "active", revision |-> 1, refs |-> {},
           discarded |-> FALSE, by |-> None, main |-> main]),
       !.tasks = [t \in DOMAIN @ \cup new |->
          IF t \in new THEN ArrangedTask(plan, ids, q.tasks[at(t)]) ELSE @[t]],
       !.topics = Put([w.topics EXCEPT ![q.topic].plans = @ \cup {plan},
                                       ![q.topic].tasks = @ \cup new],
                      main, Topic({plan}, {}, plan, q.topic, q.after))]

ApproveProposal(w, v, u, planIds, taskIds, p, revision) ==
  LET q == w.proposals[p]
      voted == [w EXCEPT !.proposals[p].votes = @ \cup {u}]
      approved == [voted EXCEPT !.proposals[p].status = "approved"]
  IN /\ MayDecide(w, u, p, revision) /\ ProposalIsCurrent(w, q)
     /\ q.target = None => /\ HasRoom(planIds, w.plans)
                           /\ Cardinality(taskIds \ DOMAIN w.tasks) >= Len(q.tasks)
     /\ v = IF q.approvers \ (q.votes \cup {u}) # {} THEN voted
            ELSE IF q.target # None
            THEN FieldsApplied(approved, q.target[1], q.target[2], q.fields)
            ELSE Arrangement(approved, planIds, taskIds, p)
=============================================================================
