--------------------------- MODULE TeamBoardProofs ---------------------------
(***************************************************************************)
(* Proofs about TeamBoard for every stored state the store may be loaded   *)
(* with, every library and every number of people.                         *)
(*                                                                         *)
(* A state is Sound when it is stored and its seats and votes belong to    *)
(* members.  Most commands write nothing of that (Alike); the others are   *)
(* proved one by one.  The open dialog keeps its tasks in order because    *)
(* the flow and the proposals it starts from do.                           *)
(***************************************************************************)
EXTENDS TeamBoard, SequenceTheorems, TLAPS

Sound(w) == Stored(w) /\ SeatsHeld(w)

\* The people, their seats, who is asked to vote on what, and the steps of the flow are the same.
Alike(w, v) ==
  /\ {"members", "seats", "proposals", "flows"} \subseteq DOMAIN v
  /\ v.members = w.members /\ v.seats = w.seats
  /\ DOMAIN v.proposals = DOMAIN w.proposals
  /\ \A p \in DOMAIN w.proposals :
       /\ {"approvers", "tasks"} \subseteq DOMAIN v.proposals[p]
       /\ v.proposals[p].approvers = w.proposals[p].approvers
       /\ v.proposals[p].tasks = w.proposals[p].tasks
  /\ "delivery" \in DOMAIN v.flows /\ "nodes" \in DOMAIN v.flows["delivery"]
  /\ v.flows["delivery"].nodes = w.flows["delivery"].nodes

\* Nothing Alike speaks of is written at all.
Elsewhere(w, v) ==
  /\ {"members", "seats", "proposals", "flows"} \subseteq DOMAIN v
  /\ v.members = w.members /\ v.seats = w.seats /\ v.proposals = w.proposals /\ v.flows = w.flows

\* A state that is alike a sound one is sound.
LEMMA AlikeSound ==
  ASSUME NEW w, NEW v, Sound(w), Alike(w, v)
  PROVE  Sound(v)
BY DEF Sound, Stored, SeatsHeld, Alike, Member

\* Writing elsewhere leaves a state alike.
LEMMA ElsewhereAlike ==
  ASSUME NEW w, NEW v, Sound(w), Elsewhere(w, v)
  PROVE  Alike(w, v)
BY DEF Sound, Stored, Alike, Elsewhere

---------------------------------------------------------------------------
(* Commands that write something else. *)

\* The main topics that are made up for plans change topics and plans only.
LEMMA MainTopics ==
  ASSUME NEW w, {"members", "seats", "proposals", "flows"} \subseteq DOMAIN w
  PROVE  Elsewhere(w, EnsureMainTopics(w))
BY DEF EnsureMainTopics, Elsewhere

\* A new plan writes plans and topics.
LEMMA PlanCreated ==
  ASSUME NEW w, NEW v, NEW u, NEW ids, NEW x, Sound(w), CreatePlan(w, v, u, ids, x)
  PROVE  Alike(w, v)
<1>1. PICK plans : v = EnsureMainTopics([w EXCEPT !.plans = plans])
  BY DEF CreatePlan
<1> DEFINE n == [w EXCEPT !.plans = plans]
<1>2. Elsewhere(w, n)
  BY DEF Elsewhere, Sound, Stored
<1> HIDE DEF n
<1>3. v = EnsureMainTopics(n)
  BY <1>1 DEF n
<1>4. Elsewhere(n, v)
  BY <1>2, <1>3, MainTopics DEF Elsewhere
<1>5. Elsewhere(w, v)
  BY <1>2, <1>4 DEF Elsewhere
<1> QED BY <1>5, ElsewhereAlike

\* A new task writes the tasks.
LEMMA TaskCreated ==
  ASSUME NEW w, NEW v, NEW u, NEW ids, NEW x, NEW p, NEW parent, Sound(w),
         CreateTask(w, v, u, ids, x, p, parent)
  PROVE  Alike(w, v)
<1>1. PICK tasks : v = [w EXCEPT !.tasks = tasks]
  BY DEF CreateTask
<1>2. Elsewhere(w, v)
  BY <1>1 DEF Elsewhere, Sound, Stored
<1> QED BY <1>2, ElsewhereAlike

\* A saved position writes the positions.
LEMMA PositionSaved ==
  ASSUME NEW w, NEW v, NEW u, NEW ids, NEW pos, NEW bound, Sound(w),
         SavePosition(w, v, u, ids, pos, bound)
  PROVE  Alike(w, v)
<1>1. PICK positions : v = [w EXCEPT !.positions = positions]
  BY DEF SavePosition
<1>2. Elsewhere(w, v)
  BY <1>1 DEF Elsewhere, Sound, Stored
<1> QED BY <1>2, ElsewhereAlike

\* Imported positions write the positions.
LEMMA PositionsImported ==
  ASSUME NEW w, NEW v, NEW u, NEW roles, Sound(w), ImportPositionPresets(w, v, u, roles)
  PROVE  Alike(w, v)
<1>1. PICK positions : v = [w EXCEPT !.positions = positions]
  BY DEF ImportPositionPresets
<1>2. Elsewhere(w, v)
  BY <1>1 DEF Elsewhere, Sound, Stored
<1> QED BY <1>2, ElsewhereAlike

\* An invitation writes the invitations.
LEMMA Invited ==
  ASSUME NEW w, NEW v, NEW u, NEW ids, NEW person, NEW positions, Sound(w),
         InvitePerson(w, v, u, ids, person, positions)
  PROVE  Alike(w, v)
<1>1. PICK invites : v = [w EXCEPT !.invites = invites]
  BY DEF InvitePerson
<1>2. Elsewhere(w, v)
  BY <1>1 DEF Elsewhere, Sound, Stored
<1> QED BY <1>2, ElsewhereAlike

\* A personal prompt writes the prompts.
LEMMA Prompted ==
  ASSUME NEW w, NEW v, NEW u, NEW pos, NEW revision, Sound(w),
         PersonalPrompt(w, v, u, pos, revision)
  PROVE  Alike(w, v)
<1>1. PICK prompts : v = [w EXCEPT !.prompts = prompts]
  BY DEF PersonalPrompt
<1>2. Elsewhere(w, v)
  BY <1>1 DEF Elsewhere, Sound, Stored
<1> QED BY <1>2, ElsewhereAlike

---------------------------------------------------------------------------
(* Flows: their steps stay. *)

\* A state with other flows is alike when the steps of the delivery flow are the same.
LEMMA FlowWritten ==
  ASSUME NEW w, NEW v, NEW flows, Sound(w), v = [w EXCEPT !.flows = flows],
         "delivery" \in DOMAIN flows, "nodes" \in DOMAIN flows["delivery"],
         flows["delivery"].nodes = w.flows["delivery"].nodes
  PROVE  Alike(w, v)
BY DEF Alike, Sound, Stored

\* A new flow has a key of its own.
LEMMA FlowCreated ==
  ASSUME NEW w, NEW v, NEW u, NEW ids, NEW nodes, Sound(w), CreateFlow(w, v, u, ids, nodes)
  PROVE  Alike(w, v)
<1> DEFINE id == Fresh(ids, w.flows)
<1>1. PICK f : v = [w EXCEPT !.flows = Put(w.flows, id, f)]
  BY DEF CreateFlow
<1>2. id \notin DOMAIN w.flows
  BY DEF CreateFlow, HasRoom, Fresh
<1> HIDE DEF id
<1>3. LET flows == Put(w.flows, id, f)
      IN "delivery" \in DOMAIN flows /\ flows["delivery"] = w.flows["delivery"]
  BY <1>2 DEF Put, Sound, Stored
<1> QED BY <1>1, <1>3, FlowWritten DEF Sound, Stored

\* Imported flows have keys of their own.
LEMMA FlowsImported ==
  ASSUME NEW w, NEW v, NEW u, NEW presets, Sound(w), ImportWorkflowPresets(w, v, u, presets)
  PROVE  Alike(w, v)
<1> DEFINE flows == [f \in DOMAIN w.flows \cup DOMAIN presets |->
                       IF f \in DOMAIN w.flows THEN w.flows[f]
                       ELSE [status |-> "draft", version |-> 1, definition |-> 1,
                             nodes |-> presets[f], draft |-> 1]]
<1>1. v = [w EXCEPT !.flows = flows]
  BY DEF ImportWorkflowPresets
<1>2. "delivery" \in DOMAIN flows /\ flows["delivery"] = w.flows["delivery"]
  BY DEF Sound, Stored
<1> HIDE DEF flows
<1> QED BY <1>1, <1>2, FlowWritten DEF Sound, Stored

\* A draft of a flow keeps its released steps.
LEMMA FlowDrafted ==
  ASSUME NEW w, NEW v, NEW u, NEW f, NEW definition, Sound(w), SaveFlowDraft(w, v, u, f, definition)
  PROVE  Alike(w, v)
<1>1. PICK n, d : v = [w EXCEPT !.flows[f].definition = n, !.flows[f].draft = d]
  BY DEF SaveFlowDraft
<1> DEFINE one == [w.flows EXCEPT ![f].definition = n]
           flows == [one EXCEPT ![f].draft = d]
<1>2. v = [w EXCEPT !.flows = flows]
  BY <1>1 DEF Sound, Stored
<1>3. "delivery" \in DOMAIN one /\ "nodes" \in DOMAIN one["delivery"]
      /\ one["delivery"].nodes = w.flows["delivery"].nodes
  BY DEF Sound, Stored
<1> HIDE DEF one
<1>4. "delivery" \in DOMAIN flows /\ "nodes" \in DOMAIN flows["delivery"]
      /\ flows["delivery"].nodes = w.flows["delivery"].nodes
  BY <1>3
<1> HIDE DEF flows
<1> QED BY <1>2, <1>4, FlowWritten

\* A release is the flow with a higher version.
LEMMA FlowReleased ==
  ASSUME NEW w, NEW v, NEW u, NEW f, NEW definition, Sound(w),
         PublishFlowDraft(w, v, u, f, definition)
  PROVE  Alike(w, v)
<1>1. PICK a, b, c, d :
        v = [w EXCEPT !.flows[f] = [w.flows[f] EXCEPT !.version = a, !.definition = b,
                                                      !.status = c, !.draft = d]]
  BY DEF PublishFlowDraft
<1> DEFINE g == [w.flows[f] EXCEPT !.version = a, !.definition = b, !.status = c, !.draft = d]
           flows == [w.flows EXCEPT ![f] = g]
<1>2. "nodes" \in DOMAIN w.flows[f] => "nodes" \in DOMAIN g /\ g.nodes = w.flows[f].nodes
  OBVIOUS
<1> HIDE DEF g
<1>3. v = [w EXCEPT !.flows = flows]
  BY <1>1 DEF g, Sound, Stored
<1>4. "delivery" \in DOMAIN flows /\ "nodes" \in DOMAIN flows["delivery"]
      /\ flows["delivery"].nodes = w.flows["delivery"].nodes
  BY <1>2 DEF Sound, Stored
<1> HIDE DEF flows
<1> QED BY <1>3, <1>4, FlowWritten

---------------------------------------------------------------------------
(* People and their seats. *)

\* Members only grow and seats go to members: the state stays sound.
LEMMA TeamWritten ==
  ASSUME NEW w, NEW v, Sound(w),
         {"members", "seats", "proposals", "flows"} \subseteq DOMAIN v,
         v.proposals = w.proposals, v.flows = w.flows,
         DOMAIN w.members \subseteq DOMAIN v.members,
         \A x \in DOMAIN v.seats :
           /\ "person" \in DOMAIN v.seats[x]
           /\ \/ x \in DOMAIN w.seats /\ v.seats[x] = w.seats[x]
              \/ v.seats[x].person \in DOMAIN v.members
  PROVE  Sound(v)
BY DEF Sound, Stored, SeatsHeld, Member

\* New seats are those of the person; the others stay.
LEMMA SeatedOnes ==
  ASSUME NEW w, NEW ids, NEW person, NEW positions
  PROVE  LET seats == Seated(w, ids, person, positions)
         IN \A x \in DOMAIN seats :
              IF x \in DOMAIN w.seats THEN seats[x] = w.seats[x]
              ELSE "person" \in DOMAIN seats[x] /\ seats[x].person = person
<1> DEFINE new == CHOOSE f \in [positions -> ids \ DOMAIN w.seats] :
                    \A a, b \in positions : a # b => f[a] # f[b]
           Holding(x) == CHOOSE a \in positions : new[a] = x
           seats == [x \in DOMAIN w.seats \cup {new[a] : a \in positions} |->
                       IF x \in DOMAIN w.seats THEN w.seats[x]
                       ELSE [position |-> Holding(x), person |-> person]]
<1>1. Seated(w, ids, person, positions) = seats
  BY DEF Seated
<1> HIDE DEF new, Holding
<1>2. \A x \in DOMAIN seats :
        IF x \in DOMAIN w.seats THEN seats[x] = w.seats[x]
        ELSE "person" \in DOMAIN seats[x] /\ seats[x].person = person
  OBVIOUS
<1> HIDE DEF seats
<1> QED BY <1>1, <1>2

\* Who accepts an invitation becomes a member in the same step as the seats are given.
LEMMA Joined ==
  ASSUME NEW w, NEW v, NEW u, NEW ids, NEW i, Sound(w), AcceptInvite(w, v, u, ids, i)
  PROVE  Sound(v)
<1> DEFINE seats == Seated(w, ids, u, w.invites[i].positions)
           members == Put(w.members, u, "member")
<1>1. v = [w EXCEPT !.invites[i].status = "accepted", !.members = members, !.seats = seats]
  BY DEF AcceptInvite
<1>2. DOMAIN members = DOMAIN w.members \cup {u}
  BY DEF Put
<1>3. \A x \in DOMAIN seats :
        IF x \in DOMAIN w.seats THEN seats[x] = w.seats[x]
        ELSE "person" \in DOMAIN seats[x] /\ seats[x].person = u
  BY SeatedOnes
<1> HIDE DEF seats, members
<1>4. /\ {"members", "seats", "proposals", "flows"} \subseteq DOMAIN v
      /\ v.proposals = w.proposals /\ v.flows = w.flows /\ v.members = members /\ v.seats = seats
  BY <1>1 DEF Sound, Stored
<1>5. \A x \in DOMAIN v.seats :
           /\ "person" \in DOMAIN v.seats[x]
           /\ \/ x \in DOMAIN w.seats /\ v.seats[x] = w.seats[x]
              \/ v.seats[x].person \in DOMAIN v.members
  BY <1>2, <1>3, <1>4 DEF Sound, Stored
<1> QED BY <1>2, <1>4, <1>5, TeamWritten

\* A seat is given to a member.
LEMMA Assigned ==
  ASSUME NEW w, NEW v, NEW u, NEW ids, NEW person, NEW positions, Sound(w),
         AssignPositions(w, v, u, ids, person, positions)
  PROVE  Sound(v)
<1> DEFINE seats == Seated(w, ids, person, positions)
<1>1. v = [w EXCEPT !.seats = seats] /\ person \in DOMAIN w.members
  BY DEF AssignPositions, Member
<1>3. \A x \in DOMAIN seats :
        IF x \in DOMAIN w.seats THEN seats[x] = w.seats[x]
        ELSE "person" \in DOMAIN seats[x] /\ seats[x].person = person
  BY SeatedOnes
<1> HIDE DEF seats
<1>4. /\ {"members", "seats", "proposals", "flows"} \subseteq DOMAIN v
      /\ v.proposals = w.proposals /\ v.flows = w.flows /\ v.members = w.members /\ v.seats = seats
  BY <1>1 DEF Sound, Stored
<1>5. \A x \in DOMAIN v.seats :
           /\ "person" \in DOMAIN v.seats[x]
           /\ \/ x \in DOMAIN w.seats /\ v.seats[x] = w.seats[x]
              \/ v.seats[x].person \in DOMAIN v.members
  BY <1>1, <1>3, <1>4 DEF Sound, Stored
<1> QED BY <1>4, <1>5, TeamWritten

\* A seat that is handed over goes to a member.
LEMMA SeatReplaced ==
  ASSUME NEW w, NEW v, NEW u, NEW x, NEW from, NEW to, Sound(w), x \in DOMAIN w.seats,
         ReplaceSeat(w, v, u, x, from, to)
  PROVE  Sound(v)
<1> DEFINE seat == [w.seats[x] EXCEPT !.person = to]
<1>1. v = [w EXCEPT !.seats = [w.seats EXCEPT ![x] = seat]] /\ to \in DOMAIN w.members
  BY DEF ReplaceSeat, Member, Sound, Stored
<1>2. "person" \in DOMAIN seat /\ seat.person = to
  BY DEF Sound, Stored
<1> HIDE DEF seat
<1>3. /\ {"members", "seats", "proposals", "flows"} \subseteq DOMAIN v
      /\ v.proposals = w.proposals /\ v.flows = w.flows /\ v.members = w.members
      /\ v.seats = [w.seats EXCEPT ![x] = seat]
  BY <1>1 DEF Sound, Stored
<1>4. \A y \in DOMAIN v.seats :
           /\ "person" \in DOMAIN v.seats[y]
           /\ \/ y \in DOMAIN w.seats /\ v.seats[y] = w.seats[y]
              \/ v.seats[y].person \in DOMAIN v.members
  BY <1>1, <1>2, <1>3 DEF Sound, Stored
<1> QED BY <1>3, <1>4, TeamWritten

---------------------------------------------------------------------------
(* Proposals. *)

\* Approving, rejecting and carrying out a proposal leave its approvers and its tasks.
LEMMA VotedOn ==
  ASSUME NEW w, NEW v, NEW p, NEW q, Sound(w), v = [w EXCEPT !.proposals[p] = q],
         p \in DOMAIN w.proposals =>
           /\ {"approvers", "tasks"} \subseteq DOMAIN q
           /\ q.approvers = w.proposals[p].approvers /\ q.tasks = w.proposals[p].tasks
  PROVE  Alike(w, v)
BY DEF Alike, Sound, Stored

\* A refusal writes the status of the proposal.
LEMMA Rejected ==
  ASSUME NEW w, NEW v, NEW u, NEW p, NEW revision, Sound(w), RejectProposal(w, v, u, p, revision)
  PROVE  Alike(w, v)
<1> DEFINE q == [w.proposals[p] EXCEPT !.status = "rejected"]
<1>1. v = [w EXCEPT !.proposals[p] = q]
  BY DEF RejectProposal
<1>2. p \in DOMAIN w.proposals =>
           /\ {"approvers", "tasks"} \subseteq DOMAIN q
           /\ q.approvers = w.proposals[p].approvers /\ q.tasks = w.proposals[p].tasks
  BY DEF Sound, Stored
<1> HIDE DEF q
<1> QED BY <1>1, <1>2, VotedOn

\* A state alike to one that is alike is alike.
LEMMA AlikeTwice ==
  ASSUME NEW w, NEW n, NEW v, Sound(w), Alike(w, n), Alike(n, v)
  PROVE  Alike(w, v)
BY DEF Alike

\* Changed fields are those of a plan or of a task.
LEMMA FieldsWritten ==
  ASSUME NEW w, NEW kind, NEW o, NEW fields, Sound(w)
  PROVE  Alike(w, FieldsApplied(w, kind, o, fields))
<1>1. PICK e, f : FieldsApplied(w, kind, o, fields) =
        IF kind = "plan" THEN [w EXCEPT !.plans[o] = e] ELSE [w EXCEPT !.tasks[o] = f]
  BY DEF FieldsApplied
<1>2. Elsewhere(w, FieldsApplied(w, kind, o, fields))
  BY <1>1 DEF Elsewhere, Sound, Stored
<1> QED BY <1>2, ElsewhereAlike

\* The last vote writes the plan and the tasks.
LEMMA Arranging ==
  ASSUME NEW w, NEW planIds, NEW taskIds, NEW p, Sound(w)
  PROVE  Alike(w, Arrangement(w, planIds, taskIds, p))
<1>1. PICK plan, plans, tasks, topics : Arrangement(w, planIds, taskIds, p) =
        [w EXCEPT !.proposals[p].plan = plan, !.plans = plans, !.tasks = tasks, !.topics = topics]
  BY DEF Arrangement
<1> DEFINE q == [w.proposals[p] EXCEPT !.plan = plan]
           n == [w EXCEPT !.proposals[p] = q]
           v == [n EXCEPT !.plans = plans, !.tasks = tasks, !.topics = topics]
<1>2. Arrangement(w, planIds, taskIds, p) = v
  BY <1>1
<1>3. p \in DOMAIN w.proposals =>
           /\ {"approvers", "tasks"} \subseteq DOMAIN q
           /\ q.approvers = w.proposals[p].approvers /\ q.tasks = w.proposals[p].tasks
  BY DEF Sound, Stored
<1> HIDE DEF q
<1>4. Alike(w, n)
  BY <1>3, VotedOn
<1> HIDE DEF n
<1>5. Sound(n)
  BY <1>4, AlikeSound
<1>6. Elsewhere(n, v)
  BY <1>5 DEF Elsewhere, Sound, Stored
<1> HIDE DEF v
<1> QED BY <1>2, <1>4, <1>5, <1>6, ElsewhereAlike, AlikeTwice

\* A vote writes the proposal's votes, and what it arranges when it is the last.
LEMMA Approved ==
  ASSUME NEW w, NEW v, NEW u, NEW planIds, NEW taskIds, NEW p, NEW revision, Sound(w),
         ApproveProposal(w, v, u, planIds, taskIds, p, revision)
  PROVE  Alike(w, v)
<1> DEFINE q == w.proposals[p]
           votes == q.votes \cup {u}
           voted == [w EXCEPT !.proposals[p].votes = votes]
           approved == [voted EXCEPT !.proposals[p].status = "approved"]
<1>1. v \in {voted, FieldsApplied(approved, q.target[1], q.target[2], q.fields),
             Arrangement(approved, planIds, taskIds, p)}
  BY DEF ApproveProposal
<1>2. Alike(w, voted)
  <2> DEFINE r == [q EXCEPT !.votes = votes]
  <2>1. voted = [w EXCEPT !.proposals[p] = r]
    OBVIOUS
  <2>2. p \in DOMAIN w.proposals => /\ {"approvers", "tasks"} \subseteq DOMAIN r
                                    /\ r.approvers = w.proposals[p].approvers
                                    /\ r.tasks = w.proposals[p].tasks
    BY DEF Sound, Stored
  <2> HIDE DEF r, voted
  <2> QED BY <2>1, <2>2, VotedOn
<1> HIDE DEF voted
<1>3. Sound(voted)
  BY <1>2, AlikeSound
<1>4. Alike(voted, approved)
  <2> DEFINE r == [voted.proposals[p] EXCEPT !.status = "approved"]
  <2>1. approved = [voted EXCEPT !.proposals[p] = r]
    OBVIOUS
  <2>2. p \in DOMAIN voted.proposals => /\ {"approvers", "tasks"} \subseteq DOMAIN r
                                        /\ r.approvers = voted.proposals[p].approvers
                                        /\ r.tasks = voted.proposals[p].tasks
    BY <1>3 DEF Sound, Stored
  <2> HIDE DEF r, approved
  <2> QED BY <1>3, <2>1, <2>2, VotedOn
<1> HIDE DEF approved
<1>5. Sound(approved) /\ Alike(w, approved)
  BY <1>2, <1>3, <1>4, AlikeSound, AlikeTwice
<1>6. Alike(w, FieldsApplied(approved, q.target[1], q.target[2], q.fields))
  BY <1>5, FieldsWritten, AlikeTwice
<1>7. Alike(w, Arrangement(approved, planIds, taskIds, p))
  BY <1>5, Arranging, AlikeTwice
<1> QED BY <1>1, <1>2, <1>6, <1>7

\* A submitted arrangement is put to members only.
LEMMA Submitted ==
  ASSUME NEW w, NEW v, NEW u, NEW ids, NEW topic, NEW input, NEW previous, Sound(w),
         InOrder(input.tasks), SubmitProposal(w, v, u, ids, topic, input, previous)
  PROVE  Sound(v)
<1> DEFINE seats == {input.owner} \cup UNION {{input.tasks[i].seat, input.tasks[i].reviewer} :
                                               i \in DOMAIN input.tasks}
           bindings == Holders(w, seats)
           first == Proposed(None, topic, u, FlowVersion(w), bindings)
           n == IF previous = None THEN 1 ELSE w.proposals[previous].revision + 1
           q == [first EXCEPT !.revision = n, !.previous = previous, !.owner = input.owner,
                              !.tasks = input.tasks, !.after = LastSeq(w, topic)]
           id == Fresh(ids, w.proposals)
           proposals == Put(w.proposals, id, q)
<1>1. v = [w EXCEPT !.proposals = proposals] /\ \A b \in bindings : Member(w, b[2])
  BY DEF SubmitProposal
<1>2. /\ {"approvers", "tasks"} \subseteq DOMAIN q
      /\ q.approvers = People(bindings) /\ q.tasks = input.tasks
  <2>1. {"approvers", "tasks"} \subseteq DOMAIN first /\ first.approvers = People(bindings)
    BY DEF Proposed
  <2> HIDE DEF first, bindings, n
  <2> QED BY <2>1
<1>3. People(bindings) \subseteq DOMAIN w.members
  <2> HIDE DEF bindings
  <2> QED BY <1>1 DEF People, Member
<1>4. id \notin DOMAIN w.proposals
  BY DEF SubmitProposal, HasRoom, Fresh
<1> HIDE DEF q, id
<1>5. /\ DOMAIN proposals = DOMAIN w.proposals \cup {id} /\ proposals[id] = q
      /\ \A p \in DOMAIN w.proposals : proposals[p] = w.proposals[p]
  BY <1>4 DEF Put
<1> HIDE DEF proposals, bindings
<1>6. /\ {"members", "seats", "proposals", "flows"} \subseteq DOMAIN v
      /\ v.members = w.members /\ v.seats = w.seats /\ v.flows = w.flows
      /\ v.proposals = proposals
  BY <1>1 DEF Sound, Stored
<1> QED BY <1>2, <1>3, <1>5, <1>6 DEF Sound, Stored, SeatsHeld, Member

---------------------------------------------------------------------------
(* The dialog of an arrangement. *)

Draft(d) == "tasks" \in DOMAIN d /\ InOrder(d.tasks)
EditorFits == editor # None => "draft" \in DOMAIN editor /\ Draft(editor.draft)

\* A list is a sequence of its elements.
LEMMA ListedSeq ==
  ASSUME NEW s, Listed(s)
  PROVE  /\ s \in Seq({s[i] : i \in 1..Len(s)})
         /\ DOMAIN s = 1..Len(s) /\ Len(s) \in Nat
<1> DEFINE S == {s[i] : i \in 1..Len(s)}
<1>1. s \in [1..Len(s) -> S] /\ Len(s) \in Nat /\ DOMAIN s = 1..Len(s)
  BY DEF Listed
<1> HIDE DEF S
<1>2. s \in Seq(S)
  BY <1>1, SeqDef
<1> QED BY <1>1, <1>2 DEF S

\* What is written down for every number up to n is a list of that length.
LEMMA ListedTo ==
  ASSUME NEW s, NEW n \in Nat, s = [i \in 1..n |-> s[i]]
  PROVE  Listed(s) /\ Len(s) = n /\ DOMAIN s = 1..n
<1> DEFINE S == {s[i] : i \in 1..n}
<1>1. s \in [1..n -> S]
  OBVIOUS
<1>2. DOMAIN s = 1..n
  BY <1>1
<1> HIDE DEF S
<1>3. s \in Seq(S)
  BY <1>1, SeqDef
<1>4. Len(s) \in Nat /\ DOMAIN s = 1..Len(s)
  BY <1>3, LenProperties
<1>5. Len(s) = n
  BY <1>2, <1>4
<1> QED BY <1>2, <1>5 DEF Listed

\* The tasks the flow suggests come after nothing.
LEMMA Suggested ==
  ASSUME NEW w, Stored(w)
  PROVE  /\ InOrder(Defaults(w)) /\ 1 \in DOMAIN Defaults(w)
         /\ \A i \in DOMAIN Defaults(w) : /\ "after" \in DOMAIN Defaults(w)[i]
                                          /\ Defaults(w)[i].after = {}
<1> DEFINE nodes == w.flows["delivery"].nodes
           n == Len(nodes)
           d == Defaults(w)
<1>1. /\ n \in Nat /\ DOMAIN nodes = 1..n /\ nodes # <<>>
      /\ nodes \in Seq({nodes[i] : i \in 1..n})
  BY ListedSeq DEF Stored
<1>2. n # 0
  BY <1>1, EmptySeq
<1>3. d = [i \in 1..n |-> DefaultTask(w, nodes[i])]
  BY <1>1 DEF Defaults
<1>4. \A i \in 1..n : d[i] = DefaultTask(w, nodes[i])
  BY <1>3
<1>5. ASSUME NEW i \in 1..n
      PROVE  "after" \in DOMAIN d[i] /\ d[i].after = {}
  <2>1. d[i] = DefaultTask(w, nodes[i])
    BY <1>4
  <2>2. "after" \in DOMAIN DefaultTask(w, nodes[i]) /\ DefaultTask(w, nodes[i]).after = {}
    <3> HIDE DEF d, n, nodes
    <3> QED BY DEF DefaultTask
  <2> HIDE DEF d, n
  <2> QED BY <2>1, <2>2
<1> HIDE DEF n, nodes
<1>6. d = [i \in 1..n |-> d[i]]
  BY <1>3
<1> HIDE DEF d
<1>7. Listed(d) /\ DOMAIN d = 1..n
  BY <1>1, <1>6, ListedTo
<1>8. InOrder(d)
  BY <1>5, <1>7 DEF InOrder
<1> QED BY <1>1, <1>2, <1>5, <1>7, <1>8 DEF d

\* One task is written into the list.
LEMMA TaskReplaced ==
  ASSUME NEW tasks, NEW i \in DOMAIN tasks, NEW task, InOrder(tasks),
         "after" \in DOMAIN task, task.after \subseteq 1..(i - 1)
  PROVE  LET new == [tasks EXCEPT ![i] = task] IN InOrder(new) /\ DOMAIN new = DOMAIN tasks
<1> DEFINE new == [tasks EXCEPT ![i] = task]
           n == Len(tasks)
<1>1. n \in Nat /\ DOMAIN tasks = 1..n
  BY ListedSeq DEF InOrder
<1>2. /\ DOMAIN new = 1..n /\ new = [j \in 1..n |-> new[j]]
      /\ new[i] = task /\ \A j \in 1..n : j # i => new[j] = tasks[j]
  BY <1>1
<1> HIDE DEF new, n
<1>3. Listed(new)
  BY <1>1, <1>2, ListedTo
<1>4. InOrder(new)
  BY <1>1, <1>2, <1>3 DEF InOrder
<1> QED BY <1>1, <1>2, <1>4 DEF new

\* A field of a task is written: what it comes after stays before it.
LEMMA Patched ==
  ASSUME NEW d, NEW i, NEW field, NEW value, Draft(d), i \in DOMAIN d.tasks,
         field = "after" => value \subseteq 1..(i - 1)
  PROVE  LET e == PatchTask(d, i, field, value) IN Draft(e) /\ DOMAIN e.tasks = DOMAIN d.tasks
<1> DEFINE task == [d.tasks[i] EXCEPT ![field] = value]
           tasks == [d.tasks EXCEPT ![i] = task]
<1>1. PatchTask(d, i, field, value) = [d EXCEPT !.tasks = tasks]
  BY DEF PatchTask, Draft
<1>2. "after" \in DOMAIN task /\ task.after \subseteq 1..(i - 1)
  BY DEF Draft, InOrder
<1> HIDE DEF task
<1>3. InOrder(tasks) /\ DOMAIN tasks = DOMAIN d.tasks
  BY <1>2, TaskReplaced DEF Draft
<1> HIDE DEF tasks
<1> QED BY <1>1, <1>3 DEF Draft

\* The tasks behind a removed one move up and come after the same tasks as before.
LEMMA Removed ==
  ASSUME NEW d, NEW i, Draft(d), i \in DOMAIN d.tasks, Len(d.tasks) > 1
  PROVE  Draft(RemoveTask(d, i))
<1> DEFINE old == d.tasks
           n == Len(old)
           up(A) == {IF a > i THEN a - 1 ELSE a : a \in A \ {i}}
           less(t) == [t EXCEPT !.after = up(t.after)]
           new == [j \in 1..(n - 1) |-> less(IF j < i THEN old[j] ELSE old[j + 1])]
<1>1. RemoveTask(d, i) = [d EXCEPT !.tasks = new]
  BY DEF RemoveTask
<1>2. /\ n \in Nat /\ DOMAIN old = 1..n /\ n - 1 \in Nat /\ i \in 1..n
      /\ \A j \in 1..n : "after" \in DOMAIN old[j] /\ old[j].after \subseteq 1..(j - 1)
  BY ListedSeq DEF Draft, InOrder
<1> HIDE DEF old, n
<1>3. ASSUME NEW j \in 1..(n - 1)
      PROVE  "after" \in DOMAIN new[j] /\ new[j].after \subseteq 1..(j - 1)
  <2>1. CASE j < i
    <3>1. new[j] = less(old[j]) /\ j \in 1..n
      BY <1>2, <2>1
    <3>2. "after" \in DOMAIN new[j] /\ new[j].after = up(old[j].after)
      BY <1>2, <3>1
    <3>3. old[j].after \subseteq 1..(j - 1)
      BY <1>2, <3>1
    <3> HIDE DEF new, less
    <3> QED BY <1>2, <2>1, <3>2, <3>3
  <2>2. CASE ~(j < i)
    <3>1. new[j] = less(old[j + 1]) /\ j + 1 \in 1..n
      BY <1>2, <2>2
    <3>2. "after" \in DOMAIN new[j] /\ new[j].after = up(old[j + 1].after)
      BY <1>2, <3>1
    <3>3. old[j + 1].after \subseteq 1..j
      BY <1>2, <3>1
    <3> HIDE DEF new, less
    <3> QED BY <1>2, <2>2, <3>2, <3>3
  <2> QED BY <2>1, <2>2
<1>4. new = [j \in 1..(n - 1) |-> new[j]]
  OBVIOUS
<1> HIDE DEF new
<1>5. Listed(new) /\ DOMAIN new = 1..(n - 1)
  BY <1>2, <1>4, ListedTo
<1>6. InOrder(new)
  BY <1>3, <1>5 DEF InOrder
<1> QED BY <1>1, <1>6 DEF Draft

\* A task added at the end comes after nothing.
LEMMA Added ==
  ASSUME NEW d, NEW task, Draft(d), "after" \in DOMAIN task, task.after = {}
  PROVE  Draft([d EXCEPT !.tasks = Append(d.tasks, task)])
<1> DEFINE old == d.tasks
           n == Len(old)
           new == Append(old, task)
           S == {old[i] : i \in 1..n} \cup {task}
<1>1. /\ n \in Nat /\ DOMAIN old = 1..n
      /\ \A j \in 1..n : "after" \in DOMAIN old[j] /\ old[j].after \subseteq 1..(j - 1)
  BY ListedSeq DEF Draft, InOrder
<1>2. old \in [1..n -> S] /\ task \in S
  BY <1>1 DEF Draft, InOrder, Listed
<1> HIDE DEF n, S
<1>3. old \in Seq(S)
  BY <1>1, <1>2, SeqDef
<1>4. /\ new \in Seq(S) /\ Len(new) = n + 1
      /\ \A j \in 1..n : new[j] = old[j]
      /\ new[n + 1] = task
  BY <1>2, <1>3, AppendProperties DEF n
<1> HIDE DEF old, new
<1>5. new \in [1..(n + 1) -> S] /\ n + 1 \in Nat
  BY <1>1, <1>4, LenProperties
<1>6. Listed(new) /\ DOMAIN new = 1..(n + 1)
  BY <1>5, ListedTo
<1>7. ASSUME NEW j \in 1..(n + 1)
      PROVE  "after" \in DOMAIN new[j] /\ new[j].after \subseteq 1..(j - 1)
  <2>1. CASE j \in 1..n
    BY <1>1, <1>4, <2>1
  <2>2. CASE j = n + 1
    BY <1>4, <2>2
  <2> QED BY <1>1, <2>1, <2>2
<1>8. InOrder(new)
  BY <1>6, <1>7 DEF InOrder
<1> QED BY <1>8 DEF Draft, new, old

\* Whatever is edited in one task, the draft keeps its order.
LEMMA FieldsEdited ==
  ASSUME NEW w, NEW d, NEW i, Draft(d), i \in DOMAIN d.tasks, NEW e \in TaskFields(w, d, i)
  PROVE  Draft(e)
<1> DEFINE after == d.tasks[i].after
<1>1. CASE \E n \in Nodes(w, "delivery") :
             e = PatchTask(PatchTask(d, i, "node", n), i, "seat", First(Candidates(w, n)))
  BY <1>1, Patched
<1>2. CASE \E x : e = PatchTask(d, i, "seat", x)
  BY <1>2, Patched
<1>3. CASE \E x : e = PatchTask(d, i, "reviewer", x)
  BY <1>3, Patched
<1>4. CASE \E n \in 1..(i - 1) :
             e = PatchTask(d, i, "after", IF n \in after THEN after \ {n} ELSE after \cup {n})
  <2>1. PICK n \in 1..(i - 1) :
          e = PatchTask(d, i, "after", IF n \in after THEN after \ {n} ELSE after \cup {n})
    BY <1>4
  <2>2. after \subseteq 1..(i - 1)
    BY DEF Draft, InOrder
  <2> DEFINE value == IF n \in after THEN after \ {n} ELSE after \cup {n}
  <2>3. value \subseteq 1..(i - 1)
    BY <2>2
  <2> HIDE DEF value
  <2> QED BY <2>1, <2>3, Patched DEF value
<1>5. CASE Len(d.tasks) > 1 /\ e = RemoveTask(d, i)
  BY <1>5, Removed
<1> QED BY <1>1, <1>2, <1>3, <1>4, <1>5 DEF TaskFields, Offers

\* Every edit the dialog offers keeps the draft in order.
LEMMA Edited ==
  ASSUME NEW w, NEW d, Stored(w), Draft(d), NEW e \in DraftEdits(w, d)
  PROVE  Draft(e)
<1>1. CASE \E x : e = [d EXCEPT !.owner = x]
  BY <1>1 DEF Draft
<1>2. CASE e = [d EXCEPT !.tasks = Defaults(w)]
  BY <1>2, Suggested DEF Draft
<1>3. CASE e = [d EXCEPT !.tasks = Append(d.tasks, Defaults(w)[1])]
  BY <1>3, Suggested, Added
<1>4. CASE \E i \in DOMAIN d.tasks : e \in TaskFields(w, d, i)
  BY <1>4, FieldsEdited
<1> QED BY <1>1, <1>2, <1>3, <1>4 DEF DraftEdits

---------------------------------------------------------------------------

\* The inductive invariant.
IInv == Sound(work) /\ EditorFits

\* The steps of one person that leave the dialog.
Command(u) ==
  \/ Vote(u) \/ Refuse(u) \/ NewPlan(u) \/ NewTask(u)
  \/ Position(u) \/ ImportPositions(u) \/ Invite(u) \/ Join(u) \/ Assign(u) \/ Replace(u)
  \/ Prompt(u) \/ NewFlow(u) \/ ImportFlows(u) \/ DraftFlow(u) \/ ReleaseFlow(u)

\* Every command leads from a sound state to a sound state and leaves the dialog.
LEMMA CommandSteps ==
  ASSUME Sound(work), NEW u \in Persons, Command(u)
  PROVE  Sound(work') /\ UNCHANGED editor
<1> USE DEF Act
<1>1. CASE Vote(u)
  BY <1>1, Approved, AlikeSound DEF Vote
<1>2. CASE Refuse(u)
  BY <1>2, Rejected, AlikeSound DEF Refuse
<1>3. CASE NewPlan(u)
  BY <1>3, PlanCreated, AlikeSound DEF NewPlan
<1>4. CASE NewTask(u)
  BY <1>4, TaskCreated, AlikeSound DEF NewTask
<1>5. CASE Position(u)
  BY <1>5, PositionSaved, AlikeSound DEF Position
<1>6. CASE ImportPositions(u)
  BY <1>6, PositionsImported, AlikeSound DEF ImportPositions
<1>7. CASE Invite(u)
  BY <1>7, Invited, AlikeSound DEF Invite
<1>8. CASE Join(u)
  BY <1>8, Joined DEF Join
<1>9. CASE Assign(u)
  BY <1>9, Assigned DEF Assign
<1>10. CASE Replace(u)
  BY <1>10, SeatReplaced DEF Replace
<1>11. CASE Prompt(u)
  BY <1>11, Prompted, AlikeSound DEF Prompt
<1>12. CASE NewFlow(u)
  BY <1>12, FlowCreated, AlikeSound DEF NewFlow
<1>13. CASE ImportFlows(u)
  BY <1>13, FlowsImported, AlikeSound DEF ImportFlows
<1>14. CASE DraftFlow(u)
  BY <1>14, FlowDrafted, AlikeSound DEF DraftFlow
<1>15. CASE ReleaseFlow(u)
  BY <1>15, FlowReleased, AlikeSound DEF ReleaseFlow
<1> QED BY <1>1, <1>2, <1>3, <1>4, <1>5, <1>6, <1>7, <1>8, <1>9, <1>10, <1>11, <1>12, <1>13,
           <1>14, <1>15 DEF Command

\* The loaded state is sound and no dialog is open.
LEMMA InitIInv == Init => IInv
BY StartAssumption DEF Init, IInv, Sound, EditorFits

\* Every step keeps the invariant.
LEMMA StepIInv == IInv /\ [Next]_vars => IInv'
<1> SUFFICES ASSUME IInv, [Next]_vars PROVE IInv'
  OBVIOUS
<1>1. CASE UNCHANGED vars
  BY <1>1 DEF vars, IInv, EditorFits
<1>2. CASE Edit
  <2>1. PICK draft \in DraftEdits(work, editor.draft) :
          editor # None /\ editor' = [editor EXCEPT !.draft = draft, !.edits = @ + 1]
    BY <1>2 DEF Edit, Offers
  <2>2. Draft(draft)
    BY <2>1, Edited DEF IInv, Sound, EditorFits
  <2>3. "draft" \in DOMAIN editor' /\ editor'.draft = draft
    BY <2>1 DEF IInv, EditorFits
  <2>4. UNCHANGED work
    BY <1>2 DEF Edit
  <2> QED BY <2>2, <2>3, <2>4 DEF IInv, EditorFits
<1>3. CASE CloseEditor
  BY <1>3 DEF CloseEditor, IInv, EditorFits
<1>4. CASE Submit
  <2>1. Sound(work')
    BY <1>4, Submitted DEF Submit, IInv, EditorFits, Draft
  <2> QED BY <1>4, <2>1 DEF Submit, IInv, EditorFits
<1>5. ASSUME NEW u \in Persons, OpenEditor(u) PROVE IInv'
  <2>1. PICK t \in Topics, previous \in DOMAIN work.proposals \cup {None} :
          editor' = [by |-> u, topic |-> t, previous |-> previous, edits |-> 0,
                     draft |-> ProposalDraft(work, u, previous)]
    BY <1>5 DEF OpenEditor
  <2>2. Draft(ProposalDraft(work, u, previous))
    <3>1. CASE previous # None
      BY <3>1 DEF ProposalDraft, Draft, IInv, Sound, Stored
    <3>2. CASE previous = None
      BY <3>2, Suggested DEF ProposalDraft, Draft, IInv, Sound
    <3> QED BY <3>1, <3>2
  <2>3. "draft" \in DOMAIN editor' /\ editor'.draft = ProposalDraft(work, u, previous)
    BY <2>1
  <2>4. UNCHANGED work
    BY <1>5 DEF OpenEditor
  <2> QED BY <2>2, <2>3, <2>4 DEF IInv, EditorFits
<1>6. ASSUME NEW u \in Persons, Command(u) PROVE IInv'
  BY <1>6, CommandSteps DEF IInv, EditorFits
<1>7. Next => \/ Edit \/ CloseEditor \/ Submit
              \/ \E u \in Persons : OpenEditor(u) \/ Command(u)
  BY DEF Next, Command
<1> QED BY <1>1, <1>2, <1>3, <1>4, <1>5, <1>6, <1>7

\* IInv holds in every reachable state.
THEOREM Invariant == Spec => []IInv
BY InitIInv, StepIInv, PTL DEF Spec

\* Every seat is held by a member and only members are asked to vote, whoever is invited, joins,
\* is given positions or hands a seat over while an arrangement is agreed on (actions.ts).
THEOREM SeatsBelongToMembers == Spec => []SeatsHeldByMembers
<1>1. IInv => SeatsHeldByMembers
  BY DEF IInv, Sound, SeatsHeldByMembers
<1> QED BY <1>1, Invariant, PTL

\* Adding, removing, renumbering and editing the tasks of an arrangement, or starting from an
\* earlier one, never puts a task behind itself or a later one (ProposalDialog.tsx).
THEOREM DraftsInOrder == Spec => []DraftInOrder
<1>1. IInv => DraftInOrder
  BY DEF IInv, EditorFits, Draft, InOrder, DraftInOrder
<1> QED BY <1>1, Invariant, PTL
=============================================================================
