----------------------------- MODULE WorkTopics ------------------------------
(***************************************************************************)
(* Topics of a project: their main topics and forks, the history a person  *)
(* reads, discussion rounds, activities of tasks and the suggestions made  *)
(* from them (features/chat/demoCollaboration.ts, discussionPolicy.ts,     *)
(* features/cooperation/demo.ts and createDiscussion of composition.ts).   *)
(*                                                                         *)
(* A message is known by its topic and its position in it.  Its seq is 0   *)
(* where the code leaves it undefined.  The id of a topic tells what it    *)
(* was made for: <<"main", plan>>, <<"taskMain", task>> or a fresh uid.    *)
(***************************************************************************)
EXTENDS WorkState

Fresh(ids, f) == CHOOSE i \in ids \ DOMAIN f : TRUE
HasRoom(ids, f) == ids \ DOMAIN f # {}
Put(f, i, e) == [j \in DOMAIN f \cup {i} |-> IF j = i THEN e ELSE f[j]]
Only(S) == CHOOSE x \in S : TRUE

Topic(plans, tasks, mainPlan, parent, fork) ==
  [plans |-> plans, tasks |-> tasks, mainPlan |-> mainPlan, parent |-> parent, fork |-> fork,
   links |-> 1, messages |-> <<>>, runs |-> <<>>]
Said(kind, seq) == [kind |-> kind, seq |-> seq]

\* Every plan gets a topic of its own when it has none.
EnsureMainTopics(w) ==
  LET lacking == {p \in DOMAIN w.plans : w.plans[p].main \notin DOMAIN w.topics}
      main == [p \in lacking |-> <<"main", p>>]
  IN IF lacking = {} THEN w
     ELSE [w EXCEPT
       !.plans = [p \in DOMAIN @ |->
         IF p \in lacking THEN [@[p] EXCEPT !.main = main[p]] ELSE @[p]],
       !.topics = [t \in DOMAIN @ \cup {main[p] : p \in lacking} |->
         IF t \in DOMAIN @ THEN @[t] ELSE Topic({t[2]}, {}, t[2], None, 0)]]

\* Mutant of the numbering: a fork counts from one.
OwnFromOne(w, t) ==
  LET topic == w.topics[t]
  IN [i \in DOMAIN topic.messages |->
       [topic |-> t, at |-> i, kind |-> topic.messages[i].kind,
        seq |-> IF topic.messages[i].seq # 0 THEN topic.messages[i].seq ELSE i]]

\* What a person reads in a topic: what its parent said up to the fork, then its own messages.
Own(w, t) ==
  LET topic == w.topics[t]
  IN [i \in DOMAIN topic.messages |->
       [topic |-> t, at |-> i, kind |-> topic.messages[i].kind,
        seq |-> IF topic.messages[i].seq # 0 THEN topic.messages[i].seq ELSE topic.fork + i]]

\* Mutant of the history: a fork goes on with all its parent says.
HistoriesWhole(w) ==
  LET hist[t \in DOMAIN w.topics] ==
        (IF w.topics[t].parent \in DOMAIN w.topics THEN hist[w.topics[t].parent] ELSE <<>>)
        \o Own(w, t)
  IN hist

\* The messages of a history up to a number.
UpTo(said, ceiling) ==
  LET kept[i \in 0..Len(said)] ==
        IF i = 0 THEN <<>>
        ELSE IF said[i].seq <= ceiling THEN Append(kept[i-1], said[i]) ELSE kept[i-1]
  IN kept[Len(said)]

Histories(w) ==
  LET hist[t \in DOMAIN w.topics] ==
        (IF w.topics[t].parent \in DOMAIN w.topics
         THEN UpTo(hist[w.topics[t].parent], w.topics[t].fork) ELSE <<>>) \o Own(w, t)
  IN hist
LastSeq(w, t) == LET h == Histories(w)[t] IN IF h = <<>> THEN 0 ELSE h[Len(h)].seq

\* A fork continues its parent after a message of it, its last one unless another is named.
IsForkPoint(w, t, point) ==
  point = 0 \/ \E i \in DOMAIN Histories(w)[t] : Histories(w)[t][i].seq = point

ForkTopic(w, v, u, ids, t, point, plans, tasks) ==
  /\ Member(w, u) /\ HasRoom(ids, w.topics) /\ IsForkPoint(w, t, point)
  /\ v = [w EXCEPT !.topics = Put(@, Fresh(ids, @), Topic(plans, tasks, None, t, point))]

CreateDiscussion(w, v, u, ids, plans, tasks) ==
  /\ Member(w, u) /\ HasRoom(ids, w.topics)
  /\ v = [w EXCEPT !.topics = Put(@, Fresh(ids, @), Topic(plans, tasks, None, None, 0))]

\* Mutant: the main topic of a task is not linked to it.
TaskMainTopicUnlinked(w, v, u, t) ==
  /\ Member(w, u) /\ w.tasks[t].main = None
  /\ v = [w EXCEPT !.tasks[t].main = <<"taskMain", t>>,
                   !.topics = Put(@, <<"taskMain", t>>, Topic({}, {}, None, None, 0))]

TaskMainTopic(w, v, u, t) ==
  /\ Member(w, u) /\ w.tasks[t].main = None
  /\ v = [w EXCEPT !.tasks[t].main = <<"taskMain", t>>,
                   !.topics = Put(@, <<"taskMain", t>>, Topic({}, {t}, None, None, 0))]

\* The whole set of links is replaced, by an editor that saw the given version of them.
ReplaceLinks(w, v, u, t, version, plans, tasks) ==
  /\ Member(w, u) /\ w.topics[t].links = version
  /\ plans \subseteq DOMAIN w.plans /\ tasks \subseteq DOMAIN w.tasks
  /\ \A p \in DOMAIN w.plans : w.plans[p].main = t => p \in plans
  /\ \A k \in DOMAIN w.tasks : w.tasks[k].main = t => k \in tasks
  /\ v = [w EXCEPT !.topics[t] =
            [@ EXCEPT !.plans = plans, !.tasks = tasks, !.links = version + 1]]

---------------------------------------------------------------------------
(* Discussion rounds.  A run belongs to the last message of a person, 0 when there is none. *)

LatestSource(topic) ==
  LET said == {i \in DOMAIN topic.messages : topic.messages[i].kind = "person"}
  IN IF said = {} THEN 0 ELSE CHOOSE i \in said : \A j \in said : j <= i
LatestRun(topic) ==
  IF topic.runs = <<>> THEN None ELSE topic.runs[Len(topic.runs)]

\* The seats that speak in a round, three at most, of the linked tasks when there are any.
Speakers(w, topic) ==
  LET assigned == UNION {w.tasks[t].seats \cup {w.tasks[t].reviewer} :
                           t \in topic.tasks \cap DOMAIN w.tasks}
      seats == {x \in DOMAIN w.seats : /\ w.seats[x].position \in DOMAIN w.positions
                                       /\ assigned = {} \/ x \in assigned}
  IN IF Cardinality(seats) < 3 THEN Cardinality(seats) ELSE 3

StartedRuns(w, topic) ==
  LET source == LatestSource(topic)
      fresh == LatestRun(topic) = None \/ LatestRun(topic).source # source
  IN IF fresh THEN Append(topic.runs, [source |-> source, max |-> w.limit, rounds |-> 0])
     ELSE topic.runs

CanDiscuss(topic) ==
  LatestRun(topic) # None /\ LatestRun(topic).source = LatestSource(topic)
    => LatestRun(topic).rounds < LatestRun(topic).max

Discussed(w, topic) ==
  LET runs == StartedRuns(w, topic)
  IN [topic EXCEPT
       !.runs = [runs EXCEPT ![Len(runs)].rounds = @ + 1],
       !.messages = @ \o [i \in 1..(Speakers(w, topic) + 1) |-> Said("ai", 0)]]

DiscussTopic(w, v, u, t) ==
  /\ Member(w, u) /\ CanDiscuss(w.topics[t])
  /\ v = [w EXCEPT !.topics[t] = Discussed(w, @)]

\* A message is answered, and discussed as a new submission.
TopicMessage(w, v, u, t) ==
  /\ Member(w, u)
  /\ LET said == [w.topics[t] EXCEPT !.messages = @ \o <<Said("person", 0), Said("ai", 0)>>]
     IN CanDiscuss(said) /\ v = [w EXCEPT !.topics[t] = Discussed(w, said)]

\* A topic that starts with a message: said outside any topic, or what registered files are for.
SendFirstMessage(w, v, u, ids) ==
  LET said == [Topic({}, {}, None, None, 0) EXCEPT
                 !.messages = <<Said("person", 0), Said("ai", 0)>>]
  IN /\ Member(w, u) /\ HasRoom(ids, w.topics)
     /\ v = [w EXCEPT !.topics = Put(@, Fresh(ids, @), Discussed(w, said))]

SetDiscussionLimit(w, v, u, value) ==
  Manages(w, u) /\ value \in 1..100 /\ v = [w EXCEPT !.limit = value]

---------------------------------------------------------------------------
(* Activities of a task, and the discussions suggested from a question. *)

Activity(t, kind, topics) == [task |-> t, kind |-> kind, topics |-> topics]

\* A delivery made elsewhere is put on record, once per source.
WorkSubmitted(w, t, source) ==
  IF source \in DOMAIN w.activities THEN w
  ELSE [EnsureMainTopics(w) EXCEPT
          !.activities = Put(@, source, Activity(t, "delivery", {}))]

\* progress, delivery, question or reply.  Only the first two need a seat of the task; version is
\* the task version the person saw, seat the identity they act with, either may be None.
MayRecord(w, u, t, kind, version, seat) ==
  LET own == {x \in w.tasks[t].seats : OwnsSeat(w, u, x)}
      formal == kind \in {"progress", "delivery"}
  IN /\ Member(w, u) /\ ~w.tasks[t].discarded
     /\ formal => /\ w.tasks[t].skip = None /\ own # {}
                  /\ version \in {None, w.tasks[t].revision}
                  /\ IF seat = None THEN Cardinality(own) = 1 ELSE seat \in own
     /\ kind = "progress" => w.tasks[t].status \in {"working", "rework"}
     /\ kind = "delivery" => /\ w.tasks[t].status \in {"ready", "working", "rework"}
                             /\ Blockers(w, t, "start") = {}

Recorded(w, ids, t, kind, topics) ==
  [EnsureMainTopics(w) EXCEPT !.activities = Put(@, Fresh(ids, @), Activity(t, kind, topics))]

RecordProgress(w, v, u, ids, t, version, seat) ==
  /\ MayRecord(w, u, t, "progress", version, seat) /\ HasRoom(ids, w.activities)
  /\ v = [Recorded(w, ids, t, "progress", {}) EXCEPT !.tasks[t].revision = @ + 1]

RecordDelivery(w, v, u, ids, t, version, seat) ==
  /\ MayRecord(w, u, t, "delivery", version, seat) /\ HasRoom(ids, w.activities)
  /\ v = [Recorded(w, ids, t, "delivery", {}) EXCEPT
            !.tasks[t].status = "delivered", !.tasks[t].revision = @ + 1,
            !.tasks[t].files = @ + 1]

\* A question suggests a discussion: a fork of the plan's topic, or a topic of the task at hand.
RecordQuestion(w, v, u, ids, t) ==
  LET id == Fresh(ids, w.activities)
      n == Recorded(w, ids, t, "question", {})
      main == IF n.tasks[t].plan \in DOMAIN n.plans THEN n.plans[n.tasks[t].plan].main ELSE None
  IN /\ MayRecord(w, u, t, "question", None, None) /\ HasRoom(ids, w.activities)
     /\ v = [n EXCEPT !.suggestions = Put(@, id,
          [task |-> t, parent |-> main, state |-> "pending", version |-> 1, result |-> None,
           fork |-> IF main = None THEN 0 ELSE LastSeq(n, main)])]

RecordReply(w, v, u, ids, t, topic) ==
  LET n == Recorded(w, ids, t, "reply", {topic})
      seq == LastSeq(n, topic)
  IN /\ MayRecord(w, u, t, "reply", None, None) /\ HasRoom(ids, w.activities)
     /\ v = [n EXCEPT !.topics[topic].messages =
          @ \o <<Said("person", seq + 1), Said("ai", seq + 2)>>]

Linked(w, topic, plans, tasks) ==
  [topic EXCEPT !.plans = plans, !.tasks = tasks,
     !.links = IF topic.plans = plans /\ topic.tasks = tasks THEN @ ELSE @ + 1]

\* create, main, link or dismiss.  target is the topic to link, for "link".
ResolveSuggestion(w, v, u, topicIds, s, version, mode, target) ==
  LET sug == w.suggestions[s]
      plan == w.tasks[sug.task].plan
      plans == {plan} \cap DOMAIN w.plans
      id == CASE mode = "create" -> Fresh(topicIds, w.topics)
              [] mode = "main" -> IF plans = {} THEN None ELSE w.plans[plan].main
              [] mode = "link" -> target
              [] mode = "dismiss" -> None
      topics == CASE mode = "create" ->
                      Put(w.topics, id, Topic(plans, {sug.task}, None, sug.parent, sug.fork))
                  [] mode \in {"main", "link"} ->
                      [w.topics EXCEPT ![id] =
                         Linked(w, @, @.plans \cup plans, @.tasks \cup {sug.task})]
                  [] mode = "dismiss" -> w.topics
  IN /\ Member(w, u) /\ sug.state = "pending" /\ sug.version = version
     /\ mode = "create" => /\ HasRoom(topicIds, w.topics)
                           /\ sug.parent # None => IsForkPoint(w, sug.parent, sug.fork)
     /\ mode \in {"main", "link"} => id \in DOMAIN w.topics
     /\ v = [w EXCEPT
          !.topics = topics,
          !.activities[s].topics = IF mode = "dismiss" THEN @ ELSE @ \cup {id},
          !.suggestions[s] = [sug EXCEPT
             !.state = IF mode = "dismiss" THEN "dismissed" ELSE "handled",
             !.result = id, !.version = @ + 1]]
=============================================================================
