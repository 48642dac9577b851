--------------------------- MODULE TalkBoardProofs ---------------------------
(***************************************************************************)
(* Proofs about TalkBoard for every stored state the store may be loaded   *)
(* with and every number of people, topics, plans and tasks.               *)
(*                                                                         *)
(* Most commands only add to topics and links: Grown(w, v).  The others,   *)
(* which replace links or make a main topic, have lemmas of their own.     *)
(*                                                                         *)
(* What is read in a topic is a recursive function of the topics.  It is   *)
(* what its definition says (HistoryDefined) because topics have a depth   *)
(* along their forks, and then the position of a message in a history is   *)
(* its number (AllCount).  Every step goes on with the topics:             *)
(* GoesOn(w, v), and that leaves the histories as they were                *)
(* (HistoriesFrozen).                                                      *)
(***************************************************************************)
EXTENDS TalkBoard, FiniteSetTheorems, FunctionTheorems, WellFoundedInduction, TLAPS

Collections(v) == {"plans", "tasks", "topics"} \subseteq DOMAIN v

\* No plan, task or main topic comes or goes, and no topic loses a link.
WorkStays(f, g) ==
  DOMAIN g = DOMAIN f /\ \A i \in DOMAIN f : "main" \in DOMAIN g[i] /\ g[i].main = f[i].main
TopicOn(e, d) ==
  {"plans", "tasks"} \subseteq DOMAIN d /\ e.plans \subseteq d.plans /\ e.tasks \subseteq d.tasks
TopicsGrow(f, g) ==
  /\ \A t \in DOMAIN f : t \in DOMAIN g /\ TopicOn(f[t], g[t])
  /\ \A t \in DOMAIN g \ DOMAIN f : {"plans", "tasks"} \subseteq DOMAIN g[t]
Grown(w, v) ==
  /\ Collections(v)
  /\ WorkStays(w.plans, v.plans) /\ WorkStays(w.tasks, v.tasks) /\ TopicsGrow(w.topics, v.topics)

Sound(w) == Stored(w) /\ MainsLinked(w)

\* A state that grew is stored, and its main topics are linked.
LEMMA GrownSound ==
  ASSUME NEW w, NEW v, Sound(w), Grown(w, v)
  PROVE  Sound(v)
<1>1. \A t \in DOMAIN v.topics : {"plans", "tasks"} \subseteq DOMAIN v.topics[t]
  BY DEF Grown, TopicsGrow, TopicOn
<1>2. Stored(v)
  BY <1>1 DEF Sound, Stored, Grown, Collections, WorkStays
<1>3. MainsLinked(v)
  BY DEF Sound, MainsLinked, Grown, WorkStays, TopicsGrow, TopicOn
<1> QED BY <1>2, <1>3 DEF Sound

\* What is not written stays.
LEMMA Unwritten ==
  ASSUME NEW w, NEW v, Stored(w), v.plans = w.plans, v.tasks = w.tasks
  PROVE  /\ WorkStays(w.plans, v.plans) /\ WorkStays(w.tasks, v.tasks)
         /\ v.topics = w.topics => TopicsGrow(w.topics, v.topics)
BY DEF Stored, WorkStays, TopicsGrow, TopicOn

\* One topic is written and keeps its links.
LEMMA TopicWritten ==
  ASSUME NEW w, NEW v, NEW t, NEW e, Stored(w), Collections(v),
         v.plans = w.plans, v.tasks = w.tasks, v.topics = [w.topics EXCEPT ![t] = e],
         t \in DOMAIN w.topics => TopicOn(w.topics[t], e)
  PROVE  Grown(w, v)
<1>1. /\ DOMAIN v.topics = DOMAIN w.topics
      /\ \A i \in DOMAIN w.topics : v.topics[i] = IF i = t THEN e ELSE w.topics[i]
  OBVIOUS
<1>2. TopicsGrow(w.topics, v.topics)
  BY <1>1 DEF Stored, TopicsGrow, TopicOn
<1> QED BY <1>2, Unwritten DEF Grown

\* One topic is new.
LEMMA TopicAdded ==
  ASSUME NEW w, NEW v, NEW ids, NEW e, Stored(w), HasRoom(ids, w.topics),
         v = [w EXCEPT !.topics = Put(w.topics, Fresh(ids, w.topics), e)],
         {"plans", "tasks"} \subseteq DOMAIN e
  PROVE  Grown(w, v)
<1> DEFINE id == Fresh(ids, w.topics)
<1>1. id \notin DOMAIN w.topics
  BY DEF HasRoom, Fresh
<1> HIDE DEF id
<1>2. /\ Collections(v) /\ v.plans = w.plans /\ v.tasks = w.tasks
      /\ v.topics = Put(w.topics, id, e)
  BY DEF id, Stored, Collections
<1>3. TopicsGrow(w.topics, v.topics)
  BY <1>1, <1>2 DEF Put, TopicsGrow, TopicOn, Stored
<1> QED BY <1>2, <1>3, Unwritten DEF Grown

---------------------------------------------------------------------------
(* Messages, discussions and new topics. *)

\* A discussion leaves the links of its topic alone.
LEMMA DiscussedLinks ==
  ASSUME NEW w, NEW e, {"plans", "tasks"} \subseteq DOMAIN e
  PROVE  TopicOn(e, Discussed(w, e))
BY DEF Discussed, TopicOn

\* A message that is answered and discussed leaves them alone too.
LEMMA SaidLinks ==
  ASSUME NEW w, NEW e, {"plans", "tasks"} \subseteq DOMAIN e, NEW said
  PROVE  TopicOn(e, Discussed(w, [e EXCEPT !.messages = said]))
BY DEF Discussed, TopicOn

\* A discussion (discussTopic).
LEMMA TopicDiscussed ==
  ASSUME NEW w, NEW v, NEW u, NEW t \in DOMAIN w.topics, Stored(w), DiscussTopic(w, v, u, t)
  PROVE  Grown(w, v)
<1> DEFINE e == Discussed(w, w.topics[t])
<1>1. v = [w EXCEPT !.topics = [w.topics EXCEPT ![t] = e]]
  BY DEF DiscussTopic
<1>2. TopicOn(w.topics[t], e)
  BY DiscussedLinks DEF Stored
<1> HIDE DEF e
<1>3. /\ Collections(v) /\ v.plans = w.plans /\ v.tasks = w.tasks
      /\ v.topics = [w.topics EXCEPT ![t] = e]
  BY <1>1 DEF Stored, Collections
<1> QED BY <1>2, <1>3, TopicWritten

\* A message in a topic (topicMessage).
LEMMA MessageSaid ==
  ASSUME NEW w, NEW v, NEW u, NEW t \in DOMAIN w.topics, Stored(w), TopicMessage(w, v, u, t)
  PROVE  Grown(w, v)
<1> DEFINE said == w.topics[t].messages \o <<Said("person", 0), Said("ai", 0)>>
           e == Discussed(w, [w.topics[t] EXCEPT !.messages = said])
<1>1. v = [w EXCEPT !.topics = [w.topics EXCEPT ![t] = e]]
  BY DEF TopicMessage
<1>2. TopicOn(w.topics[t], e)
  BY SaidLinks DEF Stored
<1> HIDE DEF e
<1>3. /\ Collections(v) /\ v.plans = w.plans /\ v.tasks = w.tasks
      /\ v.topics = [w.topics EXCEPT ![t] = e]
  BY <1>1 DEF Stored, Collections
<1> QED BY <1>2, <1>3, TopicWritten

\* A topic that starts with a message.
LEMMA FirstSaid ==
  ASSUME NEW w, NEW v, NEW u, NEW ids, Stored(w), SendFirstMessage(w, v, u, ids)
  PROVE  Grown(w, v)
<1> DEFINE empty == Topic({}, {}, None, None, 0)
           said == <<Said("person", 0), Said("ai", 0)>>
           e == Discussed(w, [empty EXCEPT !.messages = said])
<1>1. {"plans", "tasks"} \subseteq DOMAIN empty
  BY DEF Topic
<1>2. {"plans", "tasks"} \subseteq DOMAIN e
  <2> HIDE DEF empty, said
  <2> QED BY <1>1, SaidLinks DEF TopicOn
<1>3. v = [w EXCEPT !.topics = Put(w.topics, Fresh(ids, w.topics), e)] /\ HasRoom(ids, w.topics)
  BY DEF SendFirstMessage
<1> HIDE DEF e
<1> QED BY <1>2, <1>3, TopicAdded

\* Forks and new discussions.
LEMMA TopicOpened ==
  ASSUME NEW w, NEW v, NEW u, NEW ids, NEW t, NEW point, NEW plans, NEW tasks, Stored(w),
         \/ ForkTopic(w, v, u, ids, t, point, plans, tasks)
         \/ CreateDiscussion(w, v, u, ids, plans, tasks)
  PROVE  Grown(w, v)
<1>1. CASE ForkTopic(w, v, u, ids, t, point, plans, tasks)
  <2> DEFINE e == Topic(plans, tasks, None, t, point)
  <2>1. {"plans", "tasks"} \subseteq DOMAIN e
    BY DEF Topic
  <2> HIDE DEF e
  <2> QED BY <1>1, <2>1, TopicAdded DEF ForkTopic, e
<1>2. CASE CreateDiscussion(w, v, u, ids, plans, tasks)
  <2> DEFINE e == Topic(plans, tasks, None, None, 0)
  <2>1. {"plans", "tasks"} \subseteq DOMAIN e
    BY DEF Topic
  <2> HIDE DEF e
  <2> QED BY <1>2, <2>1, TopicAdded DEF CreateDiscussion, e
<1> QED BY <1>1, <1>2

---------------------------------------------------------------------------
(* Activities and suggestions. *)

\* Every plan has its main topic, so that none is made on the way.
LEMMA NoneLacking ==
  ASSUME NEW w, MainsLinked(w)
  PROVE  EnsureMainTopics(w) = w
BY DEF EnsureMainTopics, MainsLinked

\* A question, which suggests a discussion (demoTaskActivity).
LEMMA QuestionAsked ==
  ASSUME NEW w, NEW v, NEW u, NEW ids, NEW t, Sound(w), RecordQuestion(w, v, u, ids, t)
  PROVE  Grown(w, v)
<1> DEFINE n == Recorded(w, ids, t, "question", {})
<1>1. \E x : n = [w EXCEPT !.activities = x]
  BY NoneLacking DEF Recorded, Sound
<1>2. \E x : v = [n EXCEPT !.suggestions = x]
  BY DEF RecordQuestion
<1> HIDE DEF n
<1>3. Collections(v) /\ v.plans = w.plans /\ v.tasks = w.tasks /\ v.topics = w.topics
  BY <1>1, <1>2 DEF Sound, Stored, Collections
<1> QED BY <1>3, Unwritten DEF Grown, Sound

\* A reply, which is written into the topic it is for (demoTaskActivity).
LEMMA Replied ==
  ASSUME NEW w, NEW v, NEW u, NEW ids, NEW t, NEW topic, Sound(w),
         RecordReply(w, v, u, ids, t, topic)
  PROVE  Grown(w, v)
<1> DEFINE n == Recorded(w, ids, t, "reply", {topic})
           seq == LastSeq(n, topic)
           said == n.topics[topic].messages \o <<Said("person", seq + 1), Said("ai", seq + 2)>>
           e == [n.topics[topic] EXCEPT !.messages = said]
<1>1. \E x : n = [w EXCEPT !.activities = x]
  BY NoneLacking DEF Recorded, Sound
<1>2. v = [n EXCEPT !.topics = [n.topics EXCEPT ![topic] = e]]
  BY DEF RecordReply
<1> HIDE DEF n, said
<1>3. /\ {"plans", "tasks", "topics"} \subseteq DOMAIN n
      /\ n.plans = w.plans /\ n.tasks = w.tasks /\ n.topics = w.topics
  BY <1>1 DEF Sound, Stored
<1>4. topic \in DOMAIN w.topics => TopicOn(w.topics[topic], e)
  BY <1>3 DEF TopicOn, Sound, Stored
<1> HIDE DEF e
<1>5. /\ Collections(v) /\ v.plans = w.plans /\ v.tasks = w.tasks
      /\ v.topics = [w.topics EXCEPT ![topic] = e]
  BY <1>2, <1>3 DEF Collections
<1> QED BY <1>4, <1>5, TopicWritten DEF Sound

\* Links are added and none is taken away.
LEMMA LinksAdded ==
  ASSUME NEW w, NEW e, {"plans", "tasks"} \subseteq DOMAIN e, NEW plans, NEW tasks
  PROVE  TopicOn(e, Linked(w, e, e.plans \cup plans, e.tasks \cup tasks))
<1> DEFINE all == e.plans \cup plans
           both == e.tasks \cup tasks
<1>1. e.plans \subseteq all /\ e.tasks \subseteq both
  OBVIOUS
<1> HIDE DEF all, both
<1>2. LET d == Linked(w, e, all, both)
      IN {"plans", "tasks"} \subseteq DOMAIN d /\ d.plans = all /\ d.tasks = both
  BY DEF Linked
<1>3. TopicOn(e, Linked(w, e, all, both))
  BY <1>1, <1>2 DEF TopicOn
<1> QED BY <1>3 DEF all, both

\* A suggestion is resolved (demoResolve).
LEMMA SuggestionResolved ==
  ASSUME NEW w, NEW v, NEW u, NEW ids, NEW s, NEW version, NEW target, Sound(w),
         NEW mode \in {"create", "main", "link", "dismiss"},
         ResolveSuggestion(w, v, u, ids, s, version, mode, target)
  PROVE  Grown(w, v)
<1> DEFINE sug == w.suggestions[s]
           plan == w.tasks[sug.task].plan
           plans == {plan} \cap DOMAIN w.plans
           id == CASE mode = "create" -> Fresh(ids, w.topics)
                   [] mode = "main" -> IF plans = {} THEN None ELSE w.plans[plan].main
                   [] mode = "link" -> target
                   [] mode = "dismiss" -> None
           made == Topic(plans, {sug.task}, None, sug.parent, sug.fork)
           more == Linked(w, w.topics[id], w.topics[id].plans \cup plans,
                          w.topics[id].tasks \cup {sug.task})
           topics == CASE mode = "create" -> Put(w.topics, id, made)
                       [] mode \in {"main", "link"} -> [w.topics EXCEPT ![id] = more]
                       [] mode = "dismiss" -> w.topics
<1>1. \E x, y : v = [w EXCEPT !.topics = topics, !.activities = x, !.suggestions = y]
  <2>1. \E x, y : v = [w EXCEPT !.topics = topics, !.activities[s].topics = x,
                                !.suggestions[s] = y]
    <3> DEFINE z == IF mode = "dismiss" THEN w.activities[s].topics
                    ELSE w.activities[s].topics \cup {id}
               r == [sug EXCEPT !.state = IF mode = "dismiss" THEN "dismissed" ELSE "handled",
                                !.result = id, !.version = @ + 1]
    <3>1. v = [w EXCEPT !.topics = topics, !.activities[s].topics = z, !.suggestions[s] = r]
      BY DEF ResolveSuggestion
    <3> HIDE DEF z, r, topics
    <3> QED BY <3>1
  <2> HIDE DEF topics
  <2> QED BY <2>1
<1> HIDE DEF topics
<1>2. Collections(v) /\ v.plans = w.plans /\ v.tasks = w.tasks /\ v.topics = topics
  BY <1>1 DEF Sound, Stored, Collections
<1>3. CASE mode = "create"
  <2>1. id = Fresh(ids, w.topics) /\ topics = Put(w.topics, id, made)
    BY <1>3 DEF topics
  <2>2. id \notin DOMAIN w.topics
    BY <1>3, <2>1 DEF ResolveSuggestion, HasRoom, Fresh
  <2>3. {"plans", "tasks"} \subseteq DOMAIN made
    BY DEF Topic
  <2> HIDE DEF id, made
  <2>4. TopicsGrow(w.topics, v.topics)
    BY <1>2, <2>1, <2>2, <2>3 DEF Put, TopicsGrow, TopicOn, Sound, Stored
  <2> QED BY <1>2, <2>4, Unwritten DEF Grown, Sound
<1>4. CASE mode \in {"main", "link"}
  <2>1. topics = [w.topics EXCEPT ![id] = more]
    BY <1>4 DEF topics
  <2>2. id \in DOMAIN w.topics => TopicOn(w.topics[id], more)
    <3> HIDE DEF id
    <3> QED BY LinksAdded DEF Sound, Stored
  <2> HIDE DEF id, more
  <2> QED BY <1>2, <2>1, <2>2, TopicWritten DEF Sound
<1>5. CASE mode = "dismiss"
  <2>1. topics = w.topics
    BY <1>5 DEF topics
  <2> QED BY <1>2, <2>1, Unwritten DEF Grown, Sound
<1> QED BY <1>3, <1>4, <1>5

---------------------------------------------------------------------------
(* Links that are replaced, and main topics. *)

\* Whatever links are replaced, a main topic stays linked.
LEMMA LinksReplaced ==
  ASSUME NEW w, NEW v, NEW u, NEW t \in DOMAIN w.topics, NEW version, NEW plans, NEW tasks,
         Sound(w), ReplaceLinks(w, v, u, t, version, plans, tasks)
  PROVE  Sound(v)
<1> DEFINE e == [w.topics[t] EXCEPT !.plans = plans, !.tasks = tasks, !.links = version + 1]
<1>1. v = [w EXCEPT !.topics = [w.topics EXCEPT ![t] = e]]
  BY DEF ReplaceLinks
<1>2. {"plans", "tasks"} \subseteq DOMAIN e /\ e.plans = plans /\ e.tasks = tasks
  BY DEF Sound, Stored
<1> HIDE DEF e
<1>3. /\ Collections(v) /\ v.plans = w.plans /\ v.tasks = w.tasks
      /\ DOMAIN v.topics = DOMAIN w.topics
      /\ \A i \in DOMAIN w.topics : v.topics[i] = IF i = t THEN e ELSE w.topics[i]
  BY <1>1 DEF Sound, Stored, Collections
<1>4. Stored(v)
  BY <1>2, <1>3 DEF Sound, Stored, Collections
<1>5. /\ \A p \in DOMAIN w.plans : w.plans[p].main = t => p \in plans
      /\ \A k \in DOMAIN w.tasks : w.tasks[k].main = t => k \in tasks
  BY DEF ReplaceLinks
<1>6. MainsLinked(v)
  BY <1>2, <1>3, <1>5 DEF Sound, MainsLinked
<1> QED BY <1>4, <1>6 DEF Sound

\* The main topic of a task is made, and it is nobody else's.
LEMMA TaskMainMade ==
  ASSUME NEW w, NEW v, NEW u, NEW t \in DOMAIN w.tasks, Sound(w), TaskMainTopic(w, v, u, t)
  PROVE  Sound(v)
<1> DEFINE id == <<"taskMain", t>>
           made == Topic({}, {t}, None, None, 0)
           e == [w.tasks[t] EXCEPT !.main = id]
<1>1. v = [w EXCEPT !.tasks = [w.tasks EXCEPT ![t] = e], !.topics = Put(w.topics, id, made)]
  BY DEF TaskMainTopic
<1>2. {"plans", "tasks"} \subseteq DOMAIN made /\ made.tasks = {t}
  BY DEF Topic
<1>3. "main" \in DOMAIN e /\ e.main = id
  BY DEF Sound, Stored
<1>4. id[1] = "taskMain" /\ id[2] = t
  OBVIOUS
<1> HIDE DEF id, made, e
<1>5. /\ Collections(v) /\ v.plans = w.plans
      /\ v.tasks = [w.tasks EXCEPT ![t] = e] /\ v.topics = Put(w.topics, id, made)
  BY <1>1 DEF Sound, Stored, Collections
<1>6. /\ DOMAIN v.tasks = DOMAIN w.tasks
      /\ \A k \in DOMAIN w.tasks : v.tasks[k] = IF k = t THEN e ELSE w.tasks[k]
      /\ DOMAIN v.topics = DOMAIN w.topics \cup {id}
      /\ \A i \in DOMAIN v.topics : v.topics[i] = IF i = id THEN made ELSE w.topics[i]
  BY <1>5 DEF Put
<1>7. \A p \in DOMAIN w.plans : w.plans[p].main # id
  BY <1>4 DEF Sound, Stored
<1>8. \A k \in DOMAIN w.tasks : k # t /\ w.tasks[k].main # None => w.tasks[k].main # id
  BY <1>4 DEF Sound, Stored
<1>9. Stored(v)
  BY <1>2, <1>3, <1>4, <1>5, <1>6 DEF Sound, Stored, Collections
<1>10. \A p \in DOMAIN v.plans : /\ v.plans[p].main \in DOMAIN v.topics
                                 /\ p \in v.topics[v.plans[p].main].plans
  BY <1>5, <1>6, <1>7 DEF Sound, MainsLinked
<1>11. \A k \in DOMAIN v.tasks :
         v.tasks[k].main # None => /\ v.tasks[k].main \in DOMAIN v.topics
                                   /\ k \in v.topics[v.tasks[k].main].tasks
  BY <1>2, <1>3, <1>6, <1>8 DEF Sound, MainsLinked
<1> QED BY <1>9, <1>10, <1>11 DEF Sound, MainsLinked

---------------------------------------------------------------------------
(* Votes. *)

\* An approved arrangement makes a plan with a main topic of its own, which continues the topic it
\* was proposed in.
LEMMA ArrangementMade ==
  ASSUME NEW w, NEW planIds, NEW taskIds, NEW p, Sound(w), HasRoom(planIds, w.plans)
  PROVE  Sound(Arrangement(w, planIds, taskIds, p))
<1> DEFINE v == Arrangement(w, planIds, taskIds, p)
           q == w.proposals[p]
           plan == Fresh(planIds, w.plans)
           main == <<"main", plan>>
           ids == FreshSequence(Len(q.tasks), taskIds, w.tasks)
           new == {ids[i] : i \in DOMAIN ids}
           at(t) == CHOOSE i \in DOMAIN ids : ids[i] = t
           begun == [owner |-> q.owner, status |-> "active", revision |-> 1, refs |-> {},
                     discarded |-> FALSE, by |-> None, main |-> main]
           plans == Put(w.plans, plan, begun)
           tasks == [t \in DOMAIN w.tasks \cup new |->
                       IF t \in new THEN ArrangedTask(plan, ids, q.tasks[at(t)]) ELSE w.tasks[t]]
           linked == [w.topics EXCEPT ![q.topic].plans = @ \cup {plan},
                                      ![q.topic].tasks = @ \cup new]
           made == Topic({plan}, {}, plan, q.topic, q.after)
           topics == Put(linked, main, made)
<1>1. \E x : v = [w EXCEPT !.proposals = x, !.plans = plans, !.tasks = tasks, !.topics = topics]
  <2>1. \E x : v = [w EXCEPT !.proposals[p].plan = x, !.plans = plans, !.tasks = tasks,
                             !.topics = topics]
    BY DEF Arrangement
  <2> HIDE DEF v, plans, tasks, topics
  <2> QED BY <2>1
<1>2. plan \notin DOMAIN w.plans
  BY DEF HasRoom, Fresh
<1>3. "main" \in DOMAIN begun /\ begun.main = main /\ main[1] = "main" /\ main[2] = plan
  OBVIOUS
<1>4. \A a, b, c : "main" \in DOMAIN ArrangedTask(a, b, c) /\ ArrangedTask(a, b, c).main = None
  BY DEF ArrangedTask
<1>5. /\ DOMAIN tasks = DOMAIN w.tasks \cup new
      /\ \A k \in DOMAIN tasks :
           \/ k \in DOMAIN w.tasks /\ tasks[k] = w.tasks[k]
           \/ "main" \in DOMAIN tasks[k] /\ tasks[k].main = None
  <2> HIDE DEF new, plan, ids, q
  <2> QED BY <1>4
<1>6. {"plans", "tasks"} \subseteq DOMAIN made /\ made.plans = {plan}
  BY DEF Topic
<1>7. /\ DOMAIN linked = DOMAIN w.topics
      /\ \A i \in DOMAIN w.topics : TopicOn(w.topics[i], linked[i])
  <2> DEFINE t == q.topic
             e == [w.topics[t] EXCEPT !.plans = @ \cup {plan}, !.tasks = @ \cup new]
  <2>1. linked = [w.topics EXCEPT ![t] = e]
    OBVIOUS
  <2>2. t \in DOMAIN w.topics => TopicOn(w.topics[t], e)
    <3> HIDE DEF plan, new, t
    <3> QED BY DEF TopicOn, Sound, Stored
  <2>3. \A i \in DOMAIN w.topics : TopicOn(w.topics[i], w.topics[i])
    BY DEF TopicOn, Sound, Stored
  <2> HIDE DEF linked, e, t
  <2> QED BY <2>1, <2>2, <2>3
<1> HIDE DEF v, plan, main, new, ids, q, begun, plans, tasks, linked, made, topics
<1>8. Collections(v) /\ v.plans = plans /\ v.tasks = tasks /\ v.topics = topics
  BY <1>1 DEF Sound, Stored, Collections
<1>9. /\ DOMAIN plans = DOMAIN w.plans \cup {plan}
      /\ \A i \in DOMAIN plans : plans[i] = IF i = plan THEN begun ELSE w.plans[i]
  BY DEF plans, Put
<1>10. /\ DOMAIN topics = DOMAIN w.topics \cup {main}
       /\ topics[main] = made
       /\ \A i \in DOMAIN w.topics : i # main => TopicOn(w.topics[i], topics[i])
  BY <1>7 DEF topics, Put
<1>11. \A i \in DOMAIN v.topics : {"plans", "tasks"} \subseteq DOMAIN v.topics[i]
  BY <1>6, <1>8, <1>10 DEF TopicOn
<1>12. Stored(v)
  <2>1. \A i \in DOMAIN v.plans : /\ "main" \in DOMAIN v.plans[i]
                                  /\ v.plans[i].main[1] # "taskMain"
                                  /\ v.plans[i].main[1] = "main" => v.plans[i].main[2] = i
    BY <1>3, <1>8, <1>9 DEF Sound, Stored
  <2>2. \A k \in DOMAIN v.tasks :
          /\ "main" \in DOMAIN v.tasks[k]
          /\ v.tasks[k].main # None =>
               /\ v.tasks[k].main[1] # "main"
               /\ v.tasks[k].main[1] = "taskMain" => v.tasks[k].main[2] = k
    BY <1>5, <1>8 DEF Sound, Stored
  <2> QED BY <1>8, <1>11, <2>1, <2>2 DEF Stored, Collections
<1>13. ASSUME NEW i \in DOMAIN v.plans
       PROVE  v.plans[i].main \in DOMAIN v.topics /\ i \in v.topics[v.plans[i].main].plans
  <2>1. CASE i = plan
    BY <1>3, <1>6, <1>8, <1>9, <1>10, <2>1
  <2>2. CASE i # plan
    <3>1. i \in DOMAIN w.plans /\ v.plans[i] = w.plans[i]
      BY <1>8, <1>9, <2>2
    <3>2. w.plans[i].main # main
      BY <1>3, <2>2, <3>1 DEF Sound, Stored
    <3> QED BY <1>8, <1>10, <3>1, <3>2 DEF Sound, MainsLinked, TopicOn
  <2> QED BY <2>1, <2>2
<1>14. ASSUME NEW k \in DOMAIN v.tasks, v.tasks[k].main # None
       PROVE  v.tasks[k].main \in DOMAIN v.topics /\ k \in v.topics[v.tasks[k].main].tasks
  <2>1. k \in DOMAIN w.tasks /\ v.tasks[k] = w.tasks[k]
    BY <1>5, <1>8, <1>14
  <2>2. w.tasks[k].main # main
    BY <1>3, <1>14, <2>1 DEF Sound, Stored
  <2> QED BY <1>8, <1>10, <1>14, <2>1, <2>2 DEF Sound, MainsLinked, TopicOn
<1> QED BY <1>12, <1>13, <1>14 DEF Sound, MainsLinked, v

\* Changed fields leave main topics alone.
LEMMA FieldsWritten ==
  ASSUME NEW w, NEW kind, NEW o, NEW fields, Stored(w)
  PROVE  Grown(w, FieldsApplied(w, kind, o, fields))
<1> DEFINE v == FieldsApplied(w, kind, o, fields)
           now == Arranged(Object(w, kind, o), fields)
           later == [now EXCEPT !.revision = now.revision + 1]
           sent == IF now.status = "delivered" THEN [later EXCEPT !.status = "rework"] ELSE later
<1>1. v = IF kind = "plan" THEN [w EXCEPT !.plans = [w.plans EXCEPT ![o] = later]]
          ELSE [w EXCEPT !.tasks = [w.tasks EXCEPT ![o] = sent]]
  BY DEF FieldsApplied
<1>2. ASSUME "main" \in DOMAIN Object(w, kind, o)
      PROVE  /\ "main" \in DOMAIN later /\ later.main = Object(w, kind, o).main
             /\ "main" \in DOMAIN sent /\ sent.main = Object(w, kind, o).main
  <2>1. "main" \in DOMAIN now /\ now.main = Object(w, kind, o).main
    BY <1>2 DEF Arranged
  <2> HIDE DEF now
  <2> QED BY <2>1
<1> HIDE DEF v, later, sent
<1>3. CASE kind = "plan"
  <2>1. /\ Collections(v) /\ v.tasks = w.tasks /\ v.topics = w.topics
        /\ v.plans = [w.plans EXCEPT ![o] = later]
    BY <1>1, <1>3 DEF Stored, Collections
  <2>2. WorkStays(w.plans, v.plans)
    BY <1>2, <1>3, <2>1 DEF WorkStays, Object, Stored
  <2> QED BY <2>1, <2>2 DEF Grown, WorkStays, TopicsGrow, TopicOn, Stored, v
<1>4. CASE kind # "plan"
  <2>1. /\ Collections(v) /\ v.plans = w.plans /\ v.topics = w.topics
        /\ v.tasks = [w.tasks EXCEPT ![o] = sent]
    BY <1>1, <1>4 DEF Stored, Collections
  <2>2. WorkStays(w.tasks, v.tasks)
    BY <1>2, <1>4, <2>1 DEF WorkStays, Object, Stored
  <2> QED BY <2>1, <2>2 DEF Grown, WorkStays, TopicsGrow, TopicOn, Stored, v
<1> QED BY <1>3, <1>4

\* A vote, which may approve an arrangement or a change.
LEMMA Voted ==
  ASSUME NEW w, NEW v, NEW u, NEW planIds, NEW taskIds, NEW p, NEW revision, Sound(w),
         ApproveProposal(w, v, u, planIds, taskIds, p, revision)
  PROVE  Sound(v)
<1> DEFINE q == w.proposals[p]
           voted == [w EXCEPT !.proposals[p].votes = @ \cup {u}]
           approved == [voted EXCEPT !.proposals[p].status = "approved"]
<1>1. /\ q.target = None => HasRoom(planIds, w.plans)
      /\ v = IF q.approvers \ (q.votes \cup {u}) # {} THEN voted
             ELSE IF q.target # None
             THEN FieldsApplied(approved, q.target[1], q.target[2], q.fields)
             ELSE Arrangement(approved, planIds, taskIds, p)
  BY DEF ApproveProposal
<1>2. \E x : voted = [w EXCEPT !.proposals = x]
  OBVIOUS
<1>3. \E x : approved = [voted EXCEPT !.proposals = x]
  <2> HIDE DEF voted
  <2> QED OBVIOUS
<1> HIDE DEF q, voted, approved
<1>4. \A x \in {voted, approved} : /\ Collections(x) /\ x.plans = w.plans
                                   /\ x.tasks = w.tasks /\ x.topics = w.topics
  BY <1>2, <1>3 DEF Sound, Stored, Collections
<1>5. Sound(voted) /\ Sound(approved)
  BY <1>4, Unwritten, GrownSound DEF Sound, Grown
<1>6. Sound(FieldsApplied(approved, q.target[1], q.target[2], q.fields))
  BY <1>5, FieldsWritten, GrownSound DEF Sound
<1>7. q.target = None => Sound(Arrangement(approved, planIds, taskIds, p))
  BY <1>1, <1>4, <1>5, ArrangementMade
<1> QED BY <1>1, <1>5, <1>6, <1>7

---------------------------------------------------------------------------
(* Counting. *)

\* Every set of numbers has a smallest one.
LEMMA Smallest ==
  ASSUME NEW S, S \subseteq Nat, S # {}
  PROVE  \E n \in S : \A m \in S : n <= m
<1>1. IsWellFoundedOn(OpToRel(<, Nat), Nat)
  BY NatLessThanWellFounded
<1>2. \A m, n \in Nat : m < n => <<m, n>> \in OpToRel(<, Nat)
  BY DEF OpToRel
<1>3. \E R : IsWellFoundedOn(R, Nat) /\ \A m, n \in Nat : m < n => <<m, n>> \in R
  BY <1>1, <1>2, Zenon
<1>4. PICK R : IsWellFoundedOn(R, Nat) /\ \A m, n \in Nat : m < n => <<m, n>> \in R
  BY <1>3
<1>5. ASSUME NEW U, IsWellFoundedOn(R, U), S \subseteq U
      PROVE  \E n \in S : \A m \in S : ~(<<m, n>> \in R)
  BY <1>5, WFMin
<1>6. PICK n \in S : \A m \in S : ~(<<m, n>> \in R)
  BY <1>4, <1>5
<1>7. \A m \in S : m \in Nat /\ n \in Nat
  OBVIOUS
<1>8. \A m \in S : ~(m < n)
  BY <1>4, <1>6, <1>7
<1>9. \A m \in S : n <= m
  BY <1>7, <1>8
<1> QED BY <1>9

\* Counting from zero reaches every number.
LEMMA Counted ==
  ASSUME NEW N \in Nat, NEW S, 0 \in S, \A n \in 1..N : n - 1 \in S => n \in S
  PROVE  \A n \in 0..N : n \in S
<1> DEFINE U == (0..N) \ S
<1> SUFFICES ASSUME U # {} PROVE FALSE
  OBVIOUS
<1>0. U \subseteq Nat
  OBVIOUS
<1> HIDE DEF U
<1>1. PICK n \in U : \A m \in U : n <= m
  BY <1>0, Smallest
<1>2. n \in 1..N /\ n - 1 \in 0..N /\ ~(n <= n - 1)
  BY <1>1 DEF U
<1>3. n - 1 \in U
  BY <1>1, <1>2 DEF U
<1> QED BY <1>1, <1>2, <1>3

---------------------------------------------------------------------------
(* Histories. *)

\* The messages of a numbered history up to a number are its beginning.
LEMMA UpToPrefix ==
  ASSUME NEW S, NEW s \in Seq(S), NEW n \in Nat, n <= Len(s), \A i \in 1..Len(s) : s[i].seq = i
  PROVE  UpTo(s, n) = SubSeq(s, 1, n)
<1> DEFINE N == Len(s)
           part(i) == SubSeq(s, 1, IF i <= n THEN i ELSE n)
           W == [i \in 0..N |-> part(i)]
           next(f, i) == IF i = 0 THEN <<>>
                         ELSE IF s[i].seq <= n THEN Append(f[i-1], s[i]) ELSE f[i-1]
           F == CHOOSE f : f = [i \in 0..N |-> next(f, i)]
<1>0. N \in Nat
  OBVIOUS
<1>1. ASSUME NEW i \in 0..N PROVE part(i) = next(W, i)
  <2>1. CASE i = 0
    BY <2>1
  <2>2. CASE i # 0 /\ i <= n
    <3>1. i - 1 \in 0..N /\ W[i-1] = SubSeq(s, 1, i - 1)
      BY <2>2
    <3>2. SubSeq(s, 1, i) = Append(SubSeq(s, 1, i - 1), s[i])
      BY <2>2
    <3> QED BY <2>2, <3>1, <3>2
  <2>3. CASE i # 0 /\ ~(i <= n)
    <3>1. i - 1 \in 0..N /\ W[i-1] = SubSeq(s, 1, n)
      BY <2>3
    <3> QED BY <2>3, <3>1
  <2> QED BY <2>1, <2>2, <2>3
<1>2. W = [i \in 0..N |-> next(W, i)]
  BY <1>1
<1>3. F = [i \in 0..N |-> next(F, i)]
  <2> HIDE DEF W, next
  <2> QED BY <1>2
<1>4. UpTo(s, n) = F[N]
  BY DEF UpTo
<1> HIDE DEF F
<1>5. \A i \in 0..N : F[i] = next(F, i)
  <2> HIDE DEF next
  <2> QED BY <1>3
<1> DEFINE same == {i \in 0..N : F[i] = part(i)}
<1>6. 0 \in same
  <2>1. F[0] = next(F, 0) /\ part(0) = next(W, 0) /\ 0 \in 0..N
    <3> HIDE DEF next, part, W
    <3> QED BY <1>0, <1>1, <1>5
  <2>2. next(F, 0) = next(W, 0)
    OBVIOUS
  <2> HIDE DEF next, part, W
  <2> QED BY <2>1, <2>2
<1>7. \A i \in 1..N : i - 1 \in same => i \in same
  <2> SUFFICES ASSUME NEW i \in 1..N, i - 1 \in same PROVE F[i] = part(i)
    BY <1>0
  <2>1. F[i-1] = W[i-1]
    BY <1>0
  <2>2. next(F, i) = next(W, i)
    BY <2>1
  <2>3. F[i] = next(F, i) /\ part(i) = next(W, i)
    <3> HIDE DEF next, part, W
    <3> QED BY <1>0, <1>1, <1>5
  <2> HIDE DEF next, part, W
  <2> QED BY <2>2, <2>3
<1>8. N \in same
  <2> HIDE DEF same, N
  <2>1. \A i \in 0..N : i \in same
    BY <1>0, <1>6, <1>7, Counted
  <2> QED BY <1>0, <2>1
<1> QED BY <1>0, <1>4, <1>8

\* Threads that begin somewhere.
Thread(w) == Threaded(w) /\ \E n \in Nat : Rooted(w, n)

\* What a person reads before the own messages of a topic.
Begin(w, h, t) ==
  IF w.topics[t].parent \in DOMAIN w.topics
  THEN UpTo(h[w.topics[t].parent], w.topics[t].fork) ELSE <<>>

\* Histories are what they are defined to be: the recursion ends.
LEMMA HistoryDefined ==
  ASSUME NEW w, Thread(w)
  PROVE  /\ DOMAIN Histories(w) = DOMAIN w.topics
         /\ \A t \in DOMAIN w.topics :
              Histories(w)[t] = Begin(w, Histories(w), t) \o Own(w, t)
<1> DEFINE D == DOMAIN w.topics
           H == Histories(w)
<1>1. PICK n \in Nat : Rooted(w, n)
  BY DEF Thread
<1>2. PICK depth \in [D -> 0..n] :
         \A t \in D : w.topics[t].parent # None => depth[w.topics[t].parent] < depth[t]
  BY <1>1 DEF Rooted
<1>3. \A t \in D : w.topics[t].parent \in D => depth[w.topics[t].parent] < depth[t]
  BY <1>2 DEF Thread, Threaded
<1> DEFINE said(h, t) == Begin(w, h, t) \o Own(w, t)
           good(h, k) == \A t \in D : depth[t] < k => h[t] = said(h, t)
           reached == {k \in 0..(n + 1) : \E h : good(h, k)}
<1>4. 0 \in reached
  <2>1. \A h : good(h, 0)
    BY <1>2
  <2> HIDE DEF good
  <2> QED BY <2>1
<1>5. ASSUME NEW k \in 1..(n + 1), k - 1 \in reached PROVE k \in reached
  <2>1. PICK h : good(h, k - 1)
    BY <1>5
  <2> DEFINE g == [t \in D |-> IF depth[t] = k - 1 THEN said(h, t) ELSE h[t]]
  <2>2. ASSUME NEW t \in D, depth[t] < k PROVE g[t] = said(g, t)
    <3>1. w.topics[t].parent \in D => g[w.topics[t].parent] = h[w.topics[t].parent]
      BY <1>2, <1>3, <2>2
    <3>2. Begin(w, g, t) = Begin(w, h, t)
      <4> HIDE DEF g
      <4> QED BY <3>1 DEF Begin
    <3>3. g[t] = said(h, t)
      BY <1>2, <2>1, <2>2
    <3> HIDE DEF g
    <3> QED BY <3>2, <3>3
  <2>3. good(g, k)
    <3> HIDE DEF g, said
    <3> QED BY <2>2
  <2> HIDE DEF good, g
  <2> QED BY <2>3
<1>6. n + 1 \in reached
  <2> HIDE DEF reached
  <2> QED BY <1>1, <1>4, <1>5, Counted
<1>7. PICK h : good(h, n + 1)
  <2> HIDE DEF good
  <2> QED BY <1>6
<1> DEFINE g == [t \in D |-> h[t]]
<1>8. ASSUME NEW t \in D PROVE g[t] = said(g, t)
  <2>1. h[t] = said(h, t)
    BY <1>2, <1>7
  <2>2. Begin(w, g, t) = Begin(w, h, t)
    BY DEF Begin
  <2> QED BY <2>1, <2>2
<1>9. g = [t \in D |-> said(g, t)]
  <2> HIDE DEF said
  <2> QED BY <1>8
<1> HIDE DEF g
<1>10. H = [t \in D |-> said(H, t)]
  <2>1. H = CHOOSE f : f = [t \in D |-> said(f, t)]
    BY DEF Histories, Begin
  <2> HIDE DEF said, H
  <2> QED BY <1>9, <2>1
<1> HIDE DEF said, H
<1>11. DOMAIN H = D /\ \A t \in D : H[t] = said(H, t)
  BY <1>10
<1> QED BY <1>11 DEF said, H

\* What is read in a topic.
Read(w) == UNION {{Own(w, t)[i] : i \in DOMAIN w.topics[t].messages} : t \in DOMAIN w.topics}

\* The own messages of a topic are numbered on from its fork.
LEMMA OwnNumbered ==
  ASSUME NEW w, Threaded(w), NEW t \in DOMAIN w.topics
  PROVE  /\ Own(w, t) \in Seq(Read(w)) /\ Len(Own(w, t)) = Len(w.topics[t].messages)
         /\ \A i \in 1..Len(w.topics[t].messages) : Own(w, t)[i].seq = w.topics[t].fork + i
         /\ w.topics[t].fork \in Nat /\ Len(w.topics[t].messages) \in Nat
<1> DEFINE said == w.topics[t].messages
           fork == w.topics[t].fork
           own == Own(w, t)
<1>1. /\ said \in Seq(Message) /\ \A i \in DOMAIN said : said[i].seq \in {0, fork + i}
      /\ fork \in Nat
  BY DEF Threaded, InOrder, Attached
<1>2. Len(said) \in Nat /\ DOMAIN said = 1..Len(said)
  BY <1>1
<1>3. own = [i \in DOMAIN said |->
               [topic |-> t, at |-> i, kind |-> said[i].kind,
                seq |-> IF said[i].seq # 0 THEN said[i].seq ELSE fork + i]]
  BY DEF Own
<1>4. \A i \in DOMAIN own : own[i] \in Read(w)
  BY <1>3 DEF Read
<1> HIDE DEF own, said, fork
<1>5. DOMAIN own = 1..Len(said)
  BY <1>2, <1>3
<1>6. own \in Seq(Read(w)) /\ Len(own) = Len(said)
  <2>1. own = [i \in 1..Len(said) |-> own[i]]
    BY <1>3, <1>5
  <2> QED BY <1>2, <1>4, <1>5, <2>1
<1>7. \A i \in 1..Len(said) : own[i].seq = fork + i
  BY <1>1, <1>2, <1>3
<1> QED BY <1>1, <1>2, <1>6, <1>7 DEF own, said, fork

\* A history is as long as its last number, and its numbers are its positions.
Counts(w, t) ==
  /\ Histories(w)[t] \in Seq(Read(w)) /\ Len(Histories(w)[t]) = Reach(w, t)
  /\ \A i \in 1..Reach(w, t) : Histories(w)[t][i].seq = i

\* A history is the beginning of its parent's, up to the fork, and the own messages.
Continues(w, t) ==
  /\ \A i \in 1..w.topics[t].fork :
       Histories(w)[t][i] = Histories(w)[w.topics[t].parent][i]
  /\ \A i \in 1..Len(w.topics[t].messages) :
       Histories(w)[t][w.topics[t].fork + i] = Own(w, t)[i]

\* A topic whose parent is numbered is numbered.
LEMMA TopicCounts ==
  ASSUME NEW w, Thread(w), NEW t \in DOMAIN w.topics,
         w.topics[t].parent # None => Counts(w, w.topics[t].parent)
  PROVE  Counts(w, t) /\ Continues(w, t)
<1> DEFINE H == Histories(w)
           fork == w.topics[t].fork
           parent == w.topics[t].parent
           said == w.topics[t].messages
           own == Own(w, t)
           begin == Begin(w, H, t)
<1>1. Threaded(w) /\ H[t] = begin \o own
  BY HistoryDefined DEF Thread
<1>2. /\ own \in Seq(Read(w)) /\ Len(own) = Len(said)
      /\ \A i \in 1..Len(said) : own[i].seq = fork + i
      /\ fork \in Nat /\ Len(said) \in Nat
  BY <1>1, OwnNumbered
<1>3. /\ begin \in Seq(Read(w)) /\ Len(begin) = fork
      /\ \A i \in 1..fork : begin[i].seq = i /\ begin[i] = H[parent][i]
  <2>1. CASE parent = None
    <3>1. fork = 0 /\ begin = <<>>
      BY <1>1, <2>1 DEF Threaded, Attached, Begin
    <3> HIDE DEF begin, fork
    <3> QED BY <3>1
  <2>2. CASE parent # None
    <3>1. parent \in DOMAIN w.topics /\ fork <= Reach(w, parent)
      BY <1>1, <2>2 DEF Threaded, Attached
    <3>2. begin = UpTo(H[parent], fork)
      BY <3>1 DEF Begin
    <3>3. /\ H[parent] \in Seq(Read(w)) /\ Len(H[parent]) = Reach(w, parent)
          /\ \A i \in 1..Reach(w, parent) : H[parent][i].seq = i
      BY <2>2 DEF Counts
    <3> HIDE DEF H, fork, parent, begin
    <3>4. Reach(w, parent) \in Nat
      BY <3>3
    <3>5. begin = SubSeq(H[parent], 1, fork)
      BY <1>2, <3>1, <3>2, <3>3, UpToPrefix
    <3>6. begin \in Seq(Read(w)) /\ Len(begin) = fork
      BY <1>2, <3>1, <3>3, <3>4, <3>5
    <3>7. \A i \in 1..fork : begin[i] = H[parent][i]
      BY <1>2, <3>1, <3>3, <3>4, <3>5
    <3>8. \A i \in 1..fork : H[parent][i].seq = i
      BY <1>2, <3>1, <3>3, <3>4
    <3> QED BY <3>6, <3>7, <3>8
  <2> QED BY <2>1, <2>2
<1>4. Reach(w, t) = fork + Len(said)
  BY DEF Reach
<1> HIDE DEF H, fork, parent, said, own, begin
<1>5. H[t] \in Seq(Read(w)) /\ Len(H[t]) = fork + Len(said)
  <2> DEFINE R == Read(w)
  <2>1. begin \in Seq(R) /\ own \in Seq(R) /\ H[t] = begin \o own
    BY <1>1, <1>2, <1>3
  <2>2. Len(begin) = fork /\ Len(own) = Len(said)
    BY <1>2, <1>3
  <2> HIDE DEF R
  <2>3. H[t] \in Seq(R)
    BY <2>1
  <2>4. Len(H[t]) = Len(begin) + Len(own)
    BY <2>1
  <2> QED BY <2>2, <2>3, <2>4 DEF R
<1>6. \A i \in 1..fork : H[t][i] = begin[i]
  BY <1>1, <1>2, <1>3
<1>7. \A i \in 1..Len(said) : H[t][fork + i] = own[i]
  BY <1>1, <1>2, <1>3
<1>8. ASSUME NEW i \in 1..(fork + Len(said)) PROVE H[t][i].seq = i
  <2>1. CASE i <= fork
    BY <1>2, <1>3, <1>6, <2>1
  <2>2. CASE ~(i <= fork)
    <3> DEFINE j == i - fork
    <3>1. j \in 1..Len(said) /\ i = fork + j
      BY <1>2, <2>2
    <3> HIDE DEF j
    <3> QED BY <1>2, <1>7, <3>1
  <2> QED BY <2>1, <2>2
<1>9. Counts(w, t)
  BY <1>4, <1>5, <1>8 DEF Counts, H
<1>10. Continues(w, t)
  BY <1>3, <1>6, <1>7 DEF Continues, H, fork, parent, said, own
<1> QED BY <1>9, <1>10

\* Something that passes from parents to their forks is so of all topics.
LEMMA PassedOn ==
  ASSUME NEW w, Thread(w), NEW S,
         \A t \in DOMAIN w.topics :
           (w.topics[t].parent # None => w.topics[t].parent \in S) => t \in S
  PROVE  DOMAIN w.topics \subseteq S
<1> DEFINE D == DOMAIN w.topics
<1>1. PICK n \in Nat : Rooted(w, n)
  BY DEF Thread
<1>2. PICK depth \in [D -> 0..n] :
         \A t \in D : w.topics[t].parent # None => depth[w.topics[t].parent] < depth[t]
  BY <1>1 DEF Rooted
<1>3. \A t \in D : w.topics[t].parent # None => w.topics[t].parent \in D
  BY DEF Thread, Threaded, Attached
<1> DEFINE reached == {k \in 0..(n + 1) : \A t \in D : depth[t] < k => t \in S}
<1>4. 0 \in reached
  BY <1>2
<1>5. ASSUME NEW k \in 1..(n + 1), k - 1 \in reached PROVE k \in reached
  <2>1. ASSUME NEW t \in D, depth[t] < k PROVE t \in S
    <3>1. w.topics[t].parent # None => w.topics[t].parent \in S
      BY <1>2, <1>3, <1>5, <2>1
    <3> QED BY <3>1
  <2> QED BY <2>1
<1>6. n + 1 \in reached
  <2> HIDE DEF reached
  <2>1. \A k \in 0..(n + 1) : k \in reached
    BY <1>1, <1>4, <1>5, Counted
  <2> QED BY <2>1
<1> QED BY <1>2, <1>6

\* Every history is numbered.
LEMMA AllCount ==
  ASSUME NEW w, Thread(w)
  PROVE  \A t \in DOMAIN w.topics : Counts(w, t) /\ Continues(w, t)
<1> DEFINE S == {t \in DOMAIN w.topics : Counts(w, t)}
<1>1. \A t \in DOMAIN w.topics :
        (w.topics[t].parent # None => w.topics[t].parent \in S) => t \in S
  BY TopicCounts
<1>2. DOMAIN w.topics \subseteq S
  <2> HIDE DEF S
  <2> QED BY <1>1, PassedOn
<1>3. \A t \in DOMAIN w.topics : w.topics[t].parent # None => w.topics[t].parent \in DOMAIN w.topics
  BY DEF Thread, Threaded, Attached
<1> QED BY <1>2, <1>3, TopicCounts

\* So the last number is the length of the history, and a fork point lies in it.
LEMMA Points ==
  ASSUME NEW w, Thread(w), NEW t \in DOMAIN w.topics
  PROVE  /\ Reach(w, t) \in Nat /\ LastSeq(w, t) = Reach(w, t)
         /\ \A i \in DOMAIN Histories(w)[t] : Histories(w)[t][i].seq = i /\ i \in 1..Reach(w, t)
         /\ \A point : IsForkPoint(w, t, point) => point \in 0..Reach(w, t)
<1> DEFINE h == Histories(w)[t]
           n == Reach(w, t)
<1>1. h \in Seq(Read(w)) /\ Len(h) = n /\ \A i \in 1..n : h[i].seq = i
  BY AllCount DEF Counts
<1>2. /\ LastSeq(w, t) = IF h = <<>> THEN 0 ELSE h[Len(h)].seq
      /\ \A point : IsForkPoint(w, t, point) <=>
                      (point = 0 \/ \E i \in DOMAIN h : h[i].seq = point)
  BY DEF LastSeq, IsForkPoint
<1> HIDE DEF h, n
<1>3. n \in Nat /\ DOMAIN h = 1..n
  BY <1>1
<1>4. LastSeq(w, t) = n
  <2>1. CASE n = 0
    BY <1>1, <1>2, <2>1
  <2>2. CASE n # 0
    <3>1. h # <<>> /\ n \in 1..n
      BY <1>1, <1>3, <2>2
    <3> QED BY <1>1, <1>2, <3>1
  <2> QED BY <2>1, <2>2
<1>5. \A i \in DOMAIN h : h[i].seq = i /\ i \in 1..n
  BY <1>1, <1>3
<1>6. \A point : IsForkPoint(w, t, point) => point \in 0..n
  BY <1>1, <1>2, <1>3, <1>5
<1> QED BY <1>3, <1>4, <1>5, <1>6 DEF h, n

---------------------------------------------------------------------------
(* What becomes of histories. *)

\* A topic goes on where it was, and a new one starts after a message that was there.
Later(e, d) ==
  /\ InOrder(d) /\ d.parent = e.parent /\ d.fork = e.fork
  /\ Len(e.messages) <= Len(d.messages)
  /\ \A i \in DOMAIN e.messages : d.messages[i] = e.messages[i]
GoesOn(w, v) ==
  /\ None \notin DOMAIN v.topics
  /\ \A t \in DOMAIN w.topics : t \in DOMAIN v.topics /\ Later(w.topics[t], v.topics[t])
  /\ \A t \in DOMAIN v.topics \ DOMAIN w.topics :
       InOrder(v.topics[t]) /\ Attached(w, v.topics[t].parent, v.topics[t].fork)

\* A point that is in a history stays in it.
LEMMA PointsStay ==
  ASSUME NEW w, NEW v, Threaded(w), GoesOn(w, v), NEW parent, NEW point, Attached(w, parent, point)
  PROVE  Attached(v, parent, point)
<1>1. CASE parent = None
  BY <1>1 DEF Attached
<1>2. CASE parent # None
  <2>1. parent \in DOMAIN w.topics /\ point \in Nat /\ point <= Reach(w, parent)
    BY <1>2 DEF Attached
  <2>2. /\ w.topics[parent].messages \in Seq(Message) /\ v.topics[parent].messages \in Seq(Message)
        /\ Len(w.topics[parent].messages) <= Len(v.topics[parent].messages)
        /\ w.topics[parent].fork \in Nat /\ v.topics[parent].fork = w.topics[parent].fork
        /\ parent \in DOMAIN v.topics
    BY <2>1 DEF Threaded, InOrder, Attached, GoesOn, Later
  <2>3. Len(w.topics[parent].messages) \in Nat /\ Len(v.topics[parent].messages) \in Nat
    BY <2>2
  <2>4. point <= Reach(v, parent)
    BY <2>1, <2>2, <2>3 DEF Reach
  <2> QED BY <1>2, <2>1, <2>2, <2>4 DEF Attached
<1> QED BY <1>1, <1>2

\* Threads go on as threads.
LEMMA ThreadGoesOn ==
  ASSUME NEW w, NEW v, Thread(w), GoesOn(w, v)
  PROVE  Thread(v)
<1>1. Threaded(w) /\ None \notin DOMAIN v.topics
  BY DEF Thread, GoesOn
<1>2. ASSUME NEW t \in DOMAIN v.topics
      PROVE  InOrder(v.topics[t]) /\ Attached(v, v.topics[t].parent, v.topics[t].fork)
  <2>1. CASE t \in DOMAIN w.topics
    <3>1. Later(w.topics[t], v.topics[t]) /\ Attached(w, w.topics[t].parent, w.topics[t].fork)
      BY <1>1, <2>1 DEF GoesOn, Threaded
    <3>2. Attached(w, v.topics[t].parent, v.topics[t].fork)
      BY <3>1 DEF Later
    <3> QED BY <1>1, <3>1, <3>2, PointsStay DEF Later
  <2>2. CASE t \notin DOMAIN w.topics
    BY <1>1, <2>2, PointsStay DEF GoesOn
  <2> QED BY <2>1, <2>2
<1>3. PICK n \in Nat : Rooted(w, n)
  BY DEF Thread
<1>4. PICK depth \in [DOMAIN w.topics -> 0..n] : \A t \in DOMAIN w.topics :
         w.topics[t].parent # None => depth[w.topics[t].parent] < depth[t]
  BY <1>3 DEF Rooted
<1> DEFINE deep == [t \in DOMAIN v.topics |-> IF t \in DOMAIN w.topics THEN depth[t] ELSE n + 1]
<1>5. deep \in [DOMAIN v.topics -> 0..(n + 1)]
  BY <1>4
<1>6. ASSUME NEW t \in DOMAIN v.topics, v.topics[t].parent # None
      PROVE  deep[v.topics[t].parent] < deep[t]
  <2>1. CASE t \in DOMAIN w.topics
    <3>1. /\ v.topics[t].parent = w.topics[t].parent /\ w.topics[t].parent \in DOMAIN w.topics
          /\ w.topics[t].parent \in DOMAIN v.topics
      BY <1>1, <1>6, <2>1 DEF GoesOn, Later, Threaded, Attached
    <3> QED BY <1>4, <1>6, <2>1, <3>1
  <2>2. CASE t \notin DOMAIN w.topics
    <3>1. v.topics[t].parent \in DOMAIN w.topics /\ v.topics[t].parent \in DOMAIN v.topics
      BY <1>6, <2>2 DEF GoesOn, Attached
    <3> QED BY <1>4, <2>2, <3>1
  <2> QED BY <2>1, <2>2
<1>7. Rooted(v, n + 1)
  <2> HIDE DEF deep
  <2> QED BY <1>5, <1>6 DEF Rooted
<1>8. n + 1 \in Nat
  OBVIOUS
<1> QED BY <1>1, <1>2, <1>7, <1>8 DEF Thread, Threaded

\* What was read in a topic is read in it again.
Frozen(w, v, t) ==
  \A i \in 1..Reach(w, t) : Histories(v)[t][i] = Histories(w)[t][i]

\* A topic whose parent's history stays has a history that stays.
LEMMA TopicFrozen ==
  ASSUME NEW w, NEW v, Thread(w), GoesOn(w, v), NEW t \in DOMAIN w.topics,
         w.topics[t].parent # None => Frozen(w, v, w.topics[t].parent)
  PROVE  Frozen(w, v, t) /\ Reach(w, t) <= Reach(v, t)
<1> DEFINE fork == w.topics[t].fork
           parent == w.topics[t].parent
           old == Len(w.topics[t].messages)
           new == Len(v.topics[t].messages)
<1>1. Threaded(w) /\ Thread(v) /\ t \in DOMAIN v.topics
  BY ThreadGoesOn DEF Thread, GoesOn
<1>2. /\ v.topics[t].fork = fork /\ v.topics[t].parent = parent
      /\ old <= new /\ fork \in Nat /\ old \in Nat /\ new \in Nat
      /\ \A i \in 1..old : v.topics[t].messages[i] = w.topics[t].messages[i]
  <2>1. w.topics[t].messages \in Seq(Message) /\ v.topics[t].messages \in Seq(Message)
    BY <1>1 DEF Threaded, GoesOn, Later, InOrder
  <2>2. Later(w.topics[t], v.topics[t]) /\ fork \in Nat
    BY <1>1 DEF Threaded, Attached, GoesOn
  <2> QED BY <2>1, <2>2 DEF Later
<1>3. Continues(w, t) /\ Continues(v, t)
  BY <1>1, AllCount
<1>4. \A i \in 1..old : Own(v, t)[i] = Own(w, t)[i]
  <2>1. DOMAIN w.topics[t].messages = 1..old /\ DOMAIN v.topics[t].messages = 1..new
    BY <1>1 DEF Threaded, GoesOn, Later, InOrder
  <2>2. \A i \in 1..old : i \in 1..new
    BY <1>2
  <2> QED BY <1>2, <2>1, <2>2 DEF Own
<1>5. Reach(w, t) = fork + old /\ Reach(v, t) = fork + new
  BY <1>2 DEF Reach
<1>6. ASSUME NEW i \in 1..fork PROVE Histories(v)[t][i] = Histories(w)[t][i]
  <2>1. parent # None /\ fork <= Reach(w, parent) /\ parent \in DOMAIN w.topics
    BY <1>1, <1>2 DEF Threaded, Attached
  <2>2. Reach(w, parent) \in Nat
    BY <2>1, Points
  <2>3. i \in 1..Reach(w, parent)
    BY <1>2, <2>1, <2>2
  <2>4. Histories(v)[parent][i] = Histories(w)[parent][i]
    BY <2>1, <2>3 DEF Frozen
  <2>5. /\ Histories(w)[t][i] = Histories(w)[parent][i]
        /\ Histories(v)[t][i] = Histories(v)[parent][i]
    BY <1>2, <1>3 DEF Continues
  <2> QED BY <2>4, <2>5
<1>7. ASSUME NEW i \in 1..old
      PROVE  Histories(v)[t][fork + i] = Histories(w)[t][fork + i]
  <2>1. i \in 1..new
    BY <1>2
  <2>2. Histories(w)[t][fork + i] = Own(w, t)[i] /\ Histories(v)[t][fork + i] = Own(v, t)[i]
    BY <1>2, <1>3, <2>1 DEF Continues
  <2> QED BY <1>4, <2>2
<1> HIDE DEF fork, old, new
<1>8. ASSUME NEW i \in 1..(fork + old) PROVE Histories(v)[t][i] = Histories(w)[t][i]
  <2>1. CASE i <= fork
    BY <1>2, <1>6, <2>1
  <2>2. CASE ~(i <= fork)
    <3> DEFINE j == i - fork
    <3>1. j \in 1..old /\ i = fork + j
      BY <1>2, <2>2
    <3> HIDE DEF j
    <3> QED BY <1>7, <3>1
  <2> QED BY <2>1, <2>2
<1> QED BY <1>2, <1>5, <1>8 DEF Frozen

\* Nothing that was read changes.
LEMMA HistoriesFrozen ==
  ASSUME NEW w, NEW v, Thread(w), GoesOn(w, v), NEW t \in DOMAIN w.topics
  PROVE  /\ Len(Histories(w)[t]) <= Len(Histories(v)[t])
         /\ SubSeq(Histories(v)[t], 1, Len(Histories(w)[t])) = Histories(w)[t]
<1> DEFINE S == {x \in DOMAIN w.topics : Frozen(w, v, x)}
<1>1. \A x \in DOMAIN w.topics : (w.topics[x].parent # None => w.topics[x].parent \in S) => x \in S
  BY TopicFrozen
<1>2. DOMAIN w.topics \subseteq S
  <2> HIDE DEF S
  <2> QED BY <1>1, PassedOn
<1>3. w.topics[t].parent # None => w.topics[t].parent \in DOMAIN w.topics
  BY DEF Thread, Threaded, Attached
<1>4. Frozen(w, v, t) /\ Reach(w, t) <= Reach(v, t)
  BY <1>2, <1>3, TopicFrozen
<1>5. Thread(v) /\ t \in DOMAIN v.topics
  BY ThreadGoesOn DEF GoesOn
<1> DEFINE old == Histories(w)[t]
           new == Histories(v)[t]
<1>6. /\ old \in Seq(Read(w)) /\ Len(old) = Reach(w, t)
      /\ new \in Seq(Read(v)) /\ Len(new) = Reach(v, t)
  BY <1>5, AllCount DEF Counts
<1>7. \A i \in 1..Len(old) : new[i] = old[i]
  BY <1>4, <1>6 DEF Frozen
<1> HIDE DEF old, new
<1>8. Len(old) <= Len(new)
  BY <1>4, <1>6
<1>9. SubSeq(new, 1, Len(old)) = old
  BY <1>6, <1>7, <1>8
<1> QED BY <1>8, <1>9 DEF old, new

---------------------------------------------------------------------------
(* The steps of a thread. *)

\* What histories and the forks that are offered depend on.
Line(w) == Thread(w) /\ Offered(w) /\ Peopled(w)
Parts(v) == {"topics", "seats", "flows", "suggestions", "proposals"} \subseteq DOMAIN v

\* The forks v offers start at points of w.
Promises(w, v) ==
  /\ \A s \in DOMAIN v.suggestions :
       /\ {"parent", "fork"} \subseteq DOMAIN v.suggestions[s]
       /\ Attached(w, v.suggestions[s].parent, v.suggestions[s].fork)
  /\ \A p \in DOMAIN v.proposals :
       /\ {"target", "topic", "after", "tasks"} \subseteq DOMAIN v.proposals[p]
       /\ v.proposals[p].target = None => /\ Attached(w, v.proposals[p].topic, v.proposals[p].after)
                                          /\ Len(v.proposals[p].tasks) \in Nat

\* A step that goes on with the topics and offers forks of what there was.
Told(w, v) ==
  /\ Parts(v) /\ v.seats = w.seats /\ v.flows = w.flows
  /\ GoesOn(w, v) /\ Promises(w, v)

\* A step that makes no topics but those with fresh ids.
Spoken(w, v) == Told(w, v) /\ DOMAIN v.topics \subseteq DOMAIN w.topics \cup TopicIds

\* The line goes on.
LEMMA LineGoesOn ==
  ASSUME NEW w, NEW v, Line(w), Told(w, v)
  PROVE  Line(v)
<1>1. Thread(v)
  BY ThreadGoesOn DEF Line, Told
<1>2. Peopled(v)
  BY DEF Line, Told, Peopled, Parts
<1>3. \A parent, point : Attached(w, parent, point) => Attached(v, parent, point)
  BY PointsStay DEF Line, Told, Thread
<1>4. Offered(v)
  BY <1>3 DEF Told, Promises, Offered
<1> QED BY <1>1, <1>2, <1>4 DEF Line

\* Topics are in order as they are.
LEMMA LaterSame ==
  ASSUME NEW e, InOrder(e)
  PROVE  Later(e, e)
<1>1. e.messages \in Seq(Message)
  BY DEF InOrder
<1>2. Len(e.messages) <= Len(e.messages)
  BY <1>1
<1> QED BY <1>2 DEF Later

\* What is not written goes on.
LEMMA TopicsStay ==
  ASSUME NEW w, NEW v, Line(w), v.topics = w.topics
  PROVE  GoesOn(w, v)
BY LaterSame DEF Line, Thread, Threaded, GoesOn

\* One topic is written.
LEMMA TopicGoesOn ==
  ASSUME NEW w, NEW v, NEW t, NEW e, Line(w), v.topics = [w.topics EXCEPT ![t] = e],
         t \in DOMAIN w.topics => Later(w.topics[t], e)
  PROVE  GoesOn(w, v)
<1>1. /\ DOMAIN v.topics = DOMAIN w.topics
      /\ \A i \in DOMAIN w.topics : v.topics[i] = IF i = t THEN e ELSE w.topics[i]
  OBVIOUS
<1>2. None \notin DOMAIN w.topics /\ \A i \in DOMAIN w.topics : Later(w.topics[i], w.topics[i])
  BY LaterSame DEF Line, Thread, Threaded
<1> QED BY <1>1, <1>2 DEF GoesOn

\* One topic is new.
LEMMA TopicBegins ==
  ASSUME NEW w, NEW v, NEW id, NEW e, Line(w), v.topics = Put(w.topics, id, e),
         id \notin DOMAIN w.topics, id # None, InOrder(e), Attached(w, e.parent, e.fork)
  PROVE  GoesOn(w, v)
<1>1. /\ DOMAIN v.topics = DOMAIN w.topics \cup {id}
      /\ v.topics[id] = e
      /\ \A i \in DOMAIN w.topics : v.topics[i] = w.topics[i]
  BY DEF Put
<1>2. None \notin DOMAIN w.topics /\ \A i \in DOMAIN w.topics : Later(w.topics[i], w.topics[i])
  BY LaterSame DEF Line, Thread, Threaded
<1> QED BY <1>1, <1>2 DEF GoesOn

\* What is offered stays on offer.
LEMMA OffersStay ==
  ASSUME NEW w, NEW v, Line(w), Parts(v), v.seats = w.seats, v.flows = w.flows,
         v.suggestions = w.suggestions, v.proposals = w.proposals, GoesOn(w, v)
  PROVE  Told(w, v)
BY DEF Told, Promises, Line, Offered

\* Messages are added at the end, numbered or not.
LEMMA MessagesAdded ==
  ASSUME NEW e, NEW d, NEW more \in Seq(Message), InOrder(e), e.fork \in Nat,
         {"parent", "fork", "messages"} \subseteq DOMAIN d,
         d.parent = e.parent, d.fork = e.fork, d.messages = e.messages \o more,
         \A i \in 1..Len(more) : more[i].seq \in {0, e.fork + Len(e.messages) + i}
  PROVE  Later(e, d)
<1> DEFINE old == e.messages
           all == old \o more
<1>1. old \in Seq(Message) /\ \A i \in 1..Len(old) : old[i].seq \in {0, e.fork + i}
  BY DEF InOrder
<1>2. more \in Seq(Message) /\ e.fork \in Nat
  OBVIOUS
<1> HIDE DEF old
<1>3. Len(old) \in Nat /\ Len(more) \in Nat
  BY <1>1, <1>2
<1>4. all \in Seq(Message) /\ Len(all) = Len(old) + Len(more)
  BY <1>1, <1>2
<1>5. \A i \in 1..Len(old) : all[i] = old[i]
  BY <1>1, <1>2, <1>3
<1>6. \A i \in 1..Len(more) : all[Len(old) + i] = more[i]
  BY <1>1, <1>2, <1>3
<1> HIDE DEF all
<1>7. ASSUME NEW i \in 1..(Len(old) + Len(more)) PROVE all[i].seq \in {0, e.fork + i}
  <2>1. CASE i <= Len(old)
    BY <1>1, <1>3, <1>5, <2>1
  <2>2. CASE ~(i <= Len(old))
    <3> DEFINE j == i - Len(old)
    <3>1. j \in 1..Len(more) /\ i = Len(old) + j
      BY <1>3, <2>2
    <3> HIDE DEF j
    <3>2. all[i] = more[j] /\ more[j].seq \in {0, e.fork + Len(old) + j}
      BY <1>6, <3>1 DEF old
    <3>3. e.fork + Len(old) + j = e.fork + i
      BY <1>2, <1>3, <3>1
    <3> QED BY <3>2, <3>3
  <2> QED BY <2>1, <2>2
<1>8. DOMAIN all = 1..(Len(old) + Len(more)) /\ DOMAIN old = 1..Len(old)
  BY <1>1, <1>4
<1>9. d.messages = all
  BY DEF all, old
<1>10. InOrder(d)
  BY <1>4, <1>7, <1>8, <1>9 DEF InOrder
<1>11. Len(old) <= Len(all)
  BY <1>3, <1>4
<1>12. \A i \in DOMAIN old : all[i] = old[i]
  BY <1>5, <1>8
<1>13. /\ Len(e.messages) <= Len(d.messages)
       /\ \A i \in DOMAIN e.messages : d.messages[i] = e.messages[i]
  BY <1>9, <1>11, <1>12 DEF old
<1> QED BY <1>10, <1>13 DEF Later

\* Going on is transitive.
LEMMA LaterTwice ==
  ASSUME NEW e, NEW d, NEW f, InOrder(e), Later(e, d), Later(d, f)
  PROVE  Later(e, f)
<1>1. e.messages \in Seq(Message) /\ d.messages \in Seq(Message) /\ f.messages \in Seq(Message)
  BY DEF Later, InOrder
<1>2. Len(e.messages) <= Len(d.messages) /\ Len(d.messages) <= Len(f.messages)
  BY DEF Later
<1>3. Len(e.messages) <= Len(f.messages)
  BY <1>1, <1>2
<1>4. \A i \in DOMAIN e.messages : i \in DOMAIN d.messages
  BY <1>1, <1>2
<1> QED BY <1>3, <1>4 DEF Later

\* There are some speakers.
LEMMA SpeakersCount ==
  ASSUME NEW w, NEW e, Peopled(w)
  PROVE  Speakers(w, e) \in Nat
<1> DEFINE assigned == UNION {w.tasks[t].seats \cup {w.tasks[t].reviewer} :
                                t \in e.tasks \cap DOMAIN w.tasks}
           seats == {x \in DOMAIN w.seats : /\ w.seats[x].position \in DOMAIN w.positions
                                            /\ assigned = {} \/ x \in assigned}
<1>1. seats \subseteq DOMAIN w.seats /\ IsFiniteSet(DOMAIN w.seats)
  BY DEF Peopled
<1>2. Speakers(w, e) = IF Cardinality(seats) < 3 THEN Cardinality(seats) ELSE 3
  BY Zenon DEF Speakers
<1> HIDE DEF seats
<1>3. Cardinality(seats) \in Nat
  BY <1>1, FS_Subset, FS_CardinalityType
<1> QED BY <1>2, <1>3

\* A round of discussion adds messages without numbers.
LEMMA DiscussionAdded ==
  ASSUME NEW w, NEW e, Peopled(w), InOrder(e), e.fork \in Nat
  PROVE  Later(e, Discussed(w, e))
<1> DEFINE k == Speakers(w, e) + 1
           more == [i \in 1..k |-> Said("ai", 0)]
           d == Discussed(w, e)
<1>1. k \in Nat
  BY SpeakersCount
<1>2. more \in Seq(Message) /\ Len(more) = k /\ \A i \in 1..k : more[i].seq = 0
  <2> HIDE DEF k
  <2>1. Said("ai", 0) \in Message /\ Said("ai", 0).seq = 0
    BY DEF Said, Message
  <2> QED BY <1>1, <2>1
<1>3. /\ {"parent", "fork", "messages"} \subseteq DOMAIN d
      /\ d.parent = e.parent /\ d.fork = e.fork /\ d.messages = e.messages \o more
  <2>1. {"parent", "fork", "messages"} \subseteq DOMAIN e
    BY DEF InOrder
  <2>2. \E x : d = [e EXCEPT !.runs = x, !.messages = e.messages \o more]
    BY DEF Discussed
  <2> HIDE DEF d, more
  <2> QED BY <2>1, <2>2
<1> HIDE DEF k, more, d
<1>4. \A i \in 1..Len(more) : more[i].seq \in {0, e.fork + Len(e.messages) + i}
  BY <1>2
<1>5. Later(e, d)
  BY <1>2, <1>3, <1>4, MessagesAdded
<1> QED BY <1>5 DEF d

\* So does a message that is answered.
LEMMA MessageAdded ==
  ASSUME NEW e, InOrder(e), e.fork \in Nat
  PROVE  Later(e, [e EXCEPT !.messages = @ \o <<Said("person", 0), Said("ai", 0)>>])
<1> DEFINE more == <<Said("person", 0), Said("ai", 0)>>
           d == [e EXCEPT !.messages = e.messages \o more]
<1>1. more \in Seq(Message) /\ Len(more) = 2 /\ \A i \in 1..2 : more[i].seq = 0
  <2>1. /\ Said("ai", 0) \in Message /\ Said("ai", 0).seq = 0
        /\ Said("person", 0) \in Message /\ Said("person", 0).seq = 0
    BY DEF Said, Message
  <2> QED BY <2>1
<1>2. /\ {"parent", "fork", "messages"} \subseteq DOMAIN d
      /\ d.parent = e.parent /\ d.fork = e.fork /\ d.messages = e.messages \o more
  <2>1. {"parent", "fork", "messages"} \subseteq DOMAIN e
    BY DEF InOrder
  <2> HIDE DEF more
  <2> QED BY <2>1
<1> HIDE DEF more, d
<1>3. \A i \in 1..Len(more) : more[i].seq \in {0, e.fork + Len(e.messages) + i}
  BY <1>1
<1>4. Later(e, d)
  BY <1>1, <1>2, <1>3, MessagesAdded
<1> QED BY <1>4 DEF d, more

\* A topic of the line.
LEMMA TopicFacts ==
  ASSUME NEW w, Line(w), NEW t \in DOMAIN w.topics
  PROVE  /\ InOrder(w.topics[t]) /\ w.topics[t].fork \in Nat /\ t # None
         /\ Attached(w, w.topics[t].parent, w.topics[t].fork)
BY DEF Line, Thread, Threaded, Attached

\* A step that writes one topic.
LEMMA WrittenTold ==
  ASSUME NEW w, NEW v, NEW t, NEW e, Stored(w), Line(w),
         v = [w EXCEPT !.topics = [w.topics EXCEPT ![t] = e]],
         t \in DOMAIN w.topics => Later(w.topics[t], e)
  PROVE  Spoken(w, v)
<1>1. Parts(w) /\ Parts(v)
  BY DEF Line, Peopled, Stored, Parts
<1>2. /\ v.seats = w.seats /\ v.flows = w.flows /\ v.suggestions = w.suggestions
      /\ v.proposals = w.proposals /\ v.topics = [w.topics EXCEPT ![t] = e]
  BY <1>1 DEF Parts
<1>3. GoesOn(w, v) /\ DOMAIN v.topics = DOMAIN w.topics
  BY <1>2, TopicGoesOn
<1> QED BY <1>1, <1>2, <1>3, OffersStay DEF Spoken

\* A step that makes one topic.
LEMMA AddedTold ==
  ASSUME NEW w, NEW v, NEW id, NEW e, Stored(w), Line(w),
         v = [w EXCEPT !.topics = Put(w.topics, id, e)],
         id \in TopicIds, id \notin DOMAIN w.topics, id # None,
         InOrder(e), Attached(w, e.parent, e.fork)
  PROVE  Spoken(w, v)
<1>1. Parts(w) /\ Parts(v)
  BY DEF Line, Peopled, Stored, Parts
<1>2. /\ v.seats = w.seats /\ v.flows = w.flows /\ v.suggestions = w.suggestions
      /\ v.proposals = w.proposals /\ v.topics = Put(w.topics, id, e)
  BY <1>1 DEF Parts
<1>3. GoesOn(w, v) /\ DOMAIN v.topics = DOMAIN w.topics \cup {id}
  BY <1>2, TopicBegins DEF Put
<1> QED BY <1>1, <1>2, <1>3, OffersStay DEF Spoken

\* A fresh topic is another one.
LEMMA FreshTopic ==
  ASSUME NEW w, HasRoom(TopicIds, w.topics)
  PROVE  LET id == Fresh(TopicIds, w.topics)
         IN id \in TopicIds /\ id \notin DOMAIN w.topics /\ id # None
BY IdsAssumption DEF HasRoom, Fresh

\* A topic nobody has written in.
LEMMA EmptyTopic ==
  ASSUME NEW plans, NEW tasks, NEW main, NEW parent, NEW fork
  PROVE  LET e == Topic(plans, tasks, main, parent, fork)
         IN InOrder(e) /\ e.parent = parent /\ e.fork = fork
BY DEF Topic, InOrder

\* A discussion (discussTopic).
LEMMA DiscussTold ==
  ASSUME NEW w, NEW v, NEW u, NEW t \in DOMAIN w.topics, Stored(w), Line(w),
         DiscussTopic(w, v, u, t)
  PROVE  Spoken(w, v)
<1> DEFINE e == Discussed(w, w.topics[t])
<1>1. v = [w EXCEPT !.topics = [w.topics EXCEPT ![t] = e]]
  BY DEF DiscussTopic
<1>2. Later(w.topics[t], e)
  BY TopicFacts, DiscussionAdded DEF Line
<1> HIDE DEF e
<1> QED BY <1>1, <1>2, WrittenTold

\* A message in a topic (topicMessage).
LEMMA MessageTold ==
  ASSUME NEW w, NEW v, NEW u, NEW t \in DOMAIN w.topics, Stored(w), Line(w),
         TopicMessage(w, v, u, t)
  PROVE  Spoken(w, v)
<1> DEFINE said == [w.topics[t] EXCEPT !.messages = @ \o <<Said("person", 0), Said("ai", 0)>>]
           e == Discussed(w, said)
<1>1. v = [w EXCEPT !.topics = [w.topics EXCEPT ![t] = e]]
  BY DEF TopicMessage
<1>2. InOrder(w.topics[t]) /\ w.topics[t].fork \in Nat
  BY TopicFacts
<1>3. Later(w.topics[t], said)
  BY <1>2, MessageAdded
<1> HIDE DEF said
<1>4. InOrder(said) /\ said.fork \in Nat
  BY <1>2, <1>3 DEF Later
<1>5. Later(said, e)
  BY <1>4, DiscussionAdded DEF Line
<1> HIDE DEF e
<1>6. Later(w.topics[t], e)
  BY <1>2, <1>3, <1>5, LaterTwice
<1> QED BY <1>1, <1>6, WrittenTold

\* A topic that starts with a message (sendTopicMessage).
LEMMA FirstTold ==
  ASSUME NEW w, NEW v, NEW u, Stored(w), Line(w), SendFirstMessage(w, v, u, TopicIds)
  PROVE  Spoken(w, v)
<1> DEFINE id == Fresh(TopicIds, w.topics)
           empty == Topic({}, {}, None, None, 0)
           said == [empty EXCEPT !.messages = <<Said("person", 0), Said("ai", 0)>>]
           also == [empty EXCEPT !.messages = @ \o <<Said("person", 0), Said("ai", 0)>>]
           e == Discussed(w, said)
<1>1. v = [w EXCEPT !.topics = Put(w.topics, id, e)] /\ HasRoom(TopicIds, w.topics)
  BY DEF SendFirstMessage
<1>2. InOrder(empty) /\ empty.parent = None /\ empty.fork = 0
  BY EmptyTopic
<1>3. said = also
  BY DEF Topic
<1>4. Later(empty, also)
  <2> HIDE DEF empty
  <2> QED BY <1>2, MessageAdded
<1> HIDE DEF empty, said, also
<1>5. InOrder(said) /\ said.parent = None /\ said.fork = 0
  BY <1>2, <1>3, <1>4 DEF Later
<1>6. Later(said, e)
  BY <1>5, DiscussionAdded DEF Line
<1> HIDE DEF e
<1>7. InOrder(e) /\ Attached(w, e.parent, e.fork)
  BY <1>5, <1>6 DEF Later, Attached
<1>8. id \in TopicIds /\ id \notin DOMAIN w.topics /\ id # None
  BY <1>1, FreshTopic
<1> HIDE DEF id
<1> QED BY <1>1, <1>7, <1>8, AddedTold

\* A fork (demoFork), after a message of its parent.
LEMMA ForkTold ==
  ASSUME NEW w, NEW v, NEW u, NEW t \in DOMAIN w.topics, NEW point, NEW plans, NEW tasks,
         Stored(w), Line(w), ForkTopic(w, v, u, TopicIds, t, point, plans, tasks)
  PROVE  Spoken(w, v)
<1> DEFINE id == Fresh(TopicIds, w.topics)
           e == Topic(plans, tasks, None, t, point)
<1>1. /\ v = [w EXCEPT !.topics = Put(w.topics, id, e)] /\ HasRoom(TopicIds, w.topics)
      /\ IsForkPoint(w, t, point)
  BY DEF ForkTopic
<1>2. InOrder(e) /\ e.parent = t /\ e.fork = point
  BY EmptyTopic
<1>3. id \in TopicIds /\ id \notin DOMAIN w.topics /\ id # None
  BY <1>1, FreshTopic
<1>4. point \in 0..Reach(w, t) /\ Reach(w, t) \in Nat /\ t # None
  BY <1>1, Points, TopicFacts DEF Line
<1>5. Attached(w, t, point)
  BY <1>4 DEF Attached
<1> HIDE DEF id, e
<1> QED BY <1>1, <1>2, <1>3, <1>5, AddedTold

\* A new discussion (createDiscussion).
LEMMA CreatedTold ==
  ASSUME NEW w, NEW v, NEW u, NEW plans, NEW tasks,
         Stored(w), Line(w), CreateDiscussion(w, v, u, TopicIds, plans, tasks)
  PROVE  Spoken(w, v)
<1> DEFINE id == Fresh(TopicIds, w.topics)
           e == Topic(plans, tasks, None, None, 0)
<1>1. v = [w EXCEPT !.topics = Put(w.topics, id, e)] /\ HasRoom(TopicIds, w.topics)
  BY DEF CreateDiscussion
<1>2. InOrder(e) /\ Attached(w, e.parent, e.fork)
  BY EmptyTopic DEF Attached
<1>3. id \in TopicIds /\ id \notin DOMAIN w.topics /\ id # None
  BY <1>1, FreshTopic
<1> HIDE DEF id, e
<1> QED BY <1>1, <1>2, <1>3, AddedTold

\* The main topic of a task (demoTaskMain), which nobody has.
LEMMA TaskMainTold ==
  ASSUME NEW w, NEW v, NEW u, NEW t \in DOMAIN w.tasks, Stored(w), Line(w), Named(w),
         TaskMainTopic(w, v, u, t)
  PROVE  Told(w, v)
<1> DEFINE id == <<"taskMain", t>>
           e == Topic({}, {t}, None, None, 0)
<1>1. \E x : v = [w EXCEPT !.tasks = x, !.topics = Put(w.topics, id, e)]
  <2>1. v = [w EXCEPT !.tasks = [w.tasks EXCEPT ![t].main = id], !.topics = Put(w.topics, id, e)]
    BY DEF TaskMainTopic
  <2> HIDE DEF id, e
  <2> QED BY <2>1
<1>2. w.tasks[t].main = None
  BY DEF TaskMainTopic
<1>3. id \notin DOMAIN w.topics /\ id # None
  BY <1>2 DEF Named
<1>4. InOrder(e) /\ Attached(w, e.parent, e.fork)
  BY EmptyTopic DEF Attached
<1> HIDE DEF id, e
<1>5. Parts(w) /\ Parts(v)
  BY <1>1 DEF Line, Peopled, Stored, Parts
<1>6. /\ v.seats = w.seats /\ v.flows = w.flows /\ v.suggestions = w.suggestions
      /\ v.proposals = w.proposals /\ v.topics = Put(w.topics, id, e)
  BY <1>1, <1>5 DEF Parts
<1>7. GoesOn(w, v)
  BY <1>3, <1>4, <1>6, TopicBegins
<1> QED BY <1>5, <1>6, <1>7, OffersStay

\* Links that are replaced (demoReplaceLinks).
LEMMA LinksTold ==
  ASSUME NEW w, NEW v, NEW u, NEW t \in DOMAIN w.topics, NEW version, NEW plans, NEW tasks,
         Stored(w), Line(w), ReplaceLinks(w, v, u, t, version, plans, tasks)
  PROVE  Spoken(w, v)
<1> DEFINE e == [w.topics[t] EXCEPT !.plans = plans, !.tasks = tasks, !.links = version + 1]
<1>1. v = [w EXCEPT !.topics = [w.topics EXCEPT ![t] = e]]
  BY DEF ReplaceLinks
<1>2. InOrder(w.topics[t])
  BY TopicFacts
<1>3. InOrder(e) /\ e.parent = w.topics[t].parent /\ e.fork = w.topics[t].fork
      /\ e.messages = w.topics[t].messages
  BY <1>2 DEF InOrder
<1>4. Later(w.topics[t], e)
  <2>1. Later(w.topics[t], w.topics[t])
    BY <1>2, LaterSame
  <2> HIDE DEF e
  <2> QED BY <1>3, <2>1 DEF Later
<1> HIDE DEF e
<1> QED BY <1>1, <1>4, WrittenTold

---------------------------------------------------------------------------
(* The forks that are offered. *)

\* A question (demoTaskActivity): the fork it suggests starts at the end of the main topic.
LEMMA QuestionTold ==
  ASSUME NEW w, NEW v, NEW u, NEW ids, NEW t, Sound(w), Line(w),
         RecordQuestion(w, v, u, ids, t)
  PROVE  Spoken(w, v)
<1> DEFINE id == Fresh(ids, w.activities)
           n == Recorded(w, ids, t, "question", {})
           main == IF n.tasks[t].plan \in DOMAIN n.plans
                   THEN n.plans[n.tasks[t].plan].main ELSE None
           point == IF main = None THEN 0 ELSE LastSeq(n, main)
           r == [task |-> t, parent |-> main, state |-> "pending", version |-> 1, result |-> None,
                 fork |-> point]
<1>1. \E x : n = [w EXCEPT !.activities = x]
  BY NoneLacking DEF Recorded, Sound
<1>2. v = [n EXCEPT !.suggestions = Put(n.suggestions, id, r)]
  BY DEF RecordQuestion
<1>3. {"parent", "fork"} \subseteq DOMAIN r /\ r.parent = main /\ r.fork = point
  OBVIOUS
<1> HIDE DEF n, r, id
<1>4. Parts(w) /\ {"plans", "tasks"} \subseteq DOMAIN w
  BY DEF Line, Peopled, Sound, Stored, Parts
<1>5. /\ Parts(n) /\ n.plans = w.plans /\ n.tasks = w.tasks /\ n.topics = w.topics
      /\ n.seats = w.seats /\ n.flows = w.flows /\ n.suggestions = w.suggestions
      /\ n.proposals = w.proposals
  BY <1>1, <1>4 DEF Parts
<1>6. /\ Parts(v) /\ v.topics = w.topics /\ v.seats = w.seats /\ v.flows = w.flows
      /\ v.proposals = w.proposals /\ v.suggestions = Put(w.suggestions, id, r)
  BY <1>2, <1>5 DEF Parts
<1>7. main # None => main \in DOMAIN w.topics
  BY <1>5 DEF Sound, MainsLinked
<1>8. Thread(n)
  BY <1>5, TopicsStay, ThreadGoesOn DEF Line
<1> HIDE DEF main, point
<1>9. Attached(w, main, point)
  <2>1. CASE main = None
    BY <2>1 DEF Attached, point
  <2>2. CASE main # None
    <3>1. main \in DOMAIN n.topics
      BY <1>5, <1>7, <2>2
    <3>2. LastSeq(n, main) = Reach(n, main) /\ Reach(n, main) \in Nat
      BY <1>8, <3>1, Points
    <3>3. Reach(n, main) = Reach(w, main)
      BY <1>5 DEF Reach
    <3> QED BY <1>7, <2>2, <3>2, <3>3 DEF Attached, point
  <2> QED BY <2>1, <2>2
<1>10. GoesOn(w, v)
  BY <1>6, TopicsStay
<1>11. Promises(w, v)
  <2>1. ASSUME NEW s \in DOMAIN v.suggestions
        PROVE  /\ {"parent", "fork"} \subseteq DOMAIN v.suggestions[s]
               /\ Attached(w, v.suggestions[s].parent, v.suggestions[s].fork)
    <3>1. \/ v.suggestions[s] = r
          \/ s \in DOMAIN w.suggestions /\ v.suggestions[s] = w.suggestions[s]
      BY <1>6 DEF Put
    <3> QED BY <1>3, <1>9, <3>1 DEF Line, Offered
  <2> QED BY <1>6, <2>1 DEF Promises, Line, Offered
<1> QED BY <1>6, <1>10, <1>11 DEF Spoken, Told

\* A reply (demoTaskActivity), whose messages get the next two numbers.
LEMMA ReplyTold ==
  ASSUME NEW w, NEW v, NEW u, NEW ids, NEW t, NEW topic \in DOMAIN w.topics, Sound(w), Line(w),
         RecordReply(w, v, u, ids, t, topic)
  PROVE  Spoken(w, v)
<1> DEFINE n == Recorded(w, ids, t, "reply", {topic})
           seq == LastSeq(n, topic)
           more == <<Said("person", seq + 1), Said("ai", seq + 2)>>
           e == [n.topics[topic] EXCEPT !.messages = @ \o more]
<1>1. \E x : n = [w EXCEPT !.activities = x]
  BY NoneLacking DEF Recorded, Sound
<1>2. v = [n EXCEPT !.topics = [n.topics EXCEPT ![topic] = e]]
  BY DEF RecordReply
<1> HIDE DEF n, e
<1>4. Parts(w)
  BY DEF Line, Peopled, Sound, Stored, Parts
<1>5. /\ Parts(n) /\ n.topics = w.topics
      /\ n.seats = w.seats /\ n.flows = w.flows /\ n.suggestions = w.suggestions
      /\ n.proposals = w.proposals
  BY <1>1, <1>4 DEF Parts
<1>6. /\ Parts(v) /\ v.topics = [w.topics EXCEPT ![topic] = e] /\ v.seats = w.seats
      /\ v.flows = w.flows /\ v.proposals = w.proposals /\ v.suggestions = w.suggestions
  BY <1>2, <1>5 DEF Parts
<1>8. Thread(n)
  BY <1>5, TopicsStay, ThreadGoesOn DEF Line
<1>9. InOrder(w.topics[topic]) /\ w.topics[topic].fork \in Nat
  BY TopicFacts
<1>10. seq = w.topics[topic].fork + Len(w.topics[topic].messages) /\ seq \in Nat
  BY <1>5, <1>8, Points DEF Reach
<1> HIDE DEF seq
<1>11. /\ more \in Seq(Message) /\ Len(more) = 2
       /\ more[1].seq = seq + 1 /\ more[2].seq = seq + 2
  <2>1. /\ Said("ai", seq + 2) \in Message /\ Said("ai", seq + 2).seq = seq + 2
        /\ Said("person", seq + 1) \in Message /\ Said("person", seq + 1).seq = seq + 1
    BY <1>10 DEF Said, Message
  <2> QED BY <2>1
<1>12. /\ {"parent", "fork", "messages"} \subseteq DOMAIN e
       /\ e.parent = w.topics[topic].parent /\ e.fork = w.topics[topic].fork
       /\ e.messages = w.topics[topic].messages \o more
  <2> HIDE DEF more
  <2> QED BY <1>5, <1>9 DEF InOrder, e
<1> HIDE DEF more
<1>13. \A i \in 1..Len(more) :
         more[i].seq \in {0, w.topics[topic].fork + Len(w.topics[topic].messages) + i}
  <2>1. \A i \in 1..2 : more[i].seq = seq + i
    BY <1>11
  <2> QED BY <1>10, <1>11, <2>1
<1>14. Later(w.topics[topic], e)
  BY <1>9, <1>11, <1>12, <1>13, MessagesAdded
<1>15. GoesOn(w, v) /\ DOMAIN v.topics = DOMAIN w.topics
  BY <1>6, <1>14, TopicGoesOn
<1> QED BY <1>6, <1>15, OffersStay DEF Spoken

\* A proposal (submitProposal): the plan's topic is to start at the end of the topic.
LEMMA SubmitTold ==
  ASSUME NEW w, NEW v, NEW u, NEW ids, NEW topic \in DOMAIN w.topics, Stored(w), Line(w),
         SubmitProposal(w, v, u, ids, topic, ProposalDraft(w, u, None), None)
  PROVE  Spoken(w, v)
<1> DEFINE input == ProposalDraft(w, u, None)
           id == Fresh(ids, w.proposals)
<1>1. input.tasks = Defaults(w)
  BY DEF ProposalDraft
<1> HIDE DEF input
<1>2. PICK r : /\ v = [w EXCEPT !.proposals = Put(w.proposals, id, r)]
               /\ {"target", "topic", "after", "tasks"} \subseteq DOMAIN r
               /\ r.topic = topic /\ r.after = LastSeq(w, topic) /\ r.tasks = input.tasks
  <2>1. \E flow, bindings, x : v = [w EXCEPT !.proposals = Put(w.proposals, id,
          [Proposed(None, topic, u, flow, bindings) EXCEPT
            !.revision = x, !.previous = None, !.owner = input.owner, !.tasks = input.tasks,
            !.after = LastSeq(w, topic)])]
    BY DEF SubmitProposal, input
  <2>2. PICK flow, bindings, x : v = [w EXCEPT !.proposals = Put(w.proposals, id,
          [Proposed(None, topic, u, flow, bindings) EXCEPT
            !.revision = x, !.previous = None, !.owner = input.owner, !.tasks = input.tasks,
            !.after = LastSeq(w, topic)])]
    BY <2>1
  <2> DEFINE r == [Proposed(None, topic, u, flow, bindings) EXCEPT
            !.revision = x, !.previous = None, !.owner = input.owner, !.tasks = input.tasks,
            !.after = LastSeq(w, topic)]
  <2>3. /\ {"target", "topic", "after", "tasks"} \subseteq DOMAIN r
        /\ r.topic = topic /\ r.after = LastSeq(w, topic) /\ r.tasks = input.tasks
    BY DEF Proposed
  <2>4. v = [w EXCEPT !.proposals = Put(w.proposals, id, r)]
    BY <2>2
  <2> HIDE DEF r
  <2> QED BY <2>3, <2>4
<1>3. Len(r.tasks) \in Nat
  <2> DEFINE nodes == w.flows["delivery"].nodes
  <2>1. Defaults(w) = [i \in DOMAIN nodes |-> DefaultTask(w, nodes[i])]
    BY DEF Defaults
  <2>2. Len(nodes) \in Nat /\ DOMAIN nodes = 1..Len(nodes)
    BY DEF Line, Peopled
  <2> HIDE DEF nodes
  <2>3. Len(Defaults(w)) = Len(nodes)
    BY <2>1, <2>2
  <2> QED BY <1>1, <1>2, <2>2, <2>3
<1>4. Attached(w, r.topic, r.after)
  <2>1. LastSeq(w, topic) = Reach(w, topic) /\ Reach(w, topic) \in Nat /\ topic # None
    BY Points, TopicFacts DEF Line
  <2> QED BY <1>2, <2>1 DEF Attached
<1>5. Parts(w) /\ Parts(v)
  BY <1>2 DEF Line, Peopled, Stored, Parts
<1>6. /\ v.topics = w.topics /\ v.seats = w.seats /\ v.flows = w.flows
      /\ v.suggestions = w.suggestions /\ v.proposals = Put(w.proposals, id, r)
  BY <1>2, <1>5 DEF Parts
<1>7. GoesOn(w, v)
  BY <1>6, TopicsStay
<1>8. Promises(w, v)
  <2>1. ASSUME NEW p \in DOMAIN v.proposals
        PROVE  /\ {"target", "topic", "after", "tasks"} \subseteq DOMAIN v.proposals[p]
               /\ v.proposals[p].target = None =>
                    /\ Attached(w, v.proposals[p].topic, v.proposals[p].after)
                    /\ Len(v.proposals[p].tasks) \in Nat
    <3>1. \/ v.proposals[p] = r
          \/ p \in DOMAIN w.proposals /\ v.proposals[p] = w.proposals[p]
      BY <1>6 DEF Put
    <3> QED BY <1>2, <1>3, <1>4, <3>1 DEF Line, Offered
  <2> QED BY <1>6, <2>1 DEF Promises, Line, Offered
<1> QED BY <1>5, <1>6, <1>7, <1>8 DEF Spoken, Told

\* A suggestion is resolved (demoResolve): a fork of it starts where it says.
LEMMA ResolveTold ==
  ASSUME NEW w, NEW v, NEW u, NEW s \in DOMAIN w.suggestions, NEW version, NEW target,
         Stored(w), Line(w), NEW mode \in {"create", "main", "link", "dismiss"},
         ResolveSuggestion(w, v, u, TopicIds, s, version, mode, target)
  PROVE  Spoken(w, v)
<1> DEFINE sug == w.suggestions[s]
           plan == w.tasks[sug.task].plan
           plans == {plan} \cap DOMAIN w.plans
           id == CASE mode = "create" -> Fresh(TopicIds, w.topics)
                   [] mode = "main" -> IF plans = {} THEN None ELSE w.plans[plan].main
                   [] mode = "link" -> target
                   [] mode = "dismiss" -> None
           made == Topic(plans, {sug.task}, None, sug.parent, sug.fork)
           more == Linked(w, w.topics[id], w.topics[id].plans \cup plans,
                          w.topics[id].tasks \cup {sug.task})
           topics == CASE mode = "create" -> Put(w.topics, id, made)
                       [] mode \in {"main", "link"} -> [w.topics EXCEPT ![id] = more]
                       [] mode = "dismiss" -> w.topics
           r == [sug EXCEPT !.state = IF mode = "dismiss" THEN "dismissed" ELSE "handled",
                            !.result = id, !.version = @ + 1]
<1>1. \E x : v = [w EXCEPT !.topics = topics, !.activities = x,
                           !.suggestions = [w.suggestions EXCEPT ![s] = r]]
  <2>1. \E x : v = [w EXCEPT !.topics = topics, !.activities[s].topics = x, !.suggestions[s] = r]
    <3> DEFINE z == IF mode = "dismiss" THEN w.activities[s].topics
                    ELSE w.activities[s].topics \cup {id}
    <3>1. v = [w EXCEPT !.topics = topics, !.activities[s].topics = z, !.suggestions[s] = r]
      BY DEF ResolveSuggestion
    <3> HIDE DEF z, r, topics
    <3> QED BY <3>1
  <2> HIDE DEF topics, r
  <2>2. PICK x : v = [w EXCEPT !.topics = topics, !.activities[s].topics = x, !.suggestions[s] = r]
    BY <2>1
  <2>3. v = [w EXCEPT !.topics = topics, !.activities = [w.activities EXCEPT ![s].topics = x],
                      !.suggestions = [w.suggestions EXCEPT ![s] = r]]
    BY <2>2
  <2> QED BY <2>3
<1>2. /\ {"parent", "fork"} \subseteq DOMAIN sug /\ Attached(w, sug.parent, sug.fork)
      /\ {"parent", "fork"} \subseteq DOMAIN r /\ r.parent = sug.parent /\ r.fork = sug.fork
  <2>1. {"parent", "fork"} \subseteq DOMAIN sug /\ Attached(w, sug.parent, sug.fork)
    BY DEF Line, Offered
  <2> HIDE DEF id
  <2>2. {"parent", "fork"} \subseteq DOMAIN r /\ r.parent = sug.parent /\ r.fork = sug.fork
    BY <2>1
  <2> QED BY <2>1, <2>2
<1> HIDE DEF topics, r
<1>3. Parts(w) /\ Parts(v)
  BY <1>1 DEF Line, Peopled, Stored, Parts
<1>4. /\ v.topics = topics /\ v.seats = w.seats /\ v.flows = w.flows
      /\ v.proposals = w.proposals /\ v.suggestions = [w.suggestions EXCEPT ![s] = r]
  BY <1>1, <1>3 DEF Parts
<1>5. Promises(w, v)
  <2>1. ASSUME NEW i \in DOMAIN v.suggestions
        PROVE  /\ {"parent", "fork"} \subseteq DOMAIN v.suggestions[i]
               /\ Attached(w, v.suggestions[i].parent, v.suggestions[i].fork)
    <3>1. \/ v.suggestions[i] = r
          \/ i \in DOMAIN w.suggestions /\ v.suggestions[i] = w.suggestions[i]
      BY <1>4
    <3> QED BY <1>2, <3>1 DEF Line, Offered
  <2> QED BY <1>4, <2>1 DEF Promises, Line, Offered
<1>6. CASE mode = "create"
  <2>1. id = Fresh(TopicIds, w.topics) /\ topics = Put(w.topics, id, made)
    BY <1>6 DEF topics
  <2>2. HasRoom(TopicIds, w.topics)
    BY <1>6 DEF ResolveSuggestion
  <2>3. id \in TopicIds /\ id \notin DOMAIN w.topics /\ id # None
    BY <2>1, <2>2, FreshTopic
  <2>4. InOrder(made) /\ Attached(w, made.parent, made.fork)
    <3>1. InOrder(made) /\ made.parent = sug.parent /\ made.fork = sug.fork
      BY EmptyTopic
    <3> HIDE DEF made
    <3> QED BY <1>2, <3>1
  <2> HIDE DEF id, made
  <2>5. GoesOn(w, v)
    BY <1>4, <2>1, <2>3, <2>4, TopicBegins
  <2>6. DOMAIN v.topics = DOMAIN w.topics \cup {id}
    BY <1>4, <2>1 DEF Put
  <2> QED BY <1>3, <1>4, <1>5, <2>3, <2>5, <2>6 DEF Spoken, Told
<1>7. CASE mode \in {"main", "link"}
  <2>1. topics = [w.topics EXCEPT ![id] = more] /\ id \in DOMAIN w.topics
    <3>1. topics = [w.topics EXCEPT ![id] = more]
      BY <1>7 DEF topics
    <3>2. id \in DOMAIN w.topics
      BY <1>7 DEF ResolveSuggestion
    <3> QED BY <3>1, <3>2
  <2> HIDE DEF id
  <2>2. InOrder(w.topics[id])
    BY <2>1, TopicFacts
  <2>3. InOrder(more) /\ more.parent = w.topics[id].parent /\ more.fork = w.topics[id].fork
        /\ more.messages = w.topics[id].messages
    <3> DEFINE e == w.topics[id]
               all == e.plans \cup plans
               both == e.tasks \cup {sug.task}
    <3>1. InOrder(e)
      BY <2>2
    <3> HIDE DEF e, all, both
    <3>2. LET d == Linked(w, e, all, both)
          IN InOrder(d) /\ d.parent = e.parent /\ d.fork = e.fork /\ d.messages = e.messages
      BY <3>1 DEF Linked, InOrder
    <3> QED BY <3>2 DEF e, all, both
  <2>4. Later(w.topics[id], w.topics[id])
    BY <2>2, LaterSame
  <2> HIDE DEF more
  <2>5. Later(w.topics[id], more)
    BY <2>3, <2>4 DEF Later
  <2>6. GoesOn(w, v) /\ DOMAIN v.topics = DOMAIN w.topics
    BY <1>4, <2>1, <2>5, TopicGoesOn
  <2> QED BY <1>3, <1>4, <1>5, <2>6 DEF Spoken, Told
<1>8. CASE mode = "dismiss"
  <2>1. v.topics = w.topics
    BY <1>4, <1>8 DEF topics
  <2>2. GoesOn(w, v)
    BY <2>1, TopicsStay
  <2> QED BY <1>3, <1>4, <1>5, <2>1, <2>2 DEF Spoken, Told
<1> QED BY <1>6, <1>7, <1>8

---------------------------------------------------------------------------
(* Votes, as far as histories go. *)

\* Proposals that are going to make the same forks.
SameForks(f, g) ==
  /\ DOMAIN g = DOMAIN f
  /\ \A p \in DOMAIN f : /\ {"target", "topic", "after", "tasks"} \subseteq DOMAIN g[p]
                         /\ g[p].target = f[p].target /\ g[p].topic = f[p].topic
                         /\ g[p].after = f[p].after /\ g[p].tasks = f[p].tasks

\* A written field of a proposal that is none of these.
LEMMA VoteWritten ==
  ASSUME NEW w, NEW v, NEW p, Stored(w), Line(w), NEW field \in {"votes", "status", "plan"}, NEW x,
         v = [w EXCEPT !.proposals =
                [w.proposals EXCEPT ![p] = [w.proposals[p] EXCEPT ![field] = x]]]
  PROVE  /\ Line(v) /\ GoesOn(w, v) /\ SameForks(w.proposals, v.proposals)
         /\ v.topics = w.topics /\ v.plans = w.plans /\ v.tasks = w.tasks
<1> DEFINE r == [w.proposals[p] EXCEPT ![field] = x]
<1>1. Parts(w) /\ Parts(v) /\ {"plans", "tasks"} \subseteq DOMAIN w
  BY DEF Line, Peopled, Stored, Parts
<1>2. /\ v.topics = w.topics /\ v.seats = w.seats /\ v.flows = w.flows
      /\ v.suggestions = w.suggestions /\ v.proposals = [w.proposals EXCEPT ![p] = r]
      /\ v.plans = w.plans /\ v.tasks = w.tasks
  BY <1>1 DEF Parts
<1>3. p \in DOMAIN w.proposals =>
        /\ {"target", "topic", "after", "tasks"} \subseteq DOMAIN r
        /\ r.target = w.proposals[p].target /\ r.topic = w.proposals[p].topic
        /\ r.after = w.proposals[p].after /\ r.tasks = w.proposals[p].tasks
  BY DEF Line, Offered
<1> HIDE DEF r
<1>4. SameForks(w.proposals, v.proposals)
  BY <1>2, <1>3 DEF SameForks, Line, Offered
<1>5. GoesOn(w, v)
  BY <1>2, TopicsStay
<1>6. Promises(w, v)
  BY <1>2, <1>4 DEF Promises, SameForks, Line, Offered
<1>7. Told(w, v)
  BY <1>1, <1>2, <1>5, <1>6 DEF Told
<1> QED BY <1>2, <1>4, <1>5, <1>7, LineGoesOn

\* Where only plans and tasks are written, threads stay.
LEMMA FieldsTold ==
  ASSUME NEW w, NEW kind, NEW o, NEW fields, Stored(w), Line(w)
  PROVE  LET v == FieldsApplied(w, kind, o, fields)
         IN Line(v) /\ GoesOn(w, v) /\ v.topics = w.topics
<1> DEFINE v == FieldsApplied(w, kind, o, fields)
<1>1. (\E x : v = [w EXCEPT !.plans = x]) \/ (\E x : v = [w EXCEPT !.tasks = x])
  <2> DEFINE now == Arranged(Object(w, kind, o), fields)
             later == [now EXCEPT !.revision = now.revision + 1]
             sent == IF now.status = "delivered" THEN [later EXCEPT !.status = "rework"] ELSE later
  <2>1. v = IF kind = "plan" THEN [w EXCEPT !.plans = [w.plans EXCEPT ![o] = later]]
            ELSE [w EXCEPT !.tasks = [w.tasks EXCEPT ![o] = sent]]
    BY DEF FieldsApplied
  <2> HIDE DEF v, later, sent
  <2> QED BY <2>1
<1> HIDE DEF v
<1>2. Parts(w) /\ Parts(v)
  BY <1>1 DEF Line, Peopled, Stored, Parts
<1>3. /\ v.topics = w.topics /\ v.seats = w.seats /\ v.flows = w.flows
      /\ v.suggestions = w.suggestions /\ v.proposals = w.proposals
  BY <1>1, <1>2 DEF Parts
<1>4. GoesOn(w, v)
  BY <1>3, TopicsStay
<1>5. Told(w, v)
  BY <1>2, <1>3, <1>4, OffersStay
<1> QED BY <1>3, <1>4, <1>5, LineGoesOn DEF v

\* Fresh ids are none of those in use.
LEMMA FreshIds ==
  ASSUME NEW n \in Nat, NEW pool, NEW f, IsFiniteSet(pool), Cardinality(pool \ DOMAIN f) >= n
  PROVE  FreshSequence(n, pool, f) \in [1..n -> pool \ DOMAIN f]
<1> DEFINE S == pool \ DOMAIN f
           c == Cardinality(S)
           distinct(s) == \A i, j \in 1..n : i # j => s[i] # s[j]
<1>1. IsFiniteSet(S)
  BY FS_Subset
<1> HIDE DEF S
<1>2. c \in Nat /\ c >= n
  BY <1>1, FS_CardinalityType DEF S
<1>3. ExistsBijection(1..c, S)
  BY <1>1, FS_CardinalityType
<1>4. PICK b \in Bijection(1..c, S) : TRUE
  BY <1>3 DEF ExistsBijection
<1> DEFINE s == [i \in 1..n |-> b[i]]
<1> HIDE DEF c
<1>5. b \in [1..c -> S] /\ \A i, j \in 1..c : i # j => b[i] # b[j]
  BY <1>4, Fun_BijectionProperties
<1>6. s \in [1..n -> S] /\ distinct(s)
  BY <1>2, <1>5
<1>7. \E z \in [1..n -> S] : distinct(z)
  <2> HIDE DEF s, distinct
  <2> QED BY <1>6
<1>8. FreshSequence(n, pool, f) = CHOOSE z \in [1..n -> S] : distinct(z)
  BY DEF FreshSequence, S
<1> HIDE DEF distinct
<1>9. FreshSequence(n, pool, f) \in [1..n -> S]
  BY <1>7, <1>8
<1> QED BY <1>9 DEF S

\* Proposals whose forks stay on offer.
LEMMA ForksStay ==
  ASSUME NEW w, NEW v, Line(w), Parts(v), v.seats = w.seats, v.flows = w.flows,
         v.suggestions = w.suggestions, SameForks(w.proposals, v.proposals), GoesOn(w, v)
  PROVE  Told(w, v)
BY DEF Told, Promises, SameForks, Line, Offered

\* An approved arrangement: its main topic starts where the proposal was made.
LEMMA ArrangementTold ==
  ASSUME NEW w, NEW p \in DOMAIN w.proposals, Stored(w), Line(w), Named(w),
         w.proposals[p].target = None, HasRoom(PlanIds, w.plans),
         Cardinality(TaskIds \ DOMAIN w.tasks) >= Len(w.proposals[p].tasks)
  PROVE  LET v == Arrangement(w, PlanIds, TaskIds, p)
         IN Line(v) /\ GoesOn(w, v) /\ Named(v)
<1> DEFINE v == Arrangement(w, PlanIds, TaskIds, p)
           q == w.proposals[p]
           plan == Fresh(PlanIds, w.plans)
           main == <<"main", plan>>
           ids == FreshSequence(Len(q.tasks), TaskIds, w.tasks)
           new == {ids[i] : i \in DOMAIN ids}
           at(t) == CHOOSE i \in DOMAIN ids : ids[i] = t
           begun == [owner |-> q.owner, status |-> "active", revision |-> 1, refs |-> {},
                     discarded |-> FALSE, by |-> None, main |-> main]
           plans == Put(w.plans, plan, begun)
           tasks == [t \in DOMAIN w.tasks \cup new |->
                       IF t \in new THEN ArrangedTask(plan, ids, q.tasks[at(t)]) ELSE w.tasks[t]]
           linked == [w.topics EXCEPT ![q.topic].plans = @ \cup {plan},
                                      ![q.topic].tasks = @ \cup new]
           made == Topic({plan}, {}, plan, q.topic, q.after)
           topics == Put(linked, main, made)
           r == [q EXCEPT !.plan = plan]
<1>1. v = [w EXCEPT !.proposals = [w.proposals EXCEPT ![p] = r], !.plans = plans, !.tasks = tasks,
                    !.topics = topics]
  <2>1. v = [w EXCEPT !.proposals[p].plan = plan, !.plans = plans, !.tasks = tasks,
                      !.topics = topics]
    BY DEF Arrangement
  <2> HIDE DEF v, plan, plans, tasks, topics
  <2> QED BY <2>1
<1>2. plan \in PlanIds /\ plan \notin DOMAIN w.plans
  BY DEF HasRoom, Fresh
<1>3. main \notin DOMAIN w.topics /\ main # None
  <2> HIDE DEF plan
  <2> QED BY <1>2, IdsAssumption DEF Named
<1>4. /\ {"target", "topic", "after", "tasks"} \subseteq DOMAIN q
      /\ Attached(w, q.topic, q.after) /\ Len(q.tasks) \in Nat
  BY DEF Line, Offered
<1>5. new \subseteq TaskIds \ DOMAIN w.tasks
  <2>1. ids \in [1..Len(q.tasks) -> TaskIds \ DOMAIN w.tasks]
    <3> DEFINE n == Len(q.tasks)
    <3>1. n \in Nat /\ IsFiniteSet(TaskIds) /\ Cardinality(TaskIds \ DOMAIN w.tasks) >= n
      BY <1>4, IdsAssumption
    <3> HIDE DEF n, q, ids
    <3>2. FreshSequence(n, TaskIds, w.tasks) \in [1..n -> TaskIds \ DOMAIN w.tasks]
      BY <3>1, FreshIds
    <3> QED BY <3>2 DEF n, ids
  <2> HIDE DEF ids
  <2> QED BY <2>1
<1>6. InOrder(made) /\ made.parent = q.topic /\ made.fork = q.after
  <2> HIDE DEF plan
  <2> QED BY EmptyTopic
<1>7. /\ {"target", "topic", "after", "tasks"} \subseteq DOMAIN r
      /\ r.target = q.target /\ r.topic = q.topic /\ r.after = q.after /\ r.tasks = q.tasks
  <2> HIDE DEF plan
  <2> QED BY <1>4
<1>8. /\ DOMAIN linked = DOMAIN w.topics
      /\ \A i \in DOMAIN w.topics : Later(w.topics[i], linked[i])
  <2> DEFINE t == q.topic
             e == [w.topics[t] EXCEPT !.plans = @ \cup {plan}, !.tasks = @ \cup new]
  <2>1. linked = [w.topics EXCEPT ![t] = e]
    OBVIOUS
  <2>2. \A i \in DOMAIN w.topics : InOrder(w.topics[i]) /\ Later(w.topics[i], w.topics[i])
    BY TopicFacts, LaterSame
  <2>3. ASSUME t \in DOMAIN w.topics PROVE Later(w.topics[t], e)
    <3>1. InOrder(w.topics[t]) /\ Later(w.topics[t], w.topics[t])
      BY <2>2, <2>3
    <3> HIDE DEF plan, new, t
    <3>2. /\ InOrder(e) /\ e.parent = w.topics[t].parent /\ e.fork = w.topics[t].fork
          /\ e.messages = w.topics[t].messages
      BY <3>1 DEF InOrder
    <3> HIDE DEF e
    <3> QED BY <3>1, <3>2 DEF Later
  <2> HIDE DEF linked, e, t
  <2> QED BY <2>1, <2>2, <2>3
<1>9. \A a, b, c : "main" \in DOMAIN ArrangedTask(a, b, c)
  BY DEF ArrangedTask
<1>10. /\ DOMAIN tasks = DOMAIN w.tasks \cup new
       /\ \A k \in DOMAIN w.tasks : tasks[k] = w.tasks[k]
  <2> HIDE DEF new, plan, ids, q
  <2> QED BY <1>5
<1> HIDE DEF v, q, plan, ids, new, begun, plans, tasks, linked, made, topics, r
<1>11. /\ Parts(w) /\ Parts(v) /\ {"plans", "tasks"} \subseteq DOMAIN w
  BY <1>1 DEF Line, Peopled, Stored, Parts
<1>12. /\ v.topics = topics /\ v.seats = w.seats /\ v.flows = w.flows
       /\ v.suggestions = w.suggestions /\ v.proposals = [w.proposals EXCEPT ![p] = r]
       /\ v.plans = plans /\ v.tasks = tasks
  BY <1>1, <1>11 DEF Parts
<1>13. SameForks(w.proposals, v.proposals)
  BY <1>7, <1>12 DEF SameForks, Line, Offered, q
<1>14. /\ DOMAIN topics = DOMAIN w.topics \cup {main}
       /\ topics[main] = made
       /\ \A i \in DOMAIN w.topics : Later(w.topics[i], topics[i])
  <2> HIDE DEF main
  <2> QED BY <1>3, <1>8 DEF topics, Put
<1>15. GoesOn(w, v)
  <2>1. None \notin DOMAIN v.topics
    <3> HIDE DEF main
    <3> QED BY <1>3, <1>12, <1>14 DEF Line, Thread, Threaded
  <2> HIDE DEF main
  <2> QED BY <1>4, <1>6, <1>12, <1>14, <2>1 DEF GoesOn
<1>16. Line(v)
  BY <1>11, <1>12, <1>13, <1>15, ForksStay, LineGoesOn
<1>17. Named(v)
  <2>1. \A i \in PlanIds : <<"main", i>> \in DOMAIN v.topics => i \in DOMAIN v.plans
    <3>1. DOMAIN v.plans = DOMAIN w.plans \cup {plan}
      BY <1>12 DEF plans, Put
    <3> QED BY <1>12, <1>14, <3>1 DEF Named
  <2>2. \A k : <<"taskMain", k>> \in DOMAIN v.topics => <<"taskMain", k>> \in DOMAIN w.topics
    BY <1>12, <1>14
  <2>3. DOMAIN v.tasks = DOMAIN w.tasks \cup new
    BY <1>10, <1>12
  <2>4. \A k \in TaskIds : <<"taskMain", k>> \in DOMAIN v.topics => k \in DOMAIN v.tasks
    BY <2>2, <2>3 DEF Named
  <2>5. ASSUME NEW k \in DOMAIN v.tasks
        PROVE  /\ <<"taskMain", k>> # None
               /\ <<"taskMain", k>> \in DOMAIN v.topics => v.tasks[k].main # None
    <3>1. CASE k \in DOMAIN w.tasks
      <4>1. v.tasks[k] = w.tasks[k]
        BY <1>10, <1>12, <3>1
      <4> QED BY <2>2, <3>1, <4>1 DEF Named
    <3>2. CASE k \notin DOMAIN w.tasks
      <4>1. k \in TaskIds
        BY <1>5, <2>3, <3>2
      <4> QED BY <2>2, <3>2, <4>1, IdsAssumption DEF Named
    <3> QED BY <3>1, <3>2
  <2> QED BY <2>1, <2>4, <2>5 DEF Named
<1> QED BY <1>15, <1>16, <1>17 DEF v

\* Names stay theirs when no plan or task comes or goes.
LEMMA NamesStay ==
  ASSUME NEW w, NEW v, Named(w), WorkStays(w.plans, v.plans), WorkStays(w.tasks, v.tasks),
         DOMAIN v.topics \subseteq DOMAIN w.topics \cup TopicIds
  PROVE  Named(v)
<1>1. \A i : <<"main", i>> \in DOMAIN v.topics => <<"main", i>> \in DOMAIN w.topics
  <2>1. \A i : <<"main", i>>[1] = "main"
    OBVIOUS
  <2>2. \A i : <<"main", i>> \notin TopicIds
    BY <2>1, IdsAssumption
  <2> QED BY <2>2
<1>2. \A k : <<"taskMain", k>> \in DOMAIN v.topics => <<"taskMain", k>> \in DOMAIN w.topics
  <2>1. \A k : <<"taskMain", k>>[1] = "taskMain"
    OBVIOUS
  <2>2. \A k : <<"taskMain", k>> \notin TopicIds
    BY <2>1, IdsAssumption
  <2> QED BY <2>2
<1> QED BY <1>1, <1>2 DEF Named, WorkStays

\* The name of a new main topic is its task's.
LEMMA TaskMainNamed ==
  ASSUME NEW w, NEW v, NEW u, NEW t \in DOMAIN w.tasks, Stored(w), Line(w), Named(w),
         TaskMainTopic(w, v, u, t)
  PROVE  Named(v)
<1> DEFINE id == <<"taskMain", t>>
           e == Topic({}, {t}, None, None, 0)
           d == [w.tasks[t] EXCEPT !.main = id]
<1>1. v = [w EXCEPT !.tasks = [w.tasks EXCEPT ![t] = d], !.topics = Put(w.topics, id, e)]
  BY DEF TaskMainTopic
<1>2. d.main = id /\ id # None
  BY DEF Stored, Named
<1> HIDE DEF e, d
<1>3. /\ v.plans = w.plans /\ v.tasks = [w.tasks EXCEPT ![t] = d]
      /\ v.topics = Put(w.topics, id, e)
  BY <1>1 DEF Stored
<1>4. DOMAIN v.topics = DOMAIN w.topics \cup {id} /\ DOMAIN v.tasks = DOMAIN w.tasks
  BY <1>3 DEF Put
<1>5. \A i \in PlanIds : <<"main", i>> \in DOMAIN v.topics => i \in DOMAIN v.plans
  BY <1>3, <1>4 DEF Named
<1>6. \A k \in TaskIds : <<"taskMain", k>> \in DOMAIN v.topics => k \in DOMAIN v.tasks
  <2>1. \A k : <<"taskMain", k>> = id => k = t
    OBVIOUS
  <2> HIDE DEF id
  <2> QED BY <1>4, <2>1 DEF Named
<1>7. \A k \in DOMAIN v.tasks : /\ <<"taskMain", k>> # None
                                /\ <<"taskMain", k>> \in DOMAIN v.topics => v.tasks[k].main # None
  <2>1. \A k : <<"taskMain", k>> = id => k = t
    OBVIOUS
  <2> HIDE DEF id
  <2> QED BY <1>2, <1>3, <1>4, <2>1 DEF Named
<1> QED BY <1>5, <1>6, <1>7 DEF Named

\* A vote.
LEMMA VoteTold ==
  ASSUME NEW w, NEW v, NEW u, NEW p \in DOMAIN w.proposals, NEW revision, Stored(w), Line(w),
         Named(w), ApproveProposal(w, v, u, PlanIds, TaskIds, p, revision)
  PROVE  Line(v) /\ GoesOn(w, v) /\ Named(v)
<1> DEFINE q == w.proposals[p]
           more == q.votes \cup {u}
           voted == [w EXCEPT !.proposals =
                       [w.proposals EXCEPT ![p] = [q EXCEPT !["votes"] = more]]]
           approved == [voted EXCEPT !.proposals =
                          [voted.proposals EXCEPT ![p] =
                             [voted.proposals[p] EXCEPT !["status"] = "approved"]]]
<1>1. /\ q.target = None => /\ HasRoom(PlanIds, w.plans)
                            /\ Cardinality(TaskIds \ DOMAIN w.tasks) >= Len(q.tasks)
      /\ v = IF q.approvers \ more # {} THEN voted
             ELSE IF q.target # None
             THEN FieldsApplied(approved, q.target[1], q.target[2], q.fields)
             ELSE Arrangement(approved, PlanIds, TaskIds, p)
  BY DEF ApproveProposal
<1> HIDE DEF more
<1>2. /\ Line(voted) /\ GoesOn(w, voted) /\ SameForks(w.proposals, voted.proposals)
      /\ voted.topics = w.topics /\ voted.plans = w.plans /\ voted.tasks = w.tasks
  <2>1. PICK field \in {"votes", "status", "plan"} : field = "votes"
    OBVIOUS
  <2>2. voted = [w EXCEPT !.proposals =
                   [w.proposals EXCEPT ![p] = [w.proposals[p] EXCEPT ![field] = more]]]
    BY <2>1
  <2> HIDE DEF voted, q
  <2> QED BY <2>2, VoteWritten
<1>3. Stored(voted)
  <2>1. {"plans", "tasks", "topics"} \subseteq DOMAIN voted
    BY DEF Stored
  <2> HIDE DEF voted
  <2> QED BY <1>2, <2>1 DEF Stored
<1> HIDE DEF q, voted
<1>4. /\ Line(approved) /\ SameForks(voted.proposals, approved.proposals)
      /\ approved.topics = w.topics /\ approved.plans = w.plans /\ approved.tasks = w.tasks
  <2>1. PICK field \in {"votes", "status", "plan"} : field = "status"
    OBVIOUS
  <2> DEFINE x == "approved"
  <2>2. approved = [voted EXCEPT !.proposals =
                      [voted.proposals EXCEPT ![p] = [voted.proposals[p] EXCEPT ![field] = x]]]
    BY <2>1
  <2> HIDE DEF approved, x
  <2> QED BY <1>2, <1>3, <2>2, VoteWritten
<1>5. Stored(approved)
  <2>1. {"plans", "tasks", "topics"} \subseteq DOMAIN approved
    BY <1>3 DEF Stored
  <2> HIDE DEF approved
  <2> QED BY <1>3, <1>4, <1>2, <2>1 DEF Stored
<1> HIDE DEF approved
<1>6. Named(voted) /\ Named(approved)
  BY <1>2, <1>4 DEF Named
<1>7. \A x : GoesOn(approved, x) => GoesOn(w, x)
  BY <1>4 DEF GoesOn, Attached, Reach
<1>8. CASE v = voted
  BY <1>2, <1>6, <1>8
<1>9. CASE v = FieldsApplied(approved, q.target[1], q.target[2], q.fields)
  <2>1. Line(v) /\ GoesOn(approved, v) /\ v.topics = approved.topics
    BY <1>4, <1>5, <1>9, FieldsTold
  <2>2. Grown(approved, v)
    BY <1>5, <1>9, FieldsWritten
  <2>3. Named(v)
    BY <1>6, <2>1, <2>2, NamesStay DEF Grown
  <2> QED BY <1>7, <2>1, <2>3
<1>10. CASE q.target = None /\ v = Arrangement(approved, PlanIds, TaskIds, p)
  <2>1. /\ p \in DOMAIN approved.proposals /\ approved.proposals[p].target = None
        /\ approved.proposals[p].tasks = q.tasks
    BY <1>2, <1>4, <1>10 DEF SameForks, q
  <2>2. /\ HasRoom(PlanIds, approved.plans)
        /\ Cardinality(TaskIds \ DOMAIN approved.tasks) >= Len(approved.proposals[p].tasks)
    BY <1>1, <1>4, <1>10, <2>1
  <2>3. Line(v) /\ GoesOn(approved, v) /\ Named(v)
    BY <1>4, <1>5, <1>6, <1>10, <2>1, <2>2, ArrangementTold
  <2> QED BY <1>7, <2>3
<1> QED BY <1>1, <1>8, <1>9, <1>10

---------------------------------------------------------------------------

\* The inductive invariant.
IInv == Stored(work) /\ MainTopicsLinked /\ Line(work) /\ Named(work)

\* What a person does with topics, activities and suggestions adds to them.
Growing(u) ==
  \/ Say(u) \/ SayFirst(u) \/ Discuss(u) \/ Fork(u) \/ Open(u) \/ Limit(u)
  \/ Ask(u) \/ Reply(u) \/ Resolve(u) \/ Submit(u)

\* Every one of these steps only adds.
LEMMA GrowingSteps ==
  ASSUME Sound(work), NEW u \in Persons, Growing(u)
  PROVE  Grown(work, work')
<1> USE DEF Act
<1>0. Stored(work)
  BY DEF Sound
<1>1. CASE Say(u)
  BY <1>0, <1>1, Replied, MessageSaid DEF Say
<1>2. CASE SayFirst(u)
  BY <1>0, <1>2, FirstSaid DEF SayFirst
<1>3. CASE Discuss(u)
  BY <1>0, <1>3, TopicDiscussed DEF Discuss
<1>4. CASE Fork(u)
  BY <1>0, <1>4, TopicOpened DEF Fork
<1>5. CASE Open(u)
  BY <1>0, <1>5, TopicOpened DEF Open
<1>6. CASE Limit(u)
  <2>1. PICK n : work' = [work EXCEPT !.limit = n]
    BY <1>6 DEF Limit, SetDiscussionLimit
  <2>2. /\ Collections(work') /\ work'.plans = work.plans /\ work'.tasks = work.tasks
        /\ work'.topics = work.topics
    BY <1>0, <2>1 DEF Stored, Collections
  <2> QED BY <1>0, <2>2, Unwritten DEF Grown
<1>7. CASE Ask(u)
  BY <1>7, QuestionAsked DEF Ask
<1>8. CASE Reply(u)
  BY <1>8, Replied DEF Reply
<1>9. CASE Resolve(u)
  <2>1. PICK s \in DOMAIN work.suggestions :
               \E how \in SuggestionCard(work, s) \cup {<<"dismiss", None>>} :
                 ResolveSuggestion(work, work', u, TopicIds, s, work.suggestions[s].version,
                                   how[1], how[2])
    BY <1>9 DEF Resolve
  <2>2. PICK how \in SuggestionCard(work, s) \cup {<<"dismiss", None>>} :
               ResolveSuggestion(work, work', u, TopicIds, s, work.suggestions[s].version,
                                 how[1], how[2])
    BY <2>1
  <2>3. how[1] \in {"create", "main", "link", "dismiss"}
    BY DEF SuggestionCard, Offers
  <2> QED BY <2>2, <2>3, SuggestionResolved
<1>10. CASE Submit(u)
  <2>1. PICK x : work' = [work EXCEPT !.proposals = x]
    BY <1>10 DEF Submit, SubmitProposal
  <2>2. /\ Collections(work') /\ work'.plans = work.plans /\ work'.tasks = work.tasks
        /\ work'.topics = work.topics
    BY <1>0, <2>1 DEF Stored, Collections
  <2> QED BY <1>0, <2>2, Unwritten DEF Grown
<1> QED BY <1>1, <1>2, <1>3, <1>4, <1>5, <1>6, <1>7, <1>8, <1>9, <1>10 DEF Growing

\* Every one of them goes on with the topics, and the forks on offer start at points of them.
LEMMA GrowingTold ==
  ASSUME Sound(work), Line(work), NEW u \in Persons, Growing(u)
  PROVE  Spoken(work, work')
<1> USE DEF Act
<1>0. Stored(work)
  BY DEF Sound
<1>1. CASE Say(u)
  BY <1>0, <1>1, ReplyTold, MessageTold DEF Say
<1>2. CASE SayFirst(u)
  BY <1>0, <1>2, FirstTold DEF SayFirst
<1>3. CASE Discuss(u)
  BY <1>0, <1>3, DiscussTold DEF Discuss
<1>4. CASE Fork(u)
  BY <1>0, <1>4, ForkTold DEF Fork
<1>5. CASE Open(u)
  BY <1>0, <1>5, CreatedTold DEF Open
<1>6. CASE Limit(u)
  <2>1. PICK n : work' = [work EXCEPT !.limit = n]
    BY <1>6 DEF Limit, SetDiscussionLimit
  <2>2. Parts(work) /\ Parts(work')
    BY <1>0, <2>1 DEF Line, Peopled, Stored, Parts
  <2>3. /\ work'.topics = work.topics /\ work'.seats = work.seats /\ work'.flows = work.flows
        /\ work'.suggestions = work.suggestions /\ work'.proposals = work.proposals
    BY <2>1, <2>2 DEF Parts
  <2>4. GoesOn(work, work')
    BY <2>3, TopicsStay
  <2> QED BY <2>2, <2>3, <2>4, OffersStay DEF Spoken
<1>7. CASE Ask(u)
  BY <1>7, QuestionTold DEF Ask
<1>8. CASE Reply(u)
  <2>1. \A t : ReplyTopics(work, t) \subseteq DOMAIN work.topics
    BY DEF ReplyTopics
  <2> QED BY <1>8, <2>1, ReplyTold DEF Reply
<1>9. CASE Resolve(u)
  <2>1. PICK s \in DOMAIN work.suggestions :
               \E how \in SuggestionCard(work, s) \cup {<<"dismiss", None>>} :
                 ResolveSuggestion(work, work', u, TopicIds, s, work.suggestions[s].version,
                                   how[1], how[2])
    BY <1>9 DEF Resolve
  <2>2. PICK how \in SuggestionCard(work, s) \cup {<<"dismiss", None>>} :
               ResolveSuggestion(work, work', u, TopicIds, s, work.suggestions[s].version,
                                 how[1], how[2])
    BY <2>1
  <2>3. how[1] \in {"create", "main", "link", "dismiss"}
    BY DEF SuggestionCard, Offers
  <2> QED BY <1>0, <2>2, <2>3, ResolveTold
<1>10. CASE Submit(u)
  BY <1>0, <1>10, SubmitTold DEF Submit
<1> QED BY <1>1, <1>2, <1>3, <1>4, <1>5, <1>6, <1>7, <1>8, <1>9, <1>10 DEF Growing

\* Every step goes on with the topics, and what histories depend on is kept.
LEMMA StepGoesOn ==
  ASSUME IInv, [Next]_work
  PROVE  Line(work') /\ GoesOn(work, work') /\ Named(work')
<1>0. Sound(work) /\ Stored(work) /\ Line(work) /\ Named(work)
  BY DEF Sound, IInv, MainTopicsLinked
<1>1. CASE UNCHANGED work
  <2>1. work'.topics = work.topics /\ work' = work
    BY <1>1
  <2>2. GoesOn(work, work')
    BY <1>0, <2>1, TopicsStay
  <2> QED BY <1>0, <2>1, <2>2
<1>2. ASSUME NEW u \in Persons, Growing(u) PROVE Line(work') /\ GoesOn(work, work') /\ Named(work')
  <2>1. Spoken(work, work') /\ Grown(work, work')
    BY <1>0, <1>2, GrowingTold, GrowingSteps
  <2>2. Line(work') /\ GoesOn(work, work')
    BY <1>0, <2>1, LineGoesOn DEF Spoken, Told
  <2>3. Named(work')
    BY <1>0, <2>1, NamesStay DEF Spoken, Grown
  <2> QED BY <2>2, <2>3
<1>3. ASSUME NEW u \in Persons, OpenMain(u) PROVE Line(work') /\ GoesOn(work, work') /\ Named(work')
  <2>1. PICK t \in DOMAIN work.tasks : TaskMainTopic(work, work', u, t)
    BY <1>3 DEF OpenMain, Act
  <2>2. Told(work, work') /\ Named(work')
    BY <1>0, <2>1, TaskMainTold, TaskMainNamed
  <2> QED BY <1>0, <2>2, LineGoesOn DEF Told
<1>4. ASSUME NEW u \in Persons, Link(u) PROVE Line(work') /\ GoesOn(work, work') /\ Named(work')
  <2>1. PICK t \in DOMAIN work.topics : \E form \in TopicForm(work, t) :
               ReplaceLinks(work, work', u, t, work.topics[t].links, form.plans, form.tasks)
    BY <1>4 DEF Link, Act
  <2>2. Spoken(work, work')
    BY <1>0, <2>1, LinksTold
  <2>3. \E x : work' = [work EXCEPT !.topics = x]
    BY <2>1 DEF ReplaceLinks
  <2>4. work'.plans = work.plans /\ work'.tasks = work.tasks
    BY <1>0, <2>3 DEF Stored
  <2>5. Named(work')
    BY <1>0, <2>2, <2>4, Unwritten, NamesStay DEF Spoken
  <2> QED BY <1>0, <2>2, <2>5, LineGoesOn DEF Spoken, Told
<1>5. ASSUME NEW u \in Persons, Vote(u) PROVE Line(work') /\ GoesOn(work, work') /\ Named(work')
  BY <1>0, <1>5, VoteTold DEF Vote, Act
<1> QED BY <1>1, <1>2, <1>3, <1>4, <1>5 DEF Next, Growing

\* The loaded state satisfies the invariant.
LEMMA InitIInv == Init => IInv
<1> SUFFICES ASSUME Init PROVE IInv
  OBVIOUS
<1>1. work = Start
  BY DEF Init
<1>2. Stored(Start) /\ MainsLinked(Start) /\ Threaded(Start) /\ Offered(Start) /\ Named(Start)
      /\ Peopled(Start)
  BY StartAssumption
<1>3. \E n \in Nat : Rooted(Start, n)
  BY StartAssumption, FS_CardinalityType
<1> QED BY <1>1, <1>2, <1>3 DEF IInv, MainTopicsLinked, Line, Thread

\* Every step preserves it.
LEMMA StepIInv == IInv /\ [Next]_work => IInv'
<1> SUFFICES ASSUME IInv, [Next]_work PROVE IInv'
  OBVIOUS
<1>0. Sound(work)
  BY DEF Sound, IInv, MainTopicsLinked
<1>1. CASE UNCHANGED work
  BY <1>1 DEF IInv, MainTopicsLinked
<1>2. ASSUME NEW u \in Persons, Growing(u) PROVE Sound(work')
  BY <1>0, <1>2, GrowingSteps, GrownSound
<1>3. ASSUME NEW u \in Persons, OpenMain(u) PROVE Sound(work')
  BY <1>0, <1>3, TaskMainMade DEF OpenMain, Act
<1>4. ASSUME NEW u \in Persons, Link(u) PROVE Sound(work')
  BY <1>0, <1>4, LinksReplaced DEF Link, Act
<1>5. ASSUME NEW u \in Persons, Vote(u) PROVE Sound(work')
  BY <1>0, <1>5, Voted DEF Vote, Act
<1>6. ASSUME Sound(work') PROVE IInv'
  BY <1>6, StepGoesOn DEF Sound, IInv, MainTopicsLinked
<1> QED BY <1>1, <1>2, <1>3, <1>4, <1>5, <1>6 DEF Next, Growing

\* The stored state stays one, its main topics linked and its topics in order, whatever persons
\* do.
THEOREM Invariant == Spec => []IInv
BY InitIInv, StepIInv, PTL DEF Spec

\* The main topic of a plan or task exists and is linked to it (ensureDemoMainTopics,
\* demoTaskMain, demoReplaceLinks, decideProposal).
THEOREM MainTopicsStayLinked == Spec => []MainTopicsLinked
BY Invariant, PTL DEF IInv

\* A number names one message of a history (demoHistory, demoForkContext), so a fork made at a
\* number is made at one place.
THEOREM HistoriesAreNumbered == Spec => []HistoryNumbered
<1>1. IInv => HistoryNumbered
  <2> SUFFICES ASSUME IInv, NEW t \in DOMAIN work.topics, NEW i \in DOMAIN Histories(work)[t],
                      NEW j \in 1..(i-1)
               PROVE  Histories(work)[t][j].seq < Histories(work)[t][i].seq
    BY DEF HistoryNumbered
  <2> DEFINE h == Histories(work)[t]
             n == Reach(work, t)
  <2>1. Thread(work)
    BY DEF IInv, Line
  <2>2. h \in Seq(Read(work)) /\ Len(h) = n /\ \A k \in 1..n : h[k].seq = k
    BY <2>1, AllCount DEF Counts
  <2>3. n \in Nat /\ i \in 1..n
    BY <2>1, Points
  <2> HIDE DEF h, n
  <2>4. h[j].seq = j /\ h[i].seq = i /\ j < i
    BY <2>2, <2>3
  <2> QED BY <2>3, <2>4 DEF h
<1> QED BY <1>1, Invariant, PTL

\* What has been read in a topic stays as it was (demoHistory): a fork does not see what its parent
\* is told later, nor the other way round, and nothing is put in between.
THEOREM HistoriesStayFrozen == Spec => HistoryFrozen
<1>1. IInv /\ [Next]_work =>
        \A t \in DOMAIN work.topics :
          LET old == Histories(work)[t]
              new == Histories(work')[t]
          IN Len(old) <= Len(new) /\ SubSeq(new, 1, Len(old)) = old
  <2> SUFFICES ASSUME IInv, [Next]_work, NEW t \in DOMAIN work.topics
               PROVE  /\ Len(Histories(work)[t]) <= Len(Histories(work')[t])
                      /\ SubSeq(Histories(work')[t], 1, Len(Histories(work)[t]))
                           = Histories(work)[t]
    OBVIOUS
  <2>1. Thread(work) /\ GoesOn(work, work')
    BY StepGoesOn DEF IInv, Line
  <2> QED BY <2>1, HistoriesFrozen
<1> QED BY <1>1, Invariant, PTL DEF Spec, HistoryFrozen
=============================================================================
