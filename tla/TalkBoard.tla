------------------------------ MODULE TalkBoard ------------------------------
(***************************************************************************)
(* Talking about work in the preview: topics are written in, discussed,    *)
(* forked and linked, questions of a task suggest discussions, the manager *)
(* changes the limit of discussion rounds, and an arrangement proposed in  *)
(* a topic becomes a plan with a main topic that continues it.             *)
(***************************************************************************)
EXTENDS WorkPages

CONSTANTS
  Start,         \* the work state the store is loaded with
  TopicIds, ActivityIds, ProposalIds, PlanIds, TaskIds,
                 \* bounds: fresh ids
  Limits,        \* the limits of discussion rounds the manager sets
  MaxEvents      \* bound: what has been said, discussed, opened, linked, asked and decided

VARIABLE work    \* the store's state

Persons == DOMAIN Start.members

Init == work = Start

Sums == INSTANCE FiniteSetsExt
\* What keeps TLC's instance finite: a message of a person and a discussion round count as one
\* event each, so do a new topic, changed links, an activity, an answered suggestion, a proposal
\* and its approval.
Rounds(topic) == Sums!MapThenSumSet(LAMBDA i : topic.runs[i].rounds, DOMAIN topic.runs)
Events(w) ==
  LET ofTopic(t) == Cardinality({i \in DOMAIN w.topics[t].messages :
                                   w.topics[t].messages[i].kind = "person"})
                    + Rounds(w.topics[t]) + w.topics[t].links
  IN Sums!MapThenSumSet(ofTopic, DOMAIN w.topics) - Cardinality(DOMAIN Start.topics)
     + Cardinality(DOMAIN w.activities) + Cardinality(DOMAIN w.proposals)
     + Cardinality({s \in DOMAIN w.suggestions : w.suggestions[s].state # "pending"})
     + Cardinality({p \in DOMAIN w.proposals : w.proposals[p].status # "pending"})
     + (IF w.limit = Start.limit THEN 0 ELSE 1)
Act(step) == step /\ Events(work') <= MaxEvents

\* A message about the topic or a plan, or one that is the reply to a task, or one outside.
Say(u) == \E t \in DOMAIN work.topics : \E about \in Contexts(work, t) :
  Act(IF about[1] = "task" THEN RecordReply(work, work', u, ActivityIds, about[2], t)
      ELSE TopicMessage(work, work', u, t))
SayFirst(u) == Act(SendFirstMessage(work, work', u, TopicIds))
Discuss(u) == \E t \in DOMAIN work.topics :
  "discuss" \in ConversationHeading(work, t) /\ Act(DiscussTopic(work, work', u, t))
\* A fork keeps the links of its parent.
Fork(u) == \E t \in DOMAIN work.topics : \E point \in ForkPoints(work, t) :
  Act(ForkTopic(work, work', u, TopicIds, t, point, work.topics[t].plans, work.topics[t].tasks))
Open(u) == \E form \in NewTopicForm(work) :
  Act(CreateDiscussion(work, work', u, TopicIds, form.plans, form.tasks))
OpenMain(u) == \E t \in DOMAIN work.tasks : Act(TaskMainTopic(work, work', u, t))
\* An editor with an older version of the links is refused.
Link(u) == \E t \in DOMAIN work.topics : \E form \in TopicForm(work, t) :
  Act(ReplaceLinks(work, work', u, t, work.topics[t].links, form.plans, form.tasks))
Limit(u) == \E n \in Limits \cap ProjectSettings(work, u) :
  Act(SetDiscussionLimit(work, work', u, n))

Ask(u) == \E t \in DOMAIN work.tasks : \E x \in TaskActivity(work, u, t, "question") :
  Act(RecordQuestion(work, work', u, ActivityIds, t))
Reply(u) == \E t \in DOMAIN work.tasks : \E x \in TaskActivity(work, u, t, "reply") :
  \E topic \in ReplyTopics(work, t) : Act(RecordReply(work, work', u, ActivityIds, t, topic))
\* No page of the preview dismisses a suggestion.
Resolve(u) == \E s \in DOMAIN work.suggestions :
  \E how \in SuggestionCard(work, s) \cup {<<"dismiss", None>>} :
    Act(ResolveSuggestion(work, work', u, TopicIds, s, work.suggestions[s].version,
                          how[1], how[2]))

\* An arrangement is sent as the dialog proposes it.
Submit(u) == \E t \in DOMAIN work.topics :
  LET draft == ProposalDraft(work, u, None)
  IN Sendable(draft) /\ Act(SubmitProposal(work, work', u, ProposalIds, t, draft, None))
Vote(u) == \E p \in DOMAIN work.proposals :
  /\ "approve" \in ProposalCard(work, u, p)
  /\ Act(ApproveProposal(work, work', u, PlanIds, TaskIds, p, work.proposals[p].revision))

Next == \E u \in Persons :
  \/ Say(u) \/ SayFirst(u) \/ Discuss(u) \/ Fork(u) \/ Open(u) \/ OpenMain(u) \/ Link(u)
  \/ Limit(u) \/ Ask(u) \/ Reply(u) \/ Resolve(u) \/ Submit(u) \/ Vote(u)

Spec == Init /\ [][Next]_work

---------------------------------------------------------------------------

\* A number names one message of a history, whoever wrote it and wherever it was inherited from:
\* forks are made at these numbers.
HistoryNumbered ==
  LET h == Histories(work)
  IN \A t \in DOMAIN work.topics : \A i \in DOMAIN h[t] : \A j \in 1..(i-1) :
       h[t][j].seq < h[t][i].seq

\* What a person has read in a topic stays as it was: nothing is written into a history but at
\* its end, neither by its parent after the fork nor by forks of it.
HistoryFrozen ==
  [][\A t \in DOMAIN work.topics :
       LET old == Histories(work)[t]
           new == Histories(work')[t]
       IN Len(old) <= Len(new) /\ SubSeq(new, 1, Len(old)) = old]_work

\* The main topic of a plan or task exists and is linked to it, whichever way it came about and
\* whatever links are replaced.
MainsLinked(w) ==
  /\ \A p \in DOMAIN w.plans : /\ w.plans[p].main \in DOMAIN w.topics
                               /\ p \in w.topics[w.plans[p].main].plans
  /\ \A k \in DOMAIN w.tasks :
       w.tasks[k].main # None => /\ w.tasks[k].main \in DOMAIN w.topics
                                 /\ k \in w.topics[w.tasks[k].main].tasks
MainTopicsLinked == MainsLinked(work)

\* What a stored state looks like, as far as main topics depend on it: the fields that are written
\* are there, and a main topic with a name made for one plan or task is that one's.
Stored(w) ==
  /\ {"plans", "tasks", "topics"} \subseteq DOMAIN w
  /\ \A t \in DOMAIN w.topics : {"plans", "tasks"} \subseteq DOMAIN w.topics[t]
  /\ \A p \in DOMAIN w.plans : /\ "main" \in DOMAIN w.plans[p]
                               /\ w.plans[p].main[1] # "taskMain"
                               /\ w.plans[p].main[1] = "main" => w.plans[p].main[2] = p
  /\ \A k \in DOMAIN w.tasks :
       /\ "main" \in DOMAIN w.tasks[k]
       /\ w.tasks[k].main # None =>
            /\ w.tasks[k].main[1] # "main"
            /\ w.tasks[k].main[1] = "taskMain" => w.tasks[k].main[2] = k

\* What histories depend on.  A topic without a parent counts from one, a fork goes on after a
\* message of its parent, and a message with a number has the next one.
Reach(w, t) == w.topics[t].fork + Len(w.topics[t].messages)
Attached(w, parent, point) ==
  /\ point \in Nat
  /\ IF parent = None THEN point = 0 ELSE parent \in DOMAIN w.topics /\ point <= Reach(w, parent)
Message == [kind : {"person", "ai"}, seq : Nat]
InOrder(topic) ==
  /\ {"parent", "fork", "messages"} \subseteq DOMAIN topic
  /\ topic.messages \in Seq(Message)
  /\ \A i \in DOMAIN topic.messages : topic.messages[i].seq \in {0, topic.fork + i}
Threaded(w) ==
  /\ None \notin DOMAIN w.topics
  /\ \A t \in DOMAIN w.topics : /\ InOrder(w.topics[t])
                                /\ Attached(w, w.topics[t].parent, w.topics[t].fork)

\* No topic is forked from itself, directly or through others.
Rooted(w, n) ==
  \E depth \in [DOMAIN w.topics -> 0..n] : \A t \in DOMAIN w.topics :
    w.topics[t].parent # None => depth[w.topics[t].parent] < depth[t]

\* The forks that suggestions and proposals are going to make.
Offered(w) ==
  /\ \A s \in DOMAIN w.suggestions : /\ {"parent", "fork"} \subseteq DOMAIN w.suggestions[s]
                                     /\ Attached(w, w.suggestions[s].parent, w.suggestions[s].fork)
  /\ \A p \in DOMAIN w.proposals :
       LET proposal == w.proposals[p]
       IN /\ {"target", "topic", "after", "tasks"} \subseteq DOMAIN proposal
          /\ proposal.target = None => /\ Attached(w, proposal.topic, proposal.after)
                                       /\ Len(proposal.tasks) \in Nat

\* A main topic with a name made for a plan or task is there only when the plan or task is.
Named(w) ==
  /\ \A p \in PlanIds : <<"main", p>> \in DOMAIN w.topics => p \in DOMAIN w.plans
  /\ \A k \in TaskIds : <<"taskMain", k>> \in DOMAIN w.topics => k \in DOMAIN w.tasks
  /\ \A k \in DOMAIN w.tasks : /\ <<"taskMain", k>> # None
                               /\ <<"taskMain", k>> \in DOMAIN w.topics => w.tasks[k].main # None

Peopled(w) ==
  /\ {"seats", "flows", "suggestions", "proposals"} \subseteq DOMAIN w
  /\ IsFiniteSet(DOMAIN w.seats)
  /\ LET nodes == w.flows["delivery"].nodes IN Len(nodes) \in Nat /\ DOMAIN nodes = 1..Len(nodes)

ASSUME StartAssumption ==
  /\ Stored(Start) /\ MainsLinked(Start)
  /\ Threaded(Start) /\ Offered(Start) /\ Named(Start) /\ Peopled(Start)
  /\ IsFiniteSet(DOMAIN Start.topics) /\ Rooted(Start, Cardinality(DOMAIN Start.topics))

\* Ids are nothing else, and there are finitely many for tasks.
ASSUME IdsAssumption ==
  /\ None \notin TopicIds /\ \A t \in TopicIds : t[1] \notin {"main", "taskMain"}
  /\ \A p \in PlanIds : <<"main", p>> # None
  /\ IsFiniteSet(TaskIds) /\ \A k \in TaskIds : <<"taskMain", k>> # None
=============================================================================
