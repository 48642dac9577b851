----------------------------- MODULE Navigation -----------------------------
(***************************************************************************)
(* Moving about a project in one browser window: the route and its address *)
(* (features/work/storeBase.ts, features/cooperation/routing.ts), the tabs *)
(* of the discussions that are open (chat/conversationTabs.ts), the tabs of *)
(* the tools beside them (chat/workspaceTabModel.ts) and the work each      *)
(* discussion is about (chat/conversationDraft.ts).                         *)
(*                                                                         *)
(* Every move is one handler: what it writes, the route it goes to, and the *)
(* effects that follow before the window is at rest.  What is stored lives  *)
(* in the session of the window and survives a reload.                      *)
(*                                                                         *)
(* The project, the person and the objects are fixed, and everything is     *)
(* loaded.  The two scope fields of a route are one value, because no        *)
(* modelled move sets both.  Left out: settings, editors, invitations, the  *)
(* tab of the hub, records and message numbers in the address, hand-off     *)
(* tabs, which no control of the pages opens, and the panel that hides the  *)
(* tools.                                                                   *)
(***************************************************************************)
EXTENDS Integers, SequencesExt

CONSTANTS
  Absent,
  Tasks, Plans,
  PlanOf,        \* the plan of a task, or Absent
  Topics,
  TaskMain,      \* the main discussion of a task
  PlanMain,      \* the main discussion of a plan
  Links,         \* the tasks and the plans a discussion is linked to
  Remembered     \* how many addresses of the history are kept

VARIABLES
  route,         \* what the pages show
  entries,       \* the addresses in the history of the window, and the current one
  tabs,          \* the discussions as the tab bar last showed them
  saved,         \* the discussions stored in the session
  tools,         \* the tools and the selected one, stored with them
  contexts,      \* the work of every discussion, once it was entered
  moves          \* how many moves are left

window == <<route, entries, tabs, saved, tools, contexts, moves>>

Project == <<"project">>
InPlan(p) == <<"plan", p>>
InTask(t) == <<"task", t>>
Scopes == {Project} \cup {InPlan(p) : p \in Plans} \cup {InTask(t) : t \in Tasks}

----------------------------------------------------------------------------
(* The route and its address.                                               *)

Route(page, view, id) ==
  [page |-> page, view |-> view, id |-> id, conversation |-> Absent, scope |-> Project,
   taskContext |-> Absent, section |-> Absent]

Views == {"home", "topic", "plans", "plan", "task", "resources", "workspace"}

Given(next, field) == field \in DOMAIN next

\* The route after go(next): what next names, and what follows from leaving a view behind.
Go(next) ==
  LET to(view) == Given(next, "view") /\ next.view = view
      other == Given(next, "id") /\ next.id # route.id
      leaving == Given(next, "page") /\ next.page # "chat"
      speaking == to("topic") \/ (Given(next, "conversation") /\ next.conversation # Absent)
      onRoute == to("plan") /\ ~Given(next, "page") /\ route.page # "chat"
      value == [f \in DOMAIN route |-> IF Given(next, f) THEN next[f] ELSE route[f]]
  IN [value EXCEPT
        !.id = IF Given(next, "id") THEN @
               ELSE IF Given(next, "view") /\ next.view # route.view THEN Absent ELSE @,
        !.section = IF to("task") /\ other /\ ~Given(next, "section") THEN "overview" ELSE @,
        !.conversation = IF leaving THEN Absent
                         ELSE IF to("topic") THEN next.id
                         ELSE IF ~Given(next, "conversation") /\ route.view = "topic"
                              THEN route.id ELSE @,
        !.taskContext =
          IF \/ leaving
             \/ to("topic") /\ next.id # route.conversation /\ ~Given(next, "taskContext")
          THEN Absent ELSE @,
        !.scope = IF onRoute THEN InPlan(next.id) ELSE @,
        !.page = IF speaking THEN "chat" ELSE IF onRoute THEN "route" ELSE @]

\* The parameter of a task context that is left empty.
Blank == "blank"

\* A mutation for the checks: the address does not name the section of a task.
AddressUnsectioned(r) ==
  LET place == IF r.page = "route" /\ r.scope[1] # "plan" THEN "hub" ELSE r.page
      task == r.view = "task"
  IN [place |-> place,
      scope |-> IF place = "hub" THEN Project ELSE r.scope,
      topic |-> IF place # "chat" THEN Absent
                ELSE IF r.conversation = Absent /\ r.view = "topic" THEN r.id
                ELSE r.conversation,
      view |-> IF r.page = "route" \/ r.view \in {"topic", "home"} THEN Absent ELSE r.view,
      item |-> IF place = "route" THEN IF task THEN r.id ELSE Absent
               ELSE IF r.page = "route" \/ r.view = "topic" THEN Absent ELSE r.id,
      context |-> IF r.taskContext # Absent THEN r.taskContext
                  ELSE IF r.page = "chat" /\ r.scope[1] = "task" THEN Blank ELSE Absent,
      section |-> Absent]

\* cooperationURL: the address of a route.
Address(r) ==
  LET place == IF r.page = "route" /\ r.scope[1] # "plan" THEN "hub" ELSE r.page
      task == r.view = "task"
  IN [place |-> place,
      scope |-> IF place = "hub" THEN Project ELSE r.scope,
      topic |-> IF place # "chat" THEN Absent
                ELSE IF r.conversation = Absent /\ r.view = "topic" THEN r.id
                ELSE r.conversation,
      view |-> IF r.page = "route" \/ r.view \in {"topic", "home"} THEN Absent ELSE r.view,
      item |-> IF place = "route" THEN IF task THEN r.id ELSE Absent
               ELSE IF r.page = "route" \/ r.view = "topic" THEN Absent ELSE r.id,
      context |-> IF r.taskContext # Absent THEN r.taskContext
                  ELSE IF r.page = "chat" /\ r.scope[1] = "task" THEN Blank ELSE Absent,
      section |-> IF task THEN r.section ELSE Absent]

Or(value, default) == IF value = Absent THEN default ELSE value

\* readRoute with parseCooperationRoute: the route of an address.
Read(u) ==
  [page |-> u.place, conversation |-> u.topic, scope |-> u.scope, section |-> u.section,
   view |-> IF u.place = "route" THEN IF u.item = Absent THEN "plan" ELSE "task"
            ELSE Or(u.view, IF u.place = "hub" THEN "plans" ELSE "topic"),
   id |-> Or(u.item, IF u.place = "route" THEN u.scope[2] ELSE u.topic),
   taskContext |-> IF u.context = Blank THEN Absent
                   ELSE IF u.place = "chat" /\ u.scope[1] = "task" THEN Or(u.context, u.scope[2])
                   ELSE u.context]

----------------------------------------------------------------------------
(* The tools beside a discussion.  A tool is the key of its tab.            *)

Tool(view, id, section) == [view |-> view, id |-> id, section |-> section]
Sections == {"overview", "records", "flow"}
AnyTool == {Tool("task", t, s) : t \in Tasks, s \in Sections}
             \cup {Tool("plan", p, Absent) : p \in Plans}
             \cup {Tool(v, Absent, Absent) : v \in {"plans", "resources"}}

\* The tool a route shows, if it shows one.
RouteTool(r) ==
  CASE r.view = "task" -> Tool("task", r.id, Or(r.section, "overview"))
    [] r.view = "plan" -> Tool("plan", r.id, Absent)
    [] r.view \in {"plans", "resources"} -> Tool(r.view, Absent, Absent)
    [] OTHER -> Absent

\* In the scope of a plan the tool of all plans is the one of that plan.
InScope(tool, scope) ==
  IF tool # Absent /\ tool.view = "plans" /\ scope[1] = "plan"
  THEN Tool("plan", scope[2], Absent) ELSE tool

Valid(tool) == /\ tool # Absent
               /\ tool.view = "task" => tool.id \in Tasks
               /\ tool.view = "plan" => tool.id \in Plans

Added(list, x) == IF Contains(list, x) THEN list ELSE Append(list, x)

Incoming(r) == LET tool == InScope(RouteTool(r), r.scope) IN IF Valid(tool) THEN tool ELSE Absent

\* The object of the scope is the first tool, when there is none.
FirstTool(scope) ==
  Tool(scope[1], scope[2], IF scope[1] = "task" THEN "overview" ELSE Absent)

FromRoute(session, r) ==
  IF Incoming(r) # Absent
  THEN [list |-> Added(session.list, Incoming(r)), active |-> Incoming(r)]
  ELSE IF r.view = "workspace" THEN [session EXCEPT !.active = Absent]
  ELSE IF session.list = <<>> /\ r.scope # Project
       THEN [list |-> <<FirstTool(r.scope)>>, active |-> FirstTool(r.scope)]
  ELSE session

\* What is stored is read for the scope the window is in, one tool after the other.
Stored(session, scope) ==
  LET first[n \in 0..Len(session.list)] ==
        IF n = 0 THEN <<>> ELSE Added(first[n - 1], InScope(session.list[n], scope))
  IN [list |-> first[Len(session.list)], active |-> InScope(session.active, scope)]

\* The route names another tool than before.
Signalled(r) == \/ <<r.view, r.id, r.section>> # <<route.view, route.id, route.section>>
                \/ Incoming(r) # Incoming(route)

\* The tab that takes the place of the one at i when it is closed.
Neighbour(list, i) == IF i < Len(list) THEN list[i + 1]
                      ELSE IF i > 1 THEN list[i - 1] ELSE Absent

----------------------------------------------------------------------------
(* The discussions that are open.                                           *)

Tab(topic, scope) == [topic |-> topic, scope |-> scope]
Home == Tab(Absent, Project)
AnyTab == {Home} \cup {Tab(c, s) : c \in Topics, s \in Scopes}

RouteTopic(r) == IF r.view = "topic" /\ r.id # Absent THEN r.id ELSE r.conversation

Current(r) == IF RouteTopic(r) = Absent THEN Home ELSE Tab(RouteTopic(r), r.scope)

\* A discussion is entered into the list once; entered again, it takes the new scope.
Opened(list, tab) ==
  IF \E i \in DOMAIN list : list[i].topic = tab.topic
  THEN [i \in DOMAIN list |-> IF list[i].topic = tab.topic THEN tab ELSE list[i]]
  ELSE Append(list, tab)

\* The overview is in the list at most once.
WithoutHome(list) ==
  IF \E i \in DOMAIN list : list[i].topic = Absent
  THEN RemoveAt(list, CHOOSE i \in DOMAIN list : list[i].topic = Absent) ELSE list

\* The overview has a place in the list only outside every scope, or when it is shown.
Strip(list, r) == Opened(IF r.scope = Project THEN list ELSE WithoutHome(list), Current(r))

----------------------------------------------------------------------------
(* The work a discussion is about: all of it, a task, or a plan.            *)

Whole == <<"topic">>
TaskIn(context) == IF context[1] = "task" THEN context[2] ELSE Absent

EntryContext(r) == IF r.taskContext # Absent THEN InTask(r.taskContext)
                   ELSE IF r.scope # Project THEN r.scope ELSE Whole

\* A mutation for the checks: every entrance gives the context.
InitialContextEntry(held, topic, r) == EntryContext(r)

\* The entrance gives the first context only; a later one cannot replace it.
InitialContext(held, topic, r) == IF held[topic] # Absent THEN held[topic] ELSE EntryContext(r)

Allowed(topic) == {t \in Tasks : \/ t \in Links[topic].tasks
                                 \/ PlanOf[t] # Absent /\ PlanOf[t] \in Links[topic].plans}

----------------------------------------------------------------------------
(* A move comes to rest.                                                    *)

\* pushState: the addresses after the current one are lost.  The model forgets the first ones.
Pushed(es, r) ==
  LET list == Append(SubSeq(es.list, 1, es.at), Address(r))
      kept == IF Len(list) > Remembered THEN Tail(list) ELSE list
  IN [list |-> kept, at |-> Len(kept)]

\* The route r was reached with the history es; list, session and held are what the move left
\* of the tabs, the tools and the contexts.  A discussion that is shown keeps its context, and
\* where the route has another one it goes on to its own.
Rest(r, es, list, session, held) ==
  LET shown == r.page = "chat"
      topic == Current(r).topic
      speaks == shown /\ topic # Absent
      context == InitialContext(held, topic, r)
      final == IF speaks THEN [r EXCEPT !.taskContext = TaskIn(context)] ELSE r
  IN /\ route' = final
     /\ entries' = IF final = r THEN es
                   ELSE Pushed(es, final)
     /\ contexts' = IF speaks THEN [held EXCEPT ![topic] = context] ELSE held
     /\ tabs' = IF shown THEN Strip(list, r) ELSE list
     /\ saved' = IF shown THEN tabs' ELSE saved
     /\ tools' = IF shown THEN session ELSE tools

\* The tools after the route: those that stay beside the discussion follow a route that names
\* another tool, those that are set up again are read first.
Following(session, r) ==
  IF route.page # "chat" THEN FromRoute(Stored(session, r.scope), r)
  ELSE IF Signalled(r) THEN FromRoute(session, r) ELSE session

\* The discussions the next page starts from.
Listed == IF route.page = "chat" THEN tabs ELSE saved

Step == moves > 0 /\ moves' = moves - 1

Push(next, list, session, held) ==
  LET r == Go(next) IN
  /\ Step
  /\ Rest(r, Pushed(entries, r), IF r.page = "chat" THEN list ELSE tabs,
          Following(session, r), held)

Visit(next) == Push(next, Listed, tools, contexts)

----------------------------------------------------------------------------
(* The moves.                                                               *)

\* From the cards and the canvas of the hub and of the route page.
OpenPlan(p) ==
  /\ route.page = "hub"
  /\ Visit([page |-> "route", scope |-> InPlan(p), view |-> "plan", id |-> p,
            section |-> Absent])

OpenOnRoute(t) ==
  /\ route.page = "route" /\ PlanOf[t] = route.scope[2]
  /\ Visit([page |-> "route", scope |-> route.scope, view |-> "task", id |-> t,
            section |-> "overview"])

\* A reference to an object of work: beside the discussion, or on its own page.
OpenObject(kind, id) ==
  /\ route.page = "chat" => <<route.view, route.id>> # <<kind, id>>
  /\ Visit(IF route.page = "chat"
           THEN [view |-> kind, id |-> id,
                 section |-> IF kind = "task" THEN "overview" ELSE Absent]
           ELSE IF kind = "plan"
                THEN [page |-> "route", view |-> "plan", id |-> id, scope |-> InPlan(id)]
                ELSE [page |-> "hub", view |-> "task", id |-> id, scope |-> Project,
                      section |-> "overview"])

DiscussTask(t) == Visit([page |-> "chat", view |-> "task", id |-> t, taskContext |-> t,
                         conversation |-> TaskMain[t], scope |-> InTask(t)])

DiscussPlan(p) == Visit([page |-> "chat", view |-> "plan", id |-> p, taskContext |-> Absent,
                         conversation |-> PlanMain[p], scope |-> InPlan(p)])

Discussions == /\ route.page = "hub"
               /\ Visit([page |-> "chat", view |-> "home", id |-> Absent,
                         conversation |-> Absent, scope |-> Project])

\* The button above the discussions: to the route of the task's plan, or to the hub.
Leave ==
  /\ route.page = "chat"
  /\ LET plan == IF route.scope[1] = "task" THEN PlanOf[route.scope[2]] ELSE Absent IN
     Visit(IF plan # Absent
           THEN [page |-> "route", scope |-> InPlan(plan), view |-> "plan", id |-> plan]
           ELSE [page |-> "hub", view |-> "plans", id |-> Absent, scope |-> Project])

InSidebar(topic) ==
  CASE route.scope[1] = "task" -> route.scope[2] \in Links[topic].tasks
    [] route.scope[1] = "plan" ->
         route.scope[2] \in Links[topic].plans \cup {PlanOf[t] : t \in Links[topic].tasks}
    [] OTHER -> TRUE

PickTopic(topic) ==
  /\ route.page = "chat" /\ InSidebar(topic)
  /\ Visit([page |-> "chat", view |-> "topic", id |-> topic, conversation |-> topic,
            taskContext |-> IF route.scope[1] = "task" THEN route.scope[2] ELSE Absent])

\* A mutation for the checks: a discussion without a tool in its address closes the tools.
DestinationCleared(tab) ==
  LET tool == RouteTool(route) IN
  [page |-> "chat", conversation |-> tab.topic, scope |-> tab.scope,
   view |-> IF tab = Home THEN "home" ELSE IF tool = Absent THEN "workspace" ELSE tool.view,
   id |-> IF tab = Home THEN Absent ELSE IF tool = Absent THEN tab.topic ELSE tool.id,
   section |-> IF tool = Absent THEN Absent ELSE tool.section,
   taskContext |-> IF tab = Home THEN Absent
                   ELSE IF contexts[tab.topic] # Absent THEN TaskIn(contexts[tab.topic])
                   ELSE IF tab.scope[1] = "task" THEN tab.scope[2] ELSE Absent]

\* Where a tab of the bar leads: to its discussion in its scope, beside the tool that is shown.
Destination(tab) ==
  LET tool == RouteTool(route) IN
  IF tab = Home
  THEN [page |-> "chat", view |-> "home", id |-> Absent, conversation |-> Absent,
        scope |-> Project, taskContext |-> Absent]
  ELSE [page |-> "chat", conversation |-> tab.topic, scope |-> tab.scope,
        view |-> IF tool = Absent THEN "topic" ELSE tool.view,
        id |-> IF tool = Absent THEN tab.topic ELSE tool.id,
        section |-> IF tool = Absent THEN Absent ELSE tool.section,
        taskContext |-> IF contexts[tab.topic] # Absent THEN TaskIn(contexts[tab.topic])
                        ELSE IF tab.scope[1] = "task" THEN tab.scope[2] ELSE Absent]

PickTab(i) ==
  /\ route.page = "chat" /\ tabs[i].topic # Current(route).topic
  /\ Visit(Destination(tabs[i]))

\* Closing the discussion that is shown leads to its neighbour, and from the last one to the hub.
CloseTab(i) ==
  /\ route.page = "chat" /\ tabs[i].topic # Absent
  /\ LET rest == RemoveAt(tabs, i)
         shown == tabs[i].topic = Current(route).topic
         next == IF shown THEN Neighbour(tabs, i) ELSE Current(route) IN
     IF next # Absent THEN Push(Destination(next), rest, tools, contexts)
     ELSE LET r == Go([page |-> "hub", view |-> "plans", id |-> Absent, scope |-> Project]) IN
          Step /\ Rest(r, Pushed(entries, r), rest, tools, contexts)

\* The tools that are offered beside a discussion, and those that are open.
ContextTask == IF route.scope[1] = "task" THEN route.scope[2]
               ELSE IF tools.active # Absent /\ tools.active.view = "task" THEN tools.active.id
               ELSE Absent

Offered ==
  LET task == ContextTask
      plan == IF task # Absent THEN PlanOf[task]
              ELSE IF route.scope[1] = "plan" THEN route.scope[2]
              ELSE IF tools.active # Absent /\ tools.active.view = "plan" THEN tools.active.id
              ELSE Absent
  IN {Tool("resources", Absent, Absent)}
     \cup {IF plan = Absent THEN Tool("plans", Absent, Absent) ELSE Tool("plan", plan, Absent)}
     \cup (IF task = Absent THEN {}
           ELSE {Tool("task", task, s) : s \in Sections})

OpenTool(tool) ==
  /\ route.page = "chat" /\ tool \in Offered \cup ToSet(tools.list) /\ tool # tools.active
  /\ LET t == InScope(tool, route.scope) IN
     Push([view |-> t.view, id |-> t.id, section |-> t.section], tabs,
          [list |-> Added(tools.list, t), active |-> t], contexts)

CloseTool(i) ==
  /\ route.page = "chat"
  /\ LET rest == RemoveAt(tools.list, i)
         next == IF tools.active = tools.list[i] THEN Neighbour(tools.list, i)
                 ELSE tools.active IN
     Push(IF next = Absent THEN [view |-> "workspace", id |-> Absent]
          ELSE [view |-> next.view, id |-> next.id, section |-> next.section], tabs,
          [list |-> rest, active |-> next], contexts)

\* The person chooses what the discussion is about; the address follows.
ChooseContext(context) ==
  /\ route.page = "chat"
  /\ LET topic == Current(route).topic IN
     /\ topic # Absent
     /\ context \in {Whole} \cup {InTask(t) : t \in Allowed(topic)}
                            \cup {InPlan(p) : p \in Links[topic].plans}
     /\ context # contexts[topic]
     /\ Step
     /\ Rest(route, entries, tabs, tools, [contexts EXCEPT ![topic] = context])

\* The buttons of the browser: to the address before or after, or to this one once more.
Traverse(n) ==
  /\ entries.at + n \in DOMAIN entries.list
  /\ LET r == Read(entries.list[entries.at + n]) IN
     /\ Step
     /\ Rest(r, [entries EXCEPT !.at = @ + n],
             IF r.page = "chat" THEN Listed ELSE tabs, Following(tools, r), contexts)

Back == Traverse(-1)
Forward == Traverse(1)

Reload ==
  LET r == Read(entries.list[entries.at]) IN
  /\ Step
  /\ Rest(r, entries, IF r.page = "chat" THEN saved ELSE tabs,
          FromRoute(Stored(tools, r.scope), r), contexts)

----------------------------------------------------------------------------

\* The window is opened on the project, in a new session.
Entered ==
  /\ route = Route("hub", "plans", Absent)
  /\ entries = [list |-> <<Address(route)>>, at |-> 1]
  /\ tabs = <<>> /\ saved = <<>> /\ tools = [list |-> <<>>, active |-> Absent]
  /\ contexts = [c \in Topics |-> Absent]

Contexts == {Whole} \cup {InTask(t) : t \in Tasks} \cup {InPlan(p) : p \in Plans}

Moves ==
  \/ \E p \in Plans : OpenPlan(p) \/ DiscussPlan(p) \/ OpenObject("plan", p)
  \/ \E t \in Tasks : OpenOnRoute(t) \/ DiscussTask(t) \/ OpenObject("task", t)
  \/ \E c \in Topics : PickTopic(c)
  \/ \E i \in DOMAIN tabs : PickTab(i) \/ CloseTab(i)
  \/ \E tool \in Offered \cup ToSet(tools.list) : OpenTool(tool)
  \/ \E i \in DOMAIN tools.list : CloseTool(i)
  \/ \E context \in Contexts : ChooseContext(context)
  \/ Discussions \/ Leave \/ Back \/ Forward \/ Reload

----------------------------------------------------------------------------

\* The tool the person sees: the one of the route, or else the selected one.
Chosen == IF RouteTool(route) # Absent THEN RouteTool(route) ELSE tools.active

(* Discussions and tools are independent surfaces: another discussion keeps the selected tool, *)
(* read for its scope, and no tool that is opened or closed changes the discussion or its      *)
(* scope (conversationTabs.ts, useWorkspaceTabs.ts, go).                                        *)
SurfacesIndependent ==
  [][/\ (tools.active # Absent /\ \E i \in DOMAIN tabs : PickTab(i))
          => tools'.active \in {Chosen, InScope(Chosen, route'.scope)}
     /\ (\/ \E tool \in Offered \cup ToSet(tools.list) : OpenTool(tool)
         \/ \E i \in DOMAIN tools.list : CloseTool(i)
         \/ route.page = "chat" /\ \E t \in Tasks : OpenObject("task", t))
          => Current(route') = Current(route)]_window

(* The work a discussion is about changes only by the person's choice, whatever tab, entrance *)
(* or address leads back to it (conversationDraft.ts).                                         *)
ContextKept ==
  [][\A c \in Topics : contexts[c] # Absent /\ contexts'[c] # contexts[c]
       => \E context \in Contexts : ChooseContext(context)]_window

(* A reload shows the same page again: the discussion and its scope, the object, the selected *)
(* tool, the tabs and the work (routing.ts with the stored tabs).                              *)
ReloadKeepsPlace ==
  [][Reload => /\ Current(route') = Current(route) /\ RouteTool(route') = RouteTool(route)
               /\ route'.page = route.page /\ route'.taskContext = route.taskContext
               /\ route.page = "chat" =>
                    tabs' = tabs /\ tools'.active = InScope(tools.active, route.scope)]_window
=============================================================================
