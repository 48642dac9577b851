------------------------------ MODULE MCWindow ------------------------------
(* Small instances of Window: pages that follow the others' changes, every  *)
(* command, sent while its object is changed, and a walk through the pages.  *)
EXTENDS Window

CONSTANTS t1, p1, c0, cp, ct

Scene(c, page, changes, edits, opens, clicks, losses, drops, leaves) ==
  [command |-> c, page |-> {"bootstrap"} \cup page, changes |-> changes, edits |-> edits,
   opens |-> opens, clicks |-> clicks, losses |-> losses, drops |-> drops, leaves |-> leaves]

\* Pages that only follow: two changes of tasks over two breaks, so that the stream is set up
\* again; a library with its previews; and a workflow, whose drafts have no event.
Following ==
  {Scene("createPlan", {"tasks"}, {"task"}, 2, 0, 0, 1, 2, 0),
   Scene("createPlan", {"materials"}, {"material", "preview"}, 2, 0, 0, 0, 1, 0),
   Scene("createPlan", {"workflows"}, {"workflow", "draft"}, 2, 0, 0, 0, 1, 0)}

\* The object a command changes, and the pages that show it.
Subject(c) == IF c \in DOMAIN Judged THEN Judged[c] ELSE Calls[c][Len(Calls[c])].on
PageOf(c) == {q \in DOMAIN Shows : Subject(c) \in Shows[q]}

\* Every judgement that holds to what was shown, while its object is changed once.
Holding == DOMAIN Judged \ ReadAnew
Judging == {Scene(c, PageOf(c), {Subject(c)}, 1, 1, 1, 0, 0, 0) : c \in Holding}

\* Every other command, clicked twice when it is one request, while an answer may be lost; on the
\* page of its object, when the person judges it there.
Approving == {"decideDraft", "activate"}
Working == {Scene(c, IF c \in ReadAnew THEN PageOf(c) ELSE {}, {Subject(c)},
                  IF Len(Calls[c]) = 1 \/ c \in Approving THEN 0 ELSE 1, 1,
                  IF Len(Calls[c]) = 1 THEN 2 ELSE 1,
                  IF c \in ReadAnew THEN 0 ELSE 1, 0, 0) : c \in Commands \ Holding}

\* The session ends while a command is carried out, and begins again; and a dialog is opened again
\* while what was clicked in it before is under way, in the same session or in the next one; and
\* one stays open with its answer, and is used again.
Leaving == {Scene("createTaskInPlan", {}, {}, 0, 1, 2, 1, 0, 1),
            Scene("createTask", {}, {}, 0, 2, 4, 0, 0, 0),
            Scene("createTask", {}, {}, 0, 2, 3, 0, 0, 1),
            Scene("invitePerson", {}, {}, 0, 1, 3, 1, 0, 0),
            Scene("invitePerson", {}, {}, 0, 2, 2, 0, 0, 0)}

\* A walk, between a plan, its only task, their main discussions and a third one.
Walking == {[Scene("createPlan", {}, {}, 0, 0, 0, 0, 0, 0) EXCEPT !.page = {}]}

TaskPlan == [t \in Tasks |-> p1]
MainOfTask == [t \in Tasks |-> ct]
MainOfPlan == [p \in Plans |-> cp]
MainLinks == [c \in Topics |-> [tasks |-> {t \in Tasks : MainOfTask[t] = c},
                                plans |-> {p \in Plans : MainOfPlan[p] = c}]]

MCScenes == Following \cup Judging \cup Working \cup Leaving \cup Walking
=============================================================================
