------------------------------- MODULE Window -------------------------------
(***************************************************************************)
(* One browser window of a member: it follows the project and sends         *)
(* commands (ApiClient), and the member moves about in it (Navigation).     *)
(* The routes of Navigation are of a window whose data is loaded, so a      *)
(* scene either has pages that follow the project, or none and a walk.      *)
(***************************************************************************)
EXTENDS ApiClient

CONSTANTS Absent, Tasks, Plans, PlanOf, Topics, TaskMain, PlanMain, Links, Remembered,
          Walk           \* how many moves a walk has

VARIABLES route, entries, tabs, saved, tools, contexts, moves

Pages == INSTANCE Navigation
walk == <<route, entries, tabs, saved, tools, contexts, moves>>

\* The names of the objects are their own, and what is absent is none of the values there are.
ASSUME WindowAssumption ==
  /\ PlanOf \in [Tasks -> Plans \cup {Absent}]
  /\ TaskMain \in [Tasks -> Topics] /\ PlanMain \in [Plans -> Topics]
  /\ Absent \notin Tasks \cup Plans \cup Topics
  /\ Absent \notin Pages!Views \cup Pages!Sections /\ Absent \notin Pages!Contexts
  /\ Absent \notin Pages!AnyTool /\ Absent \notin Pages!AnyTab
  /\ Pages!Blank \notin Tasks \cup {Absent}
  /\ Remembered \in Nat \ {0} /\ Walk \in Nat

Opening == /\ Init /\ Pages!Entered
           /\ moves = IF scene.page = {} THEN Walk ELSE 0

Acting == \/ Next /\ UNCHANGED walk
          \/ Pages!Moves /\ UNCHANGED vars

Window == <<vars, walk>>

WindowSpec == Opening /\ [][Acting]_Window
FairWindowSpec == WindowSpec /\ Fairness

(* Discussions and tools are independent surfaces: another discussion keeps the selected tool, *)
(* and no tool that is opened or closed changes the discussion or its scope                     *)
(* (conversationTabs.ts, useWorkspaceTabs.ts, go).                                              *)
SurfacesIndependent == Pages!SurfacesIndependent

(* The work a discussion is about changes only by the person's choice, whatever tab, entrance *)
(* or address leads back to it (conversationDraft.ts).                                         *)
ContextKept == Pages!ContextKept

(* A reload shows the same page again: the discussion and its scope, the object, the selected *)
(* tool, the tabs and the work (routing.ts with the stored tabs).                              *)
ReloadKeepsPlace == Pages!ReloadKeepsPlace
=============================================================================
