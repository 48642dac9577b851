------------------------------ MODULE ApiCalls ------------------------------
(***************************************************************************)
(* The commands of the web client against the server, features/work/       *)
(* apiActions.ts and its companions: the requests each executor makes, in  *)
(* order, and what each request is based on.  What a request carries       *)
(* besides is left out; so are the reads that only pick a field.           *)
(***************************************************************************)
EXTENDS Sequences

\* A read of the object; Same also refuses when it is no longer the version the page showed.
Read(o) == [do |-> "read", on |-> o]
Same(o) == [do |-> "same", on |-> o]

\* post, put and patch.  An update names the version this command read or was answered last.
Update(o) == [do |-> "update", on |-> o]
\* A decision names the version the person was shown.
Decide(o) == [do |-> "decide", on |-> o]
\* A creation names no version; its body is what the person entered.
Create(o) == [do |-> "create", on |-> o]
\* A creation whose body carries a fresh random id, or goes to a fresh upload.
Anew(o) == [do |-> "anew", on |-> o]

\* uploadFile and uploadEvidence: a session, its parts, and the version they complete.
Upload == <<Anew("material")>>

\* submitAndApprove: propose a change of an object at the version read before, read the draft's
\* hash, submit, and approve the review answered.  With no other seat to decide, the approval
\* applies the change; one of an object changed since leaves it alone, here a conflict.
SubmitAndApprove(o) ==
  <<Create("proposal"), Read("proposal"), Update("proposal"), Update(o)>>

PublishCurrentDraft == <<Read("workflow"), Update("workflow")>>

SubmitProposal == <<Create("proposal"), Read("proposal"), Update("proposal")>>
ReviseProposal == <<Read("proposal"), Update("proposal"), Read("proposal"), Update("proposal")>>
ProposeWorkChange == <<Create("proposal"), Read("proposal"), Update("proposal")>>

\* A decision on the version the page shows, taken without the comparison.
SourceDecisionUnseen == <<Read("source"), Update("source")>>

SourceDecision == <<Same("source"), Update("source")>>
SendSource == <<Read("source"), Read("task"), Update("source")>>
ReviseSource == <<Same("source"), Read("identity"), Read("task"), Update("source")>>
ReviseSourceWithFiles ==
  <<Same("source"), Read("identity"), Read("task")>> \o Upload \o
  <<Update("task"), Update("source")>>
ProposeHandoff == <<Read("task"), Read("task"), Create("handoff")>>
RefreshHandoff == <<Read("handoff"), Update("handoff")>>

StartTask == <<Read("task"), Update("task")>>
ReopenTask == <<Read("task"), Update("task")>>
ReportTask == <<Read("task")>> \o Upload \o <<Update("task")>>
DecideDraft == <<Read("task")>> \o SubmitAndApprove("task")
ActivatePlan == <<Read("plan")>> \o SubmitAndApprove("plan")
ResumePlan == <<Read("plan"), Update("plan")>>

\* With the review frozen when the dialog was opened, and without one.
AcceptTask == <<Decide("task")>>
AcceptPlan == <<Decide("plan")>>
DecideProposal == <<Decide("proposal")>>
DecideProposalUnopened == <<Same("proposal"), Update("proposal")>>

\* recordTaskActivity: reports, and what is said about a task.
RecordReport == Upload \o <<Same("task"), Update("task")>>
RecordReply == Upload \o <<Anew("topic")>>

TopicMessage == <<Anew("topic")>>
SendFirstMessage == <<Create("topic")>>
SendFirstFiles == <<Create("topic")>> \o Upload \o <<Anew("topic")>>
RegisterResource == Upload \o <<Anew("material")>>
DiscussTopic == <<Read("topic"), Create("run")>>

CreateTask == <<Create("task")>>
CreateTaskInPlan == <<Read("plan"), Create("task")>>
CreateFlow == <<Create("workflow")>> \o PublishCurrentDraft
PublishFlow ==
  <<Read("workflow"), Read("workflow"), Update("draft")>> \o PublishCurrentDraft

ChangePosition == <<Read("position"), Update("position")>>
AssignPositions == <<Read("member"), Create("identity"), Create("identity")>>
ReplaceSeat == <<Read("member"), Read("identity"), Update("identity")>>
SetDiscussionLimit == <<Read("project"), Update("project")>>

\* createWork of a plan, createDiscussion, createProject, savePosition, the presets, invitations.
CreatePlan == <<Create("plan")>>
CreateDiscussion == <<Create("topic")>>
CreateProject == <<Create("project")>>
CreatePosition == <<Create("position")>>
ImportPositionPresets == <<Create("position")>>
InvitePerson == <<Create("invitation")>>
AcceptInvite == <<Create("member")>>
PersonalPrompt == <<Decide("preference")>>

\* apiRuntimeActions, apiWorkflowActions, apiCollaborationActions and cooperation/commands.
WorkMutation == <<Decide("task")>>
ImportWorkflowPresets == <<Create("workflow")>>
SaveFlowDraft == <<Decide("draft")>>
PublishFlowDraft == <<Decide("workflow")>>
ForkTopic == <<Create("topic")>>
ResolveSuggestion == <<Decide("suggestion")>>
RetryAnalysis == <<Create("analysis")>>
EnsureTaskMainTopic == <<Create("topic")>>
ReplaceTopicLinks == <<Decide("topic")>>

\* The table apiActions, a row for every way through an executor.
Calls ==
  [topicMessage |-> TopicMessage, sendFirstMessage |-> SendFirstMessage,
   sendFirstFiles |-> SendFirstFiles, createDiscussion |-> CreateDiscussion,
   registerResource |-> RegisterResource, discussTopic |-> DiscussTopic,
   start |-> StartTask, accept |-> AcceptTask, reopen |-> ReopenTask, report |-> ReportTask,
   decideDraft |-> DecideDraft, activate |-> ActivatePlan, acceptPlan |-> AcceptPlan,
   resume |-> ResumePlan, sourceDecision |-> SourceDecision, reviseSource |-> ReviseSource,
   reviseWithFiles |-> ReviseSourceWithFiles, sendSource |-> SendSource,
   proposeHandoff |-> ProposeHandoff, refreshHandoff |-> RefreshHandoff,
   submitProposal |-> SubmitProposal, reviseProposal |-> ReviseProposal,
   decideProposal |-> DecideProposal, decideUnopened |-> DecideProposalUnopened,
   proposeWorkChange |-> ProposeWorkChange, createPlan |-> CreatePlan,
   createTask |-> CreateTask, createTaskInPlan |-> CreateTaskInPlan,
   createProject |-> CreateProject, createFlow |-> CreateFlow, publishFlow |-> PublishFlow,
   savePosition |-> CreatePosition, changePosition |-> ChangePosition,
   importPositionPresets |-> ImportPositionPresets, invitePerson |-> InvitePerson,
   acceptInvite |-> AcceptInvite, assignPositions |-> AssignPositions,
   replaceSeat |-> ReplaceSeat, personalPrompt |-> PersonalPrompt,
   setDiscussionLimit |-> SetDiscussionLimit, workMutation |-> WorkMutation,
   importWorkflowPresets |-> ImportWorkflowPresets, saveFlowDraft |-> SaveFlowDraft,
   publishFlowDraft |-> PublishFlowDraft, forkTopic |-> ForkTopic,
   recordReport |-> RecordReport, recordReply |-> RecordReply,
   resolveSuggestion |-> ResolveSuggestion, retryAnalysis |-> RetryAnalysis,
   ensureTaskMainTopic |-> EnsureTaskMainTopic, replaceTopicLinks |-> ReplaceTopicLinks]

Commands == DOMAIN Calls

\* The commands whose dialog reads a frozen review of its own when it is opened.
Frozen == {"accept", "acceptPlan", "decideProposal"}

\* The object the person judges by what the page or the dialog showed of it.
Judged ==
  [accept |-> "task", acceptPlan |-> "plan", sourceDecision |-> "source",
   reviseSource |-> "source", reviseWithFiles |-> "source", decideProposal |-> "proposal",
   decideUnopened |-> "proposal", personalPrompt |-> "preference", workMutation |-> "task",
   saveFlowDraft |-> "draft", publishFlowDraft |-> "workflow",
   resolveSuggestion |-> "suggestion", replaceTopicLinks |-> "topic", recordReport |-> "task",
   decideDraft |-> "task", activate |-> "plan", start |-> "task", report |-> "task",
   reopen |-> "task", resume |-> "plan", sendSource |-> "source", publishFlow |-> "workflow"]

\* Of these, the commands whose executor reads the object at the click and sends that version,
\* without comparing it with the one the page showed.
ReadAnew == {"decideDraft", "activate", "start", "report", "reopen", "resume", "sendSource",
             "publishFlow"}

\* The commands whose dialog, page or composer is still there after they succeeded, with its
\* button: the invitation shows its link, and may be sent once more.
StaysOpen == {"invitePerson", "retryAnalysis", "decideDraft", "activate", "sendSource",
          "sourceDecision", "decideUnopened", "refreshHandoff", "publishFlow",
          "setDiscussionLimit", "discussTopic", "topicMessage", "sendFirstMessage",
          "sendFirstFiles"}
=============================================================================
