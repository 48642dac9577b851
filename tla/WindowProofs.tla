-------------------------- MODULE WindowProofs --------------------------
(***************************************************************************)
(* Proofs about one window of a member, for every set of scenes and objects *)
(* and every limit.  About the client: what the stream went past is shown   *)
(* or asked for again, what was decided was compared with what was shown,   *)
(* and one opening of a dialog keeps one key for one request.  About the    *)
(* pages: the route, the history, the tabs, the tools and the work of the   *)
(* discussions belong together after every move.                            *)
(***************************************************************************)
EXTENDS Window, FiniteSetTheorems, WellFoundedInduction, TLAPS

\* The cursor of the stream and the answers of the queries name moments that have been.
Bounded ==
  /\ stream.last = Handlings /\ Handlings <= Now
  /\ \A q \in DOMAIN cache : /\ cache[q].data # None => cache[q].data <= Now
                             /\ cache[q].reply <= Now

\* A change the stream went past is in the answer on its way, or in the one that was shown last.
Told(q, n) == /\ cache[q].flight = "answered" => cache[q].reply >= n
              /\ cache[q].flight = "none" /\ ~cache[q].failed => cache[q].data >= n

FeedInv ==
  /\ Bounded
  /\ \A q \in DOMAIN cache : \A n \in (Gap(q) + 1)..Handlings :
       Changed(q, n) /\ cache[q].data # None => Told(q, n)

\* A run was begun in an opening of the dialog, with what was shown then.
Active(k) == run[k] # Idle

RunInv ==
  /\ dialog.review <= Now /\ dialog.ended <= dialog.count
  /\ dialog.open => session /\ dialog.ended < dialog.count
  /\ \A k \in Slots :
       /\ run[k].seen <= Now
       /\ Active(k) => /\ run[k].intent \in 1..dialog.count
                       /\ run[k].wait # "no" => Step(k).do \in Writes
  /\ \A i \in DOMAIN effects : effects[i].seen <= Now /\ effects[i].intent <= dialog.count

\* The object was compared with what was shown, and nothing was written to it since.
Compared(s, o, i) ==
  \E j \in 1..(i - 1) : /\ s[j].do = "same" /\ s[j].on = o
                        /\ \A m \in (j + 1)..(i - 1) : s[m].on \notin Family(o)

KnowsInv ==
  \A k \in Slots : \A o \in Objects :
    Compared(Script, o, run[k].at) =>
      o \in DOMAIN run[k].got /\ run[k].got[o] = Version(o, run[k].seen)

\* One request has one key at a time; the runs of one opening share it, and once it is answered
\* whoever clicks in that opening gets it again.
Single == Len(Script) = 1 /\ Script[1].do = "create"
Request == [at |-> 1, basis |-> 0, salt |-> 0]

OneKey ==
  /\ \A p, q \in pending : p.sig = Request /\ p.key = q.key
  /\ \A k \in Slots : Active(k) => run[k].sig = Request /\ run[k].wait # "conflict"

OpeningsKey ==
  /\ \A k, l \in Slots :
       Active(k) /\ Active(l) /\ run[k].intent = run[l].intent /\ run[k].intent \notin dialog.late
         => run[k].key = run[l].key
  /\ \A k \in Slots :
       Active(k) /\ dialog.open /\ run[k].intent = dialog.count /\ run[k].intent \notin dialog.late
         => \E p \in pending : p.key = run[k].key

EffectsKey ==
  \A i \in DOMAIN effects : effects[i].intent \notin dialog.late =>
    /\ \A k \in Slots :
         Active(k) /\ run[k].intent = effects[i].intent => run[k].key \in DOMAIN answered
    /\ dialog.open /\ effects[i].intent = dialog.count
         => \E p \in pending : p.key \in DOMAIN answered

KeysInv == Single => OneKey /\ OpeningsKey /\ EffectsKey

IInv == TypeOK /\ FeedInv /\ RunInv /\ KnowsInv /\ DecidedAsShown /\ KeysInv /\ CreatedOnce

----------------------------------------------------------------------------
(* The table of commands: every script ends with a write, and one that     *)
(* updates what was judged compares it with what was shown first.           *)

Things == {"task", "plan", "source", "handoff", "proposal", "workflow", "draft", "material",
           "topic", "identity", "position", "member", "project", "preference", "suggestion", "run",
           "analysis", "invitation"}
Requests == [do : {"read", "same"} \cup Writes, on : Things]
Scripts == {s \in Seq(Requests) : Len(s) > 0 /\ s[Len(s)].do \in Writes}

LEMMA Builders ==
  ASSUME NEW o \in Things
  PROVE /\ Read(o) \in Requests /\ Same(o) \in Requests
        /\ \A q \in {Update(o), Decide(o), Create(o), Anew(o)} : q \in Requests /\ q.do \in Writes
BY DEF Read, Same, Update, Decide, Create, Anew, Requests, Writes

LEMMA Joined ==
  ASSUME NEW s \in Seq(Requests), NEW u \in Scripts
  PROVE s \o u \in Scripts
<1>1. /\ u \in Seq(Requests) /\ Len(s) \in Nat /\ Len(u) \in Nat /\ Len(u) > 0
      /\ u[Len(u)].do \in Writes
  BY DEF Scripts
<1>2. s \o u \in Seq(Requests) /\ Len(s \o u) = Len(s) + Len(u)
  BY <1>1
<1>3. (s \o u)[Len(s \o u)] = u[Len(u)]
  BY <1>1, <1>2
<1>4. \A v \in Seq(Requests) : Len(v) > 0 /\ v[Len(v)].do \in Writes => v \in Scripts
  BY DEF Scripts
<1>. DEFINE v == s \o u
<1>5. v \in Seq(Requests) /\ Len(v) > 0 /\ v[Len(v)].do \in Writes
  BY <1>1, <1>2, <1>3
<1>. HIDE DEF v
<1>6. v \in Scripts
  BY <1>4, <1>5
<1>. QED BY <1>6 DEF v

LEMMA OneStep == ASSUME NEW a \in Requests, a.do \in Writes PROVE <<a>> \in Scripts
BY DEF Scripts

LEMMA TwoSteps ==
  ASSUME NEW a \in Requests, NEW b \in Requests, b.do \in Writes PROVE <<a, b>> \in Scripts
BY DEF Scripts

LEMMA TableOK == \A c \in Commands : Calls[c] \in Scripts
<1>1. {AcceptTask, AcceptPlan, DecideProposal, TopicMessage, SendFirstMessage, CreateTask,
     CreatePlan, CreateDiscussion, CreateProject, CreatePosition, ImportPositionPresets,
     InvitePerson, AcceptInvite, PersonalPrompt, WorkMutation, ImportWorkflowPresets,
     SaveFlowDraft, PublishFlowDraft, ForkTopic, ResolveSuggestion, RetryAnalysis,
     EnsureTaskMainTopic, ReplaceTopicLinks, Upload} \subseteq Scripts
  BY OneStep, Builders DEF Things, AcceptTask, AcceptPlan, DecideProposal, TopicMessage,
      SendFirstMessage, CreateTask, CreatePlan, CreateDiscussion, CreateProject, CreatePosition,
      ImportPositionPresets, InvitePerson, AcceptInvite, PersonalPrompt, WorkMutation,
      ImportWorkflowPresets, SaveFlowDraft, PublishFlowDraft, ForkTopic, ResolveSuggestion,
      RetryAnalysis, EnsureTaskMainTopic, ReplaceTopicLinks, Upload
<1>2. {SourceDecision, RefreshHandoff, StartTask, ReopenTask, ResumePlan, DecideProposalUnopened,
     DiscussTopic, CreateTaskInPlan, ChangePosition, SetDiscussionLimit,
     PublishCurrentDraft} \subseteq Scripts
  BY TwoSteps, Builders DEF Things, SourceDecision, RefreshHandoff, StartTask, ReopenTask,
      ResumePlan, DecideProposalUnopened, DiscussTopic, CreateTaskInPlan, ChangePosition,
      SetDiscussionLimit, PublishCurrentDraft
<1>3. {SubmitProposal, ProposeWorkChange, SendSource, ProposeHandoff, AssignPositions,
     ReplaceSeat, ReviseProposal, ReviseSource, SubmitAndApprove("task"),
     SubmitAndApprove("plan")} \subseteq Scripts
  BY Builders DEF Scripts, Things, SubmitProposal, ProposeWorkChange, SendSource, ProposeHandoff,
      AssignPositions, ReplaceSeat, ReviseProposal, ReviseSource, SubmitAndApprove
<1>4. {ReviseSourceWithFiles, ReportTask, DecideDraft, ActivatePlan, RecordReport, RecordReply,
     SendFirstFiles, RegisterResource, CreateFlow, PublishFlow} \subseteq Scripts
  <2>1. /\ <<Create("topic")>> \in Seq(Requests) /\ <<Create("workflow")>> \in Seq(Requests)
        /\ <<Read("task")>> \in Seq(Requests) /\ <<Read("plan")>> \in Seq(Requests)
        /\ <<Same("source"), Read("identity"), Read("task")>> \in Seq(Requests)
        /\ <<Read("workflow"), Read("workflow"), Update("draft")>> \in Seq(Requests)
    BY Builders DEF Things
  <2>2. /\ <<Update("task")>> \in Scripts /\ <<Anew("topic")>> \in Scripts
        /\ <<Anew("material")>> \in Scripts
        /\ <<Update("task"), Update("source")>> \in Scripts
        /\ <<Same("task"), Update("task")>> \in Scripts
    BY Builders, OneStep, TwoSteps DEF Things
  <2>3. Upload \in Seq(Requests)
    BY <1>1 DEF Scripts
  <2>4. <<Create("topic")>> \o Upload \in Seq(Requests)
        /\ <<Same("source"), Read("identity"), Read("task")>> \o Upload \in Seq(Requests)
        /\ <<Read("task")>> \o Upload \in Seq(Requests)
    BY <2>1, <2>3
  <2>. QED BY <1>1, <1>2, <1>3, <2>1, <2>2, <2>3, <2>4, Joined DEF ReviseSourceWithFiles,
      ReportTask, DecideDraft, ActivatePlan, RecordReport, RecordReply, SendFirstFiles,
      RegisterResource, CreateFlow, PublishFlow
<1>. QED BY <1>1, <1>2, <1>3, <1>4 DEF Commands, Calls

\* The update of what was judged follows a comparison with what was shown, with nothing between
\* them that could change what is known of it.
LEMMA UpdatesCompare ==
  ASSUME NEW c \in DOMAIN Judged \ ReadAnew, NEW i \in 1..Len(Calls[c]),
         Calls[c][i].do = "update", Calls[c][i].on = Judged[c]
  PROVE  Compared(Calls[c], Judged[c], i)
<1>. DEFINE comparing == {"sourceDecision", "reviseSource", "reviseWithFiles", "decideUnopened",
                          "recordReport"}
<1>2. CASE c = "sourceDecision"
  <2>1. Calls[c] = <<Same("source"), Update("source")>> /\ Judged[c] = "source"
    BY <1>2 DEF Calls, Judged, SourceDecision
  <2>. QED BY <2>1 DEF Compared, Same, Update
<1>3. CASE c = "decideUnopened"
  <2>1. Calls[c] = <<Same("proposal"), Update("proposal")>> /\ Judged[c] = "proposal"
    BY <1>3 DEF Calls, Judged, DecideProposalUnopened
  <2>. QED BY <2>1 DEF Compared, Same, Update
<1>4. CASE c = "recordReport"
  <2>1. Calls[c] = <<Anew("material")>> \o <<Same("task"), Update("task")>> /\ Judged[c] = "task"
    BY <1>4 DEF Calls, Judged, RecordReport, Upload
  <2>2. /\ Len(Calls[c]) = 3 /\ Calls[c][1] = Anew("material")
        /\ Calls[c][2] = Same("task") /\ Calls[c][3] = Update("task")
    BY <2>1
  <2>3. i = 3
    BY <2>1, <2>2 DEF Same, Anew
  <2>. QED BY <2>1, <2>2, <2>3 DEF Compared, Same
<1>5. CASE c = "reviseSource"
  <2>1. Calls[c] = <<Same("source"), Read("identity"), Read("task"), Update("source")>> /\ Judged[c] = "source"
    BY <1>5 DEF Calls, Judged, ReviseSource
  <2>2. i \in 1..4 /\ Calls[c][1].do = "same" /\ Calls[c][2].do = "read" /\ Calls[c][3].do = "read"
    BY <2>1 DEF Same, Read
  <2>0. i = 4
    BY <2>2
  <2>3. \A m \in 2..3 : Calls[c][m].on \notin Family("source")
    BY <2>1 DEF Read, Family
  <2>. QED BY <2>1, <2>0, <2>3 DEF Compared, Same
<1>6. CASE c = "reviseWithFiles"
  <2>. DEFINE look == <<Same("source"), Read("identity"), Read("task")>>
              send == <<Update("task"), Update("source")>>
  <2>1. Calls[c] = look \o <<Anew("material")>> \o send /\ Judged[c] = "source"
    BY <1>6 DEF Calls, Judged, ReviseSourceWithFiles, Upload
  <2>2. /\ Len(Calls[c]) = 6 /\ Calls[c][1] = Same("source") /\ Calls[c][2] = Read("identity")
        /\ Calls[c][3] = Read("task") /\ Calls[c][4] = Anew("material") /\ Calls[c][5] = Update("task")
    BY <2>1
  <2>3. i = 6
    BY <2>1, <2>2 DEF Same, Read, Anew, Update
  <2>4. \A m \in 2..5 : Calls[c][m].on \notin Family("source")
    BY <2>2 DEF Read, Anew, Update, Family
  <2>. QED BY <2>1, <2>2, <2>3, <2>4 DEF Compared, Same
<1>7. ASSUME c \notin comparing PROVE FALSE
  <2>1. Calls[c] \in {AcceptTask, AcceptPlan, DecideProposal, PersonalPrompt, WorkMutation,
                      SaveFlowDraft, PublishFlowDraft, ResolveSuggestion, ReplaceTopicLinks}
    BY <1>7 DEF Calls, Judged, ReadAnew
  <2>2. Len(Calls[c]) = 1 /\ Calls[c][1].do = "decide"
    BY <2>1 DEF Decide, AcceptTask, AcceptPlan, DecideProposal, PersonalPrompt, WorkMutation,
        SaveFlowDraft, PublishFlowDraft, ResolveSuggestion, ReplaceTopicLinks
  <2>. QED BY <2>2
<1>. QED BY <1>2, <1>3, <1>4, <1>5, <1>6, <1>7
----------------------------------------------------------------------------
(* The type invariant.                                                     *)

LEMMA ScriptOK ==
  ASSUME TypeOK
  PROVE  /\ Script \in Seq(Requests) /\ Len(Script) > 0 /\ Script[Len(Script)].do \in Writes
         /\ \A i \in DOMAIN Script : Script[i] \in Requests /\ Script[i].on \in Objects
<1>1. scene.command \in Commands
  BY SceneAssumption DEF TypeOK
<1>2. Script \in Scripts
  BY <1>1, TableOK DEF Script
<1>3. Script \in Seq(Requests) /\ Len(Script) > 0 /\ Script[Len(Script)].do \in Writes
  BY <1>2 DEF Scripts
<1>4. \A i \in DOMAIN Script : Script[i] \in Requests
  BY <1>3
<1>5. \A i \in DOMAIN Script : Script[i].on \in Objects
  <2>. DEFINE S == {Script[i].on : i \in DOMAIN Script}
  <2>1. S \in {{Calls[c][i].on : i \in DOMAIN Calls[c]} : c \in Commands}
    BY <1>1 DEF Script
  <2>2. S \subseteq Objects
    BY <2>1 DEF Objects
  <2>. QED BY <2>2
<1>. QED BY <1>3, <1>4, <1>5

LEMMA VersionType ==
  ASSUME NEW o, NEW at \in Nat PROVE Version(o, at) \in Nat
<1>. DEFINE S == {n \in 1..at : log[n] \in Family(o)}
<1>1. IsFiniteSet(S)
  <2>1. IsFiniteSet(1..at)
    BY FS_Interval
  <2>2. S \in SUBSET (1..at)
    OBVIOUS
  <2>. HIDE DEF S
  <2>. QED BY <2>1, <2>2, FS_Subset
<1>2. Cardinality(S) \in Nat
  BY <1>1, FS_CardinalityType
<1>. QED BY <1>2 DEF Version

LEMMA QueryRowTypes ==
  ASSUME NEW x \in QueryRows
  PROVE  /\ x.data \in Nat \cup {None} /\ x.reply \in Nat /\ x.failed \in BOOLEAN
         /\ x.flight \in {"none", "asked", "answered"}
         /\ Asked(x) \in QueryRows /\ Asked(x).flight = "asked"
         /\ Asked(x).data = x.data /\ Asked(x).reply = x.reply /\ Asked(x).failed = x.failed
         /\ NoQuery \in QueryRows /\ Asked(NoQuery) \in QueryRows
BY DEF QueryRows, Asked, NoQuery

LEMMA QueryType ==
  ASSUME TypeOK, NEW q \in DOMAIN cache PROVE cache[q] \in QueryRows
BY DEF TypeOK

LEMMA InvalidatedRows ==
  ASSUME TypeOK, NEW qs
  PROVE  /\ Invalidated(qs) \in [DOMAIN cache -> QueryRows] /\ DOMAIN Invalidated(qs) = DOMAIN cache
         /\ \A q \in DOMAIN cache :
              \/ Invalidated(qs)[q] = Asked(cache[q])
              \/ /\ Invalidated(qs)[q] = cache[q]
                 /\ ~(q \in qs /\ (cache[q].data # None \/ cache[q].flight = "none"))
BY QueryType, QueryRowTypes DEF Invalidated

LEMMA KeyForHeld ==
  ASSUME NEW sig, NEW held
  PROVE  \/ \E p \in held : p.sig = sig /\ KeyFor(sig, held) = p.key
         \/ (\A p \in held : p.sig # sig) /\ KeyFor(sig, held) = keys + 1
<1>1. CASE \E p \in held : p.sig = sig
  <2>. DEFINE c == CHOOSE p \in held : p.sig = sig
  <2>1. c \in held /\ c.sig = sig
    BY <1>1
  <2>. QED BY <1>1, <2>1 DEF KeyFor
<1>2. CASE \A p \in held : p.sig # sig
  BY <1>2 DEF KeyFor
<1>. QED BY <1>1, <1>2

\* What can be said of the executions, before and after a step.
Runs == run = [k \in Slots |-> run[k]] /\ \A k \in Slots : Execution(run[k])
Placed == \A k \in Slots : run[k] # Idle => run[k].at \in DOMAIN Script
Kept == \A p \in pending : p = [sig |-> p.sig, key |-> p.key] /\ p.key \in Nat

LEMMA IdleType == Execution(Idle)
BY DEF Execution, Idle

LEMMA StopType ==
  ASSUME TypeOK, NEW k \in Slots, Stop(k)
  PROVE  /\ Runs' /\ run'[k] = Idle /\ \A l \in Slots : l # k => run'[l] = run[l]
         /\ scene' = scene => Placed'
BY IdleType DEF TypeOK, Stop, Runs, Placed, Script

LEMMA ReplyType ==
  ASSUME TypeOK, NEW k \in Slots, NEW wait \in {"no", "done", "conflict"}, NEW v \in Nat,
         Reply(k, wait, v), run[k] # Idle
  PROVE  /\ Runs' /\ (scene' = scene => Placed')
         /\ \A l \in Slots : l # k => run'[l] = run[l]
         /\ run'[k].at = run[k].at /\ run'[k].intent = run[k].intent /\ run'[k].got = run[k].got
         /\ run'[k].seen = run[k].seen /\ run'[k].sig = run[k].sig /\ run'[k].key = run[k].key
         /\ run'[k].wait = wait
<1>1. PICK x : x = [run[k] EXCEPT !.wait = wait, !.reply = v]
  OBVIOUS
<1>2. PICK r : r = run[k]
  OBVIOUS
<1>3. Execution(r) /\ x = [r EXCEPT !.wait = wait, !.reply = v]
  BY <1>1, <1>2 DEF TypeOK
<1>4. Execution(x) /\ x.at = r.at /\ x.intent = r.intent /\ x.got = r.got
      /\ x.seen = r.seen /\ x.sig = r.sig /\ x.key = r.key /\ x.wait = wait
  <2>1. x = [at |-> r.at, intent |-> r.intent, got |-> r.got, seen |-> r.seen, sig |-> r.sig,
             key |-> r.key, wait |-> wait, reply |-> v]
    BY <1>3 DEF Execution
  <2>. QED BY <1>3, <2>1 DEF Execution
<1>5. run' = [run EXCEPT ![k] = x]
  BY <1>1 DEF Reply, TypeOK
<1>6. run'[k] = x /\ (\A l \in Slots : l # k => run'[l] = run[l]) /\ Runs'
  BY <1>4, <1>5 DEF TypeOK, Runs
<1>7. scene' = scene => Placed'
  BY <1>2, <1>4, <1>6 DEF TypeOK, Placed, Script
<1>. QED BY <1>2, <1>4, <1>6, <1>7

LEMMA GoesOnType ==
  ASSUME TypeOK, NEW k \in Slots, NEW r, NEW held, Execution(r),
         \A p \in held : p = [sig |-> p.sig, key |-> p.key] /\ p.key \in Nat,
         GoesOn(k, r, held), r.at \in DOMAIN Script
  PROVE  /\ Runs' /\ Kept' /\ keys' \in Nat /\ (scene' = scene => Placed')
         /\ \A l \in Slots : l # k => run'[l] = run[l]
         /\ run'[k].at = r.at /\ run'[k].intent = r.intent /\ run'[k].got = r.got
         /\ run'[k].seen = r.seen /\ run'[k].wait = r.wait
         /\ Script[r.at].do \in Writes =>
              LET sig == Signature(r)
                  key == KeyFor(sig, held) IN
              /\ run'[k].sig = sig /\ run'[k].key = key
              /\ pending' = held \cup {[sig |-> sig, key |-> key]}
         /\ Script[r.at].do \notin Writes => pending' = held
<1>. DEFINE sig == Signature(r)
            key == KeyFor(sig, held)
            x == IF Script[r.at].do \in Writes THEN [r EXCEPT !.sig = sig, !.key = key] ELSE r
<1>1. key \in Nat
  <2>1. keys \in Nat
    BY DEF TypeOK
  <2>. QED BY <2>1, KeyForHeld
<1>2. run' = [run EXCEPT ![k] = x]
  BY DEF GoesOn
<1>3. /\ Script[r.at].do \in Writes => /\ pending' = held \cup {[sig |-> sig, key |-> key]}
                                       /\ keys' = IF key > keys THEN key ELSE keys
      /\ Script[r.at].do \notin Writes => pending' = held /\ keys' = keys
  BY DEF GoesOn
<1>. HIDE DEF sig, key
<1>4. \/ x = r /\ Script[r.at].do \notin Writes
      \/ /\ Script[r.at].do \in Writes
         /\ x = [at |-> r.at, intent |-> r.intent, got |-> r.got, seen |-> r.seen, sig |-> sig,
                 key |-> key, wait |-> r.wait, reply |-> r.reply]
  BY DEF Execution
<1>. HIDE DEF x
<1>5. Execution(x)
  BY <1>1, <1>4 DEF Execution
<1>6. run'[k] = x /\ (\A l \in Slots : l # k => run'[l] = run[l]) /\ Runs'
  BY <1>2, <1>5 DEF TypeOK, Runs
<1>7. Kept' /\ keys' \in Nat
  BY <1>1, <1>3 DEF Kept, TypeOK
<1>8. scene' = scene => Placed'
  BY <1>4, <1>6 DEF TypeOK, Placed, Script
<1>. QED BY <1>3, <1>4, <1>6, <1>7, <1>8 DEF sig, key

LEMMA TypeInit == Init => TypeOK
<1>. SUFFICES ASSUME Init PROVE TypeOK
  OBVIOUS
<1>1. scene \in Scenes /\ left \in [Bounds -> Nat]
  BY SceneAssumption DEF Init
<1>2. log \in Seq(Objects) /\ answered \in [DOMAIN answered -> Nat] /\ effects \in Seq(Effects)
  BY DEF Init
<1>3. /\ session \in BOOLEAN /\ DOMAIN cache = (IF session THEN scene.page ELSE {})
      /\ cache \in [DOMAIN cache -> QueryRows] /\ stream \in Streams
  BY DEF Init, Mounted, QueryRows, Asked, NoQuery, Streams, Subscribed, NoStream
<1>4. skipped \in Nat /\ passed \in [scene.page -> Nat] /\ dialog \in Dialogs
  BY DEF Init, Dialogs
<1>5. run = [k \in Slots |-> run[k]] /\ \A k \in Slots : Execution(run[k]) /\ run[k] = Idle
  BY IdleType DEF Init
<1>. QED BY <1>1, <1>2, <1>3, <1>4, <1>5 DEF Init, TypeOK

LEMMA UseType ==
  ASSUME TypeOK, NEW b \in Bounds, Use(b) PROVE left' \in [Bounds -> Nat]
<1>1. PICK n \in Nat : n = left[b] - 1
  BY DEF TypeOK, Use
<1>2. left' = [left EXCEPT ![b] = n]
  BY <1>1 DEF Use
<1>. QED BY <1>2 DEF TypeOK

LEMMA NowType == ASSUME TypeOK PROVE Now \in Nat
BY DEF TypeOK, Now

LEMMA StreamTypes ==
  ASSUME NEW s \in Streams, NEW c \in Nat \cup {None}
  PROVE  /\ Subscribed(s, c) \in Streams /\ Failed(s) \in Streams
         /\ Subscribed(s, c).cursor = c /\ Subscribed(s, c).last = IF c = None THEN 0 ELSE c
         /\ Failed(s).cursor = s.cursor /\ Failed(s).last = s.last
<1>1. Subscribed(s, c) \in Streams /\ Subscribed(s, c).cursor = c
      /\ Subscribed(s, c).last = IF c = None THEN 0 ELSE c
  BY DEF Streams, Subscribed
<1>2. Failed(s) \in Streams /\ Failed(s).cursor = s.cursor /\ Failed(s).last = s.last
  <2>1. PICK n \in Nat : n = s.failures + 1
    BY DEF Streams
  <2>2. \/ Failed(s) = [s EXCEPT !.state = "recovering", !.failures = 0]
        \/ Failed(s) = [s EXCEPT !.failures = n]
    BY <2>1 DEF Failed
  <2>3. PICK x : x = Failed(s)
    OBVIOUS
  <2>4. CASE x = [s EXCEPT !.state = "recovering", !.failures = 0]
    <3>1. x \in Streams /\ x.cursor = s.cursor /\ x.last = s.last
      BY <2>4 DEF Streams
    <3>. QED BY <3>1, <2>3
  <2>5. CASE x = [s EXCEPT !.failures = n]
    <3>1. x \in Streams /\ x.cursor = s.cursor /\ x.last = s.last
      BY <2>5 DEF Streams
    <3>. QED BY <3>1, <2>3
  <2>. QED BY <2>2, <2>3, <2>4, <2>5
<1>. QED BY <1>1, <1>2

LEMMA FeedTypes ==
  ASSUME TypeOK, Feed
  PROVE  TypeOK'
<1>. USE DEF server, person, Script
<1>0. stream \in Streams /\ stream.cursor \in Nat \cup {None} /\ stream.last \in Nat /\ Now \in Nat
  BY NowType DEF TypeOK, Streams
<1>1. ASSUME NEW q \in DOMAIN cache, Serve(q) PROVE TypeOK'
  <2>1. cache' \in [DOMAIN cache -> QueryRows]
    BY <1>1, <1>0, QueryType DEF Serve, QueryRows
  <2>. QED BY <1>1, <2>1 DEF Serve, TypeOK
<1>2. ASSUME NEW q \in DOMAIN cache, Arrive(q) PROVE TypeOK'
  <2>1. cache[q] \in QueryRows /\ cache[q].reply \in Nat
    BY QueryType DEF QueryRows
  <2>2. cache' \in [DOMAIN cache -> QueryRows]
    BY <1>2, <2>1 DEF Arrive, QueryRows, NoQuery, TypeOK
  <2>3. CursorFrom(cache[q].reply) \in Nat /\ CursorFrom(0) \in Nat
    BY <1>0, <2>1 DEF CursorFrom
  <2>4. stream' \in Streams
    BY <1>2, <1>0, <2>3, StreamTypes DEF Arrive
  <2>5. skipped' \in Nat /\ passed' \in [scene.page -> Nat]
    BY <1>2, <2>1, <2>3 DEF Arrive, TypeOK
  <2>. QED BY <1>2, <2>2, <2>4, <2>5 DEF Arrive, TypeOK
<1>3. ASSUME NEW q \in DOMAIN cache, FetchFails(q) PROVE TypeOK'
  <2>1. cache' \in [DOMAIN cache -> QueryRows]
    BY <1>3, QueryType DEF FetchFails, QueryRows
  <2>. QED BY <1>3, <2>1, UseType DEF Bounds, FetchFails, TypeOK
<1>4. CASE Retry
  BY <1>4, InvalidatedRows DEF Retry, TypeOK
<1>5. CASE Connect
  <2>1. stream' \in Streams
    BY <1>5, <1>0 DEF Connect, Streams
  <2>. QED BY <1>5, <2>1 DEF Connect, TypeOK
<1>6. CASE Drop
  <2>1. [stream EXCEPT !.state = "connecting"] \in Streams
    BY <1>0 DEF Streams
  <2>2. stream' \in Streams
    BY <1>6, <2>1, StreamTypes DEF Drop
  <2>. QED BY <1>6, <2>2, UseType DEF Bounds, Drop, TypeOK
<1>7. CASE Refuse
  <2>1. [stream EXCEPT !.state = "closed"] \in Streams
    BY <1>0 DEF Streams
  <2>2. stream' \in Streams
    BY <1>7, <2>1, StreamTypes DEF Refuse
  <2>. QED BY <1>7, <2>2, UseType DEF Bounds, Refuse, TypeOK
<1>8. CASE RecoverFails
  <2>1. stream' \in Streams
    BY <1>8, <1>0, StreamTypes DEF RecoverFails
  <2>. QED BY <1>8, <2>1, UseType DEF Bounds, RecoverFails, TypeOK
<1>9. ASSUME NEW n \in 1..Now, Deliver(n) PROVE TypeOK'
  <2>1. stream' = [stream EXCEPT !.last = n, !.cursor = n, !.failures = 0] /\ n \in Nat
    BY <1>9, <1>0 DEF Deliver, Handled
  <2>2. stream' \in Streams
    BY <2>1, <1>0 DEF Streams
  <2>. QED BY <1>9, <2>2, InvalidatedRows DEF Deliver, TypeOK
<1>10. ASSUME NEW at \in 0..Now, Recover(at) PROVE TypeOK'
  <2>1. stream' \in Streams
    BY <1>10, <1>0, StreamTypes DEF Recover
  <2>. QED BY <1>10, <2>1, InvalidatedRows DEF Recover, TypeOK
<1>. QED BY <1>1, <1>2, <1>3, <1>4, <1>5, <1>6, <1>7, <1>8, <1>9, <1>10 DEF Feed

LEMMA KnownKeys ==
  ASSUME TypeOK, NEW k \in Slots
  PROVE  /\ \A p \in pending : p = [sig |-> p.sig, key |-> p.key] /\ p.key \in Nat
         /\ \A p \in Answered(k) : p = [sig |-> p.sig, key |-> p.key] /\ p.key \in Nat
BY DEF TypeOK, Answered

LEMMA LookNext ==
  ASSUME TypeOK, NEW k \in Slots, Look(k)
  PROVE  \E r : /\ GoesOn(k, r, pending) /\ Execution(r) /\ r.at \in DOMAIN Script
                /\ r.at = run[k].at + 1 /\ r.intent = run[k].intent /\ r.seen = run[k].seen
                /\ r.got = Known(run[k], Step(k).on, Version(Step(k).on, Now)) /\ r.wait = run[k].wait
<1>1. PICK e, got : e = run[k] /\ got = Known(run[k], Step(k).on, Version(Step(k).on, Now))
  OBVIOUS
<1>2. PICK r : /\ r = [e EXCEPT !.at = @ + 1, !.got = got]
               /\ GoesOn(k, r, pending)
  BY <1>1 DEF Look
<1>3. Execution(e) /\ (e # Idle => e.at \in DOMAIN Script)
  BY <1>1 DEF TypeOK
<1>4. r = [at |-> e.at + 1, intent |-> e.intent, got |-> got, seen |-> e.seen, sig |-> e.sig,
         key |-> e.key, wait |-> e.wait, reply |-> e.reply]
  BY <1>2, <1>3 DEF Execution
<1>5. Execution(r) /\ r.at = e.at + 1 /\ r.intent = e.intent /\ r.seen = e.seen /\ r.got = got
      /\ r.wait = e.wait
  BY <1>3, <1>4 DEF Execution
<1>6. /\ Script \in Seq(Requests) /\ Len(Script) \in Nat /\ Len(Script) > 0
      /\ Script[Len(Script)].do \in Writes /\ DOMAIN Script = 1..Len(Script)
  BY ScriptOK
<1>7. e.at \in 1..Len(Script) /\ e.at # Len(Script)
  BY <1>1, <1>3, <1>6 DEF Look, Writing, Step
<1>8. r.at \in DOMAIN Script
  BY <1>5, <1>6, <1>7
<1>. QED BY <1>1, <1>2, <1>5, <1>8

LEMMA ReceiveNext ==
  ASSUME TypeOK, NEW k \in Slots, Receive(k), run[k].at < Len(Script)
  PROVE  \E r : /\ GoesOn(k, r, Answered(k)) /\ Execution(r) /\ r.at \in DOMAIN Script
                /\ r.at = run[k].at + 1 /\ r.intent = run[k].intent /\ r.seen = run[k].seen
                /\ r.got = Known(run[k], Step(k).on, run[k].reply) /\ r.wait = "no"
<1>1. PICK e, got : e = run[k] /\ got = Known(run[k], Step(k).on, run[k].reply)
  OBVIOUS
<1>2. PICK r : /\ r = [e EXCEPT !.at = @ + 1, !.wait = "no", !.reply = 0, !.sig = None,
                         !.key = 0, !.got = got]
               /\ GoesOn(k, r, Answered(k))
  BY <1>1 DEF Receive
<1>3. Execution(e) /\ (e # Idle => e.at \in DOMAIN Script)
  BY <1>1 DEF TypeOK
<1>4. r = [at |-> e.at + 1, intent |-> e.intent, got |-> got, seen |-> e.seen, sig |-> None,
         key |-> 0, wait |-> "no", reply |-> 0]
  BY <1>2, <1>3 DEF Execution
<1>5. Execution(r) /\ r.at = e.at + 1 /\ r.intent = e.intent /\ r.seen = e.seen /\ r.got = got
      /\ r.wait = "no"
  BY <1>3, <1>4 DEF Execution
<1>6. /\ Script \in Seq(Requests) /\ Len(Script) \in Nat /\ Len(Script) > 0
      /\ Script[Len(Script)].do \in Writes /\ DOMAIN Script = 1..Len(Script)
  BY ScriptOK
<1>7. e.at \in Nat
  BY <1>3 DEF Execution
<1>8. r.at \in DOMAIN Script
  BY <1>1, <1>5, <1>6, <1>7
<1>. QED BY <1>1, <1>2, <1>5, <1>8

LEMMA CommandTypes ==
  ASSUME TypeOK, Command
  PROVE  TypeOK'
<1>. USE DEF server, feed
<1>0. Now \in Nat /\ keys \in Nat /\ dialog \in Dialogs /\ dialog.count \in Nat
  BY NowType DEF TypeOK, Dialogs
<1>r. \A k \in Slots : Execution(run[k])
  BY DEF TypeOK
<1>t. \A k \in Slots : run[k] # Idle => run[k].at \in DOMAIN Script
  BY DEF TypeOK
<1>s. /\ Script \in Seq(Requests) /\ Len(Script) \in Nat /\ Len(Script) > 0
      /\ Script[Len(Script)].do \in Writes /\ DOMAIN Script = 1..Len(Script)
  BY ScriptOK
<1>1. CASE Open
  <2>1. dialog' \in Dialogs
    <3>1. PICK n \in Nat : n = dialog.count + 1
      BY <1>0
    <3>2. PICK m \in Nat : m = Now
      BY <1>0
    <3>3. dialog' = [dialog EXCEPT !.open = TRUE, !.count = n, !.review = m]
      BY <1>1, <3>1, <3>2 DEF Open
    <3>. QED BY <3>3, <1>0 DEF Dialogs
  <2>. QED BY <1>1, <2>1, UseType DEF Open, TypeOK, Script, Bounds
<1>2. CASE Close
  <2>1. dialog' \in Dialogs
    BY <1>2, <1>0 DEF Close, Dialogs
  <2>. QED BY <1>2, <2>1 DEF Close, TypeOK, Script
<1>3. ASSUME NEW k \in Slots, Click(k) PROVE TypeOK'
  <2>1. PICK at \in ShownAt \ {None} :
          GoesOn(k, [Idle EXCEPT !.at = 1, !.intent = dialog.count, !.seen = at], pending)
    BY <1>3 DEF Click
  <2>2. at \in Nat
    BY QueryType DEF ShownAt, QueryRows, TypeOK, Dialogs
  <2>3. PICK r : r = [Idle EXCEPT !.at = 1, !.intent = dialog.count, !.seen = at]
    OBVIOUS
  <2>4. Execution(r)
    BY <2>2, <2>3, <1>0 DEF Execution, Idle
  <2>6. r.at \in DOMAIN Script
    BY <2>3, <1>s DEF Idle
  <2>5. Runs' /\ Kept' /\ keys' \in Nat /\ (scene' = scene => Placed')
    BY <2>1, <2>3, <2>4, <2>6, KnownKeys, GoesOnType
  <2>. QED BY <1>3, <2>5, UseType DEF Click, TypeOK, Runs, Placed, Kept, Bounds
<1>4. ASSUME NEW k \in Slots, Look(k) PROVE TypeOK'
  <2>1. PICK r : GoesOn(k, r, pending) /\ Execution(r) /\ r.at \in DOMAIN Script
    BY <1>4, LookNext
  <2>2. Runs' /\ Kept' /\ keys' \in Nat /\ (scene' = scene => Placed')
    BY <2>1, KnownKeys, GoesOnType
  <2>. QED BY <1>4, <2>2 DEF Look, TypeOK, Runs, Placed, Kept
<1>5. ASSUME NEW k \in Slots, Differs(k) PROVE TypeOK'
  BY <1>5, StopType DEF Differs, TypeOK, Runs, Placed
<1>6. ASSUME NEW k \in Slots, Post(k) PROVE TypeOK'
  <2>1. PICK o, v : o = Step(k).on /\ v = Version(o, Now)
    OBVIOUS
  <2>2. v \in Nat
    BY <2>1, <1>0, VersionType
  <2>3. /\ log' = Append(log, o)
        /\ answered' = [x \in DOMAIN answered \cup {run[k].key} |->
                          IF x = run[k].key THEN v + 1 ELSE answered[x]]
        /\ effects' = Append(effects, [at |-> run[k].at, intent |-> run[k].intent,
                                       basis |-> v, seen |-> run[k].seen])
        /\ Reply(k, "done", v + 1)
    BY <1>6, <2>1 DEF Post
  <2>4. o \in Objects /\ run[k] # Idle
    BY <1>6, <2>1, <1>t, ScriptOK DEF Post, Ready, Writing, Step
  <2>5. log' \in Seq(Objects)
    BY <2>3, <2>4 DEF TypeOK
  <2>6. effects' \in Seq(Effects)
    BY <2>3, <2>2, <1>r DEF TypeOK, Effects, Execution
  <2>7. answered' \in [DOMAIN answered' -> Nat]
    BY <2>3, <2>2 DEF TypeOK
  <2>8. Runs' /\ (scene' = scene => Placed')
    BY <2>3, <2>2, <2>4, ReplyType
  <2>. QED BY <1>6, <2>5, <2>6, <2>7, <2>8 DEF Post, TypeOK, Runs, Placed
<1>7. ASSUME NEW k \in Slots, Replay(k) PROVE TypeOK'
  <2>1. answered[run[k].key] \in Nat
    BY <1>7 DEF Replay, TypeOK
  <2>2. Runs' /\ (scene' = scene => Placed')
    BY <1>7, <2>1, ReplyType DEF Replay, Ready, Writing
  <2>. QED BY <1>7, <2>2 DEF Replay, TypeOK, Runs, Placed
<1>8. ASSUME NEW k \in Slots, Conflict(k) PROVE TypeOK'
  <2>1. Runs' /\ (scene' = scene => Placed')
    BY <1>8, ReplyType DEF Conflict, Ready, Writing
  <2>. QED BY <1>8, <2>1 DEF Conflict, TypeOK, Runs, Placed
<1>9. ASSUME NEW k \in Slots, Receive(k) PROVE TypeOK'
  <2>1. CASE run[k].at < Len(Script)
    <3>1. PICK r : GoesOn(k, r, Answered(k)) /\ Execution(r) /\ r.at \in DOMAIN Script
      BY <1>9, <2>1, ReceiveNext
    <3>3. Runs' /\ Kept' /\ keys' \in Nat /\ (scene' = scene => Placed')
      BY <3>1, KnownKeys, GoesOnType
    <3>. QED BY <1>9, <2>1, <3>3 DEF Receive, TypeOK, Runs, Placed, Kept
  <2>2. CASE ~(run[k].at < Len(Script))
    <3>1. Stop(k) /\ pending' = Answered(k) /\ cache' = Invalidated(Workbench) /\ keys' = keys
          /\ dialog' \in {Closed, Renewed, NotReached}
      BY <1>9, <2>2 DEF Receive
    <3>2. dialog' \in Dialogs
      <4>1. Closed \in Dialogs
        BY <1>0 DEF Closed, Dialogs
      <4>2. PICK L \in SUBSET Nat :
              L = IF dialog.open THEN dialog.late \cup {dialog.count} ELSE dialog.late
        BY <1>0 DEF Dialogs
      <4>3. NotReached = [dialog EXCEPT !.late = L]
        BY <4>2 DEF NotReached
      <4>4. PICK n \in Nat : n = dialog.count + 1
        BY <1>0 DEF Dialogs
      <4>5. Renewed = [dialog EXCEPT !.count = n]
        BY <4>4 DEF Renewed
      <4>. QED BY <3>1, <4>1, <4>3, <4>5, <1>0 DEF Dialogs
    <3>. QED BY <1>9, <3>1, <3>2, InvalidatedRows, StopType, KnownKeys DEF Receive, TypeOK, Runs,
        Placed
  <2>. QED BY <2>1, <2>2
<1>10. ASSUME NEW k \in Slots, ReceiveConflict(k) PROVE TypeOK'
  BY <1>10, StopType, KnownKeys DEF ReceiveConflict, TypeOK, Runs, Placed
<1>11. ASSUME NEW k \in Slots, Lose(k) PROVE TypeOK'
  BY <1>11, StopType, UseType DEF Lose, TypeOK, Runs, Placed, Bounds
<1>12. ASSUME NEW k \in Slots, Unauthorized(k) PROVE TypeOK'
  BY <1>12, StopType, KnownKeys DEF Unauthorized, TypeOK, Runs, Placed
<1>. QED BY <1>1, <1>2, <1>3, <1>4, <1>5, <1>6, <1>7, <1>8, <1>9, <1>10, <1>11, <1>12 DEF Command

LEMMA TypeStep == TypeOK /\ [Next]_vars => TypeOK'
<1>. SUFFICES ASSUME TypeOK, [Next]_vars PROVE TypeOK'
  OBVIOUS
<1>. USE DEF server, feed, person
<1>1. CASE SignOut
  <2>1. dialog' \in Dialogs
    BY <1>1 DEF SignOut, Dialogs, TypeOK
  <2>2. stream' \in Streams
    BY <1>1 DEF SignOut, NoStream, Streams
  <2>3. cache' \in [DOMAIN cache' -> QueryRows] /\ DOMAIN cache' = {}
    BY <1>1 DEF SignOut
  <2>. QED BY <1>1, <2>1, <2>2, <2>3, UseType DEF SignOut, TypeOK, Bounds, Script
<1>2. CASE SignIn
  <2>1. stream' \in Streams
    BY <1>2 DEF SignIn, NoStream, Subscribed, Streams
  <2>2. cache' \in [DOMAIN cache' -> QueryRows] /\ DOMAIN cache' = scene.page
    BY <1>2 DEF SignIn, QueryRows, Asked, NoQuery
  <2>. QED BY <1>2, <2>1, <2>2 DEF SignIn, TypeOK, Script
<1>3. ASSUME NEW o \in scene.changes, Change(o) PROVE TypeOK'
  <2>1. o \in Objects
    <3>1. scene.changes \in {s.changes : s \in Scenes}
      BY DEF TypeOK
    <3>. QED BY <3>1 DEF Objects
  <2>2. log' \in Seq(Objects)
    BY <1>3, <2>1 DEF Change, TypeOK
  <2>. QED BY <1>3, <2>2, UseType DEF Change, TypeOK, Bounds, Script
<1>4. CASE UNCHANGED vars
  BY <1>4 DEF vars, TypeOK, Script
<1>. QED BY <1>1, <1>2, <1>3, <1>4, FeedTypes, CommandTypes DEF Next

\* Every variable keeps its type, whatever the network and the others do.
THEOREM TypeCorrect == Spec => []TypeOK
BY TypeInit, TypeStep, PTL DEF Spec

----------------------------------------------------------------------------
(* Nothing is missed.                                                      *)

LEMMA FeedInit == Init => FeedInv
<1>. SUFFICES ASSUME Init PROVE FeedInv
  OBVIOUS
<1>1. stream.last = 0 /\ stream.cursor = None
  BY NoneAssumption DEF Init, Mounted, Subscribed, NoStream
<1>2. Now = 0
  BY DEF Init, Now
<1>3. \A q \in DOMAIN cache : cache[q].data = None /\ cache[q].reply = 0
  BY DEF Init, Mounted, Asked, NoQuery
<1>. QED BY <1>1, <1>2, <1>3 DEF FeedInv, Bounded, Handlings

\* The types the proofs below rest on.
LEMMA FeedFacts ==
  ASSUME TypeOK
  PROVE  /\ Now \in Nat /\ Handlings \in Nat /\ stream \in Streams
         /\ stream.cursor \in Nat \cup {None} /\ stream.last \in Nat
         /\ skipped \in Nat
         /\ \A q \in DOMAIN cache :
              /\ cache[q] \in QueryRows /\ passed[q] \in Nat /\ Gap(q) \in Nat
              /\ Gap(q) >= skipped /\ Gap(q) >= passed[q]
              /\ cache[q].reply \in Nat /\ cache[q].data \in Nat \cup {None}
              /\ cache[q].flight \in {"none", "asked", "answered"}
<1>1. stream \in Streams /\ skipped \in Nat /\ passed \in [scene.page -> Nat]
      /\ DOMAIN cache = (IF session THEN scene.page ELSE {})
  BY DEF TypeOK
<1>2. stream.cursor \in Nat \cup {None} /\ stream.last \in Nat
  BY <1>1 DEF Streams
<1>3. Handlings \in Nat
  BY <1>2 DEF Handlings
<1>4. \A q \in DOMAIN cache : passed[q] \in Nat
  BY <1>1
<1>5. \A q \in DOMAIN cache : /\ Gap(q) \in Nat /\ Gap(q) >= skipped /\ Gap(q) >= passed[q]
  BY <1>1, <1>4 DEF Gap
<1>6. \A q \in DOMAIN cache :
        /\ cache[q] \in QueryRows /\ cache[q].reply \in Nat /\ cache[q].data \in Nat \cup {None}
        /\ cache[q].flight \in {"none", "asked", "answered"}
  BY QueryType, QueryRowTypes
<1>. QED BY <1>1, <1>2, <1>3, <1>4, <1>5, <1>6, NowType

LEMMA FeedFrame ==
  ASSUME FeedInv, UNCHANGED <<log, cache, stream, skipped, passed>>
  PROVE  FeedInv'
BY DEF FeedInv, Bounded, Handlings, Now, Gap, Changed, Told

LEMMA LogGrows ==
  ASSUME TypeOK, NEW o \in Objects, log' = Append(log, o)
  PROVE  /\ Now' = Now + 1 /\ Now \in Nat
         /\ \A n \in 1..Now : log'[n] = log[n]
BY DEF TypeOK, Now

LEMMA FeedLogGrows ==
  ASSUME TypeOK, FeedInv, NEW o \in Objects, log' = Append(log, o),
         UNCHANGED <<cache, stream, skipped, passed>>
  PROVE  FeedInv'
<1>1. Now' = Now + 1 /\ \A n \in 1..Now : log'[n] = log[n]
  BY LogGrows
<1>2. Handlings' = Handlings /\ stream'.last = stream.last /\ \A q \in DOMAIN cache : Gap(q)' = Gap(q)
  BY DEF Handlings, Gap
<1>3. Bounded'
  BY <1>1, <1>2, FeedFacts DEF FeedInv, Bounded
<1>4. ASSUME NEW q \in DOMAIN cache', NEW n \in ((Gap(q) + 1)..Handlings)',
             Changed(q, n)', cache'[q].data # None
      PROVE  Told(q, n)'
  <2>1. q \in DOMAIN cache /\ n \in (Gap(q) + 1)..Handlings /\ n \in 1..Now
    BY <1>2, FeedFacts DEF FeedInv, Bounded
  <2>2. Changed(q, n)
    BY <1>1, <1>4, <2>1 DEF Changed
  <2>3. Told(q, n)
    BY <1>4, <2>1, <2>2 DEF FeedInv
  <2>. QED BY <2>3 DEF Told
<1>. QED BY <1>3, <1>4 DEF FeedInv

LEMMA FeedInvalidated ==
  ASSUME TypeOK, FeedInv, NEW qs, cache' = Invalidated(qs),
         UNCHANGED <<log, stream, skipped, passed>>
  PROVE  FeedInv'
<1>1. Now' = Now /\ Handlings' = Handlings /\ \A q \in DOMAIN cache : Gap(q)' = Gap(q)
  BY DEF Now, Handlings, Gap
<1>2. DOMAIN cache' = DOMAIN cache /\ \A q \in DOMAIN cache :
        /\ cache'[q].data = cache[q].data /\ cache'[q].reply = cache[q].reply
        /\ \/ cache'[q].flight = "asked"
           \/ cache'[q] = cache[q]
  BY InvalidatedRows, QueryType, QueryRowTypes
<1>3. Bounded'
  BY <1>1, <1>2 DEF FeedInv, Bounded
<1>4. ASSUME NEW q \in DOMAIN cache', NEW n \in ((Gap(q) + 1)..Handlings)',
             Changed(q, n)', cache'[q].data # None
      PROVE  Told(q, n)'
  <2>1. q \in DOMAIN cache /\ n \in (Gap(q) + 1)..Handlings /\ Changed(q, n) /\ cache[q].data # None
    BY <1>1, <1>2, <1>4 DEF Changed
  <2>2. Told(q, n)
    BY <2>1 DEF FeedInv
  <2>. QED BY <1>2, <2>1, <2>2 DEF Told
<1>. QED BY <1>3, <1>4 DEF FeedInv

\* The queries that show an object are told when it changes.
LEMMA ToldOfIt ==
  ASSUME TypeOK, NEW q \in DOMAIN cache, NEW n, Changed(q, n)
  PROVE  q \in Reach(log[n])
<1>1. q \in DOMAIN Shows
  BY SceneAssumption DEF TypeOK
<1>2. log[n] \in Shows[q] /\ log[n] \notin Quiet
  BY DEF Changed
<1>3. CASE q = "materials"
  BY <1>2, <1>3 DEF Shows, Reach, Library
<1>4. CASE q # "materials"
  <2>1. log[n] # "preview"
    BY <1>1, <1>2, <1>4 DEF Shows
  <2>2. q \in Workbench
    BY <1>4 DEF Workbench
  <2>. QED BY <2>1, <2>2 DEF Reach
<1>. QED BY <1>3, <1>4

LEMMA FeedArrive ==
  ASSUME TypeOK, FeedInv, NEW q \in DOMAIN cache, Arrive(q)
  PROVE  FeedInv'
<1>. DEFINE at == cache[q].reply
            first == cache[q].data = None
            moved == q = "bootstrap" /\ cache[q].data # at
<1>1. /\ cache' = [cache EXCEPT ![q] = [NoQuery EXCEPT !.data = at]]
      /\ stream' = IF moved THEN Subscribed(stream, CursorFrom(at)) ELSE stream
      /\ skipped' = IF moved /\ stream.cursor = None THEN at ELSE skipped
      /\ passed' = IF first THEN [passed EXCEPT ![q] = CursorFrom(0)] ELSE passed
      /\ log' = log /\ cache[q].flight = "answered"
  BY DEF Arrive, server
<1>2. at \in Nat /\ at <= Now
  BY FeedFacts DEF FeedInv, Bounded
<1>3. /\ DOMAIN cache' = DOMAIN cache
      /\ cache'[q].data = at /\ cache'[q].reply = 0 /\ cache'[q].flight = "none"
      /\ \A p \in DOMAIN cache : p # q => cache'[p] = cache[p]
  BY <1>1 DEF NoQuery
<1>4. Now' = Now
  BY <1>1 DEF Now
<1>5. CASE moved /\ stream.cursor = None
  <2>1. CursorFrom(at) = at
    BY <1>5 DEF CursorFrom
  <2>2. stream'.cursor = at /\ stream'.last = at /\ skipped' = at
    BY <1>1, <1>2, <1>5, <2>1, FeedFacts, StreamTypes, NoneAssumption
  <2>3. Handlings' = at
    BY <1>2, <2>2, NoneAssumption DEF Handlings
  <2>4. Bounded'
    BY <1>2, <1>3, <1>4, <2>2, <2>3, FeedFacts DEF FeedInv, Bounded
  <2>5. \A p : (passed'[p] \in Nat) => Gap(p)' >= at
    BY <1>2, <2>2 DEF Gap
  <2>6. \A p \in DOMAIN cache : passed'[p] \in Nat
    <3>1. passed \in [scene.page -> Nat] /\ CursorFrom(0) \in Nat /\ DOMAIN cache \subseteq scene.page
      BY FeedFacts DEF TypeOK, CursorFrom
    <3>. QED BY <1>1, <3>1
  <2>7. \A p \in DOMAIN cache : Gap(p)' \in Nat /\ Gap(p)' >= at
    BY <1>2, <2>2, <2>6 DEF Gap
  <2>. QED BY <1>2, <1>3, <2>3, <2>4, <2>7 DEF FeedInv
<1>6. CASE ~(moved /\ stream.cursor = None)
  <2>1. stream'.cursor = stream.cursor /\ stream'.last = stream.last /\ skipped' = skipped
    <3>1. CASE moved
      <4>1. CursorFrom(at) = stream.cursor /\ stream.cursor # None
        BY <1>6, <3>1 DEF CursorFrom
      <4>2. stream.last = stream.cursor
        BY <4>1 DEF FeedInv, Bounded, Handlings
      <4>3. PICK c : c = stream.cursor
        OBVIOUS
      <4>4. c \in Nat \cup {None} /\ c # None /\ stream \in Streams
        BY <4>1, <4>3, FeedFacts
      <4>5. stream' = Subscribed(stream, c)
        BY <1>1, <3>1, <4>1, <4>3
      <4>6. stream'.cursor = c /\ stream'.last = c
        BY <4>4, <4>5, StreamTypes
      <4>7. skipped' = skipped
        BY <1>1, <1>6
      <4>. QED BY <4>2, <4>3, <4>6, <4>7
    <3>2. CASE ~moved
      BY <1>1, <3>2
    <3>. QED BY <3>1, <3>2
  <2>2. Handlings' = Handlings
    BY <2>1 DEF Handlings
  <2>3. Bounded'
    BY <1>2, <1>3, <1>4, <2>1, <2>2, FeedFacts DEF FeedInv, Bounded
  <2>4. \A p \in DOMAIN cache : p # q => passed'[p] = passed[p]
    BY <1>1
  <2>5. \A p \in DOMAIN cache : p # q => Gap(p)' = Gap(p)
    BY <2>1, <2>4 DEF Gap
  <2>6. ASSUME NEW p \in DOMAIN cache', NEW n \in ((Gap(p) + 1)..Handlings)',
               Changed(p, n)', cache'[p].data # None
        PROVE  Told(p, n)'
    <3>1. CASE p # q
      <4>1. p \in DOMAIN cache /\ n \in (Gap(p) + 1)..Handlings /\ Changed(p, n)
            /\ cache[p].data # None
        BY <1>1, <1>3, <2>2, <2>5, <2>6, <3>1 DEF Changed
      <4>. QED BY <1>3, <3>1, <4>1 DEF FeedInv, Told
    <3>2. CASE p = q /\ first
      <4>1. passed'[q] = CursorFrom(0)
        <5>1. passed \in [scene.page -> Nat] /\ q \in scene.page
          BY DEF TypeOK
        <5>. QED BY <1>1, <3>2, <5>1
      <4>2. passed'[q] = Handlings /\ Gap(q)' >= Handlings /\ Gap(q)' \in Nat
        BY <2>1, <4>1, FeedFacts DEF Gap, CursorFrom, Handlings
      <4>. QED BY <2>2, <2>6, <3>2, <4>2, FeedFacts
    <3>3. CASE p = q /\ ~first
      <4>1. Gap(q)' = Gap(q)
        BY <1>1, <2>1, <3>3 DEF Gap
      <4>2. n \in (Gap(q) + 1)..Handlings /\ Changed(q, n)
        BY <1>1, <2>2, <2>6, <3>3, <4>1 DEF Changed
      <4>3. cache[q].reply >= n
        BY <1>1, <3>3, <4>2 DEF FeedInv, Told
      <4>. QED BY <1>3, <3>3, <4>3 DEF Told
    <3>. QED BY <3>1, <3>2, <3>3
  <2>. QED BY <2>3, <2>6 DEF FeedInv
<1>. QED BY <1>5, <1>6


\* A step that leaves the events handled where they are and takes no answer back.
LEMMA FeedKept ==
  ASSUME TypeOK, FeedInv, UNCHANGED <<log, skipped, passed>>,
         Handlings' = Handlings, stream'.last = stream.last,
         DOMAIN cache' = DOMAIN cache,
         \A q \in DOMAIN cache :
           /\ cache'[q].data = cache[q].data
           /\ \/ cache'[q] = cache[q]
              \/ cache'[q].reply = cache[q].reply /\ cache'[q].flight = "asked"
              \/ cache'[q].reply = cache[q].reply /\ cache'[q].flight = "none" /\ cache'[q].failed
              \/ cache'[q].reply = Now /\ cache'[q].flight = "answered"
  PROVE  FeedInv'
<1>1. Now' = Now /\ \A q \in DOMAIN cache : Gap(q)' = Gap(q)
  BY DEF Now, Gap
<1>2. Bounded'
  BY <1>1, FeedFacts DEF FeedInv, Bounded
<1>3. ASSUME NEW q \in DOMAIN cache', NEW n \in ((Gap(q) + 1)..Handlings)',
             Changed(q, n)', cache'[q].data # None
      PROVE  Told(q, n)'
  <2>1. q \in DOMAIN cache /\ n \in (Gap(q) + 1)..Handlings /\ Changed(q, n) /\ cache[q].data # None
    BY <1>1, <1>3 DEF Changed
  <2>2. Told(q, n) /\ n <= Now
    BY <2>1, FeedFacts DEF FeedInv, Bounded
  <2>. QED BY <2>1, <2>2 DEF Told
<1>. QED BY <1>2, <1>3 DEF FeedInv

LEMMA FeedServe ==
  ASSUME TypeOK, FeedInv, NEW q \in DOMAIN cache, Serve(q)
  PROVE  FeedInv'
<1>1. cache' = [cache EXCEPT ![q].flight = "answered", ![q].reply = Now]
      /\ UNCHANGED <<log, stream, skipped, passed>>
  BY DEF Serve, server
<1>2. cache[q] \in QueryRows
  BY QueryType
<1>3. /\ DOMAIN cache' = DOMAIN cache
      /\ cache'[q].data = cache[q].data /\ cache'[q].reply = Now /\ cache'[q].flight = "answered"
      /\ \A p \in DOMAIN cache : p # q => cache'[p] = cache[p]
  BY <1>1, <1>2 DEF QueryRows
<1>. QED BY <1>1, <1>3, FeedKept DEF Handlings

LEMMA FeedFetchFails ==
  ASSUME TypeOK, FeedInv, NEW q \in DOMAIN cache, FetchFails(q)
  PROVE  FeedInv'
<1>1. cache' = [cache EXCEPT ![q].flight = "none", ![q].failed = TRUE]
      /\ UNCHANGED <<log, stream, skipped, passed>>
  BY DEF FetchFails, server
<1>2. cache[q] \in QueryRows
  BY QueryType
<1>3. /\ DOMAIN cache' = DOMAIN cache
      /\ cache'[q].data = cache[q].data /\ cache'[q].reply = cache[q].reply
      /\ cache'[q].flight = "none" /\ cache'[q].failed
      /\ \A p \in DOMAIN cache : p # q => cache'[p] = cache[p]
  BY <1>1, <1>2 DEF QueryRows
<1>. QED BY <1>1, <1>3, FeedKept DEF Handlings

\* What a change of the connection leaves alone.
LEMMA FeedConnection ==
  ASSUME TypeOK, FeedInv, Connect \/ Drop \/ Refuse \/ RecoverFails
  PROVE  FeedInv'
<1>1. UNCHANGED <<log, cache, skipped, passed>>
  BY DEF Connect, Drop, Refuse, RecoverFails, server
<1>0. stream \in Streams /\ stream.cursor \in Nat \cup {None}
  BY FeedFacts
<1>2. stream'.cursor = stream.cursor /\ stream'.last = stream.last
  <2>1. CASE Connect
    BY <2>1, <1>0 DEF Connect, Streams
  <2>2. CASE Drop
    <3>1. PICK s : s = [stream EXCEPT !.state = "connecting"]
      OBVIOUS
    <3>2. s \in Streams /\ s.cursor = stream.cursor /\ s.last = stream.last
      BY <3>1, <1>0 DEF Streams
    <3>. QED BY <2>2, <3>1, <3>2, StreamTypes DEF Drop
  <2>3. CASE Refuse
    <3>1. PICK s : s = [stream EXCEPT !.state = "closed"]
      OBVIOUS
    <3>2. s \in Streams /\ s.cursor = stream.cursor /\ s.last = stream.last
      BY <3>1, <1>0 DEF Streams
    <3>. QED BY <2>3, <3>1, <3>2, StreamTypes DEF Refuse
  <2>4. CASE RecoverFails
    <3>1. PICK c : c = stream.cursor
      OBVIOUS
    <3>2. stream' = Subscribed(stream, c) /\ c \in Nat \cup {None}
      BY <2>4, <3>1, <1>0 DEF RecoverFails
    <3>3. stream'.cursor = c /\ stream'.last = IF c = None THEN 0 ELSE c
      BY <3>2, <1>0, StreamTypes
    <3>. QED BY <3>1, <3>3 DEF FeedInv, Bounded, Handlings
  <2>. QED BY <2>1, <2>2, <2>3, <2>4
<1>3. Handlings' = Handlings
  BY <1>2 DEF Handlings
<1>. QED BY <1>1, <1>2, <1>3, FeedKept

\* The stream goes on to a later moment, and every query that has an answer and shows something
\* that changed on the way is asked again.
LEMMA FeedMoves ==
  ASSUME TypeOK, FeedInv, UNCHANGED <<log, skipped, passed>>,
         NEW m \in Nat, m <= Now, NEW qs, cache' = Invalidated(qs),
         stream'.cursor = m, stream'.last = m,
         \A q \in DOMAIN cache : \A n \in (Handlings + 1)..m : Changed(q, n) => q \in qs
  PROVE  FeedInv'
<1>1. Now' = Now /\ \A q \in DOMAIN cache : Gap(q)' = Gap(q)
  BY DEF Now, Gap
<1>2. Handlings' = m
  BY NoneAssumption DEF Handlings
<1>3. DOMAIN cache' = DOMAIN cache /\ \A q \in DOMAIN cache :
        /\ cache'[q].data = cache[q].data /\ cache'[q].reply = cache[q].reply
        /\ \/ cache'[q].flight = "asked"
           \/ cache'[q] = cache[q] /\ ~(q \in qs /\ cache[q].data # None)
  BY InvalidatedRows, QueryType, QueryRowTypes
<1>4. Bounded'
  BY <1>1, <1>2, <1>3 DEF FeedInv, Bounded
<1>5. ASSUME NEW q \in DOMAIN cache', NEW n \in ((Gap(q) + 1)..Handlings)',
             Changed(q, n)', cache'[q].data # None
      PROVE  Told(q, n)'
  <2>1. q \in DOMAIN cache /\ n \in (Gap(q) + 1)..m /\ Changed(q, n) /\ cache[q].data # None
    BY <1>1, <1>2, <1>3, <1>5 DEF Changed
  <2>2. CASE n <= Handlings
    <3>1. n \in (Gap(q) + 1)..Handlings
      BY <2>1, <2>2, FeedFacts
    <3>2. Told(q, n)
      BY <2>1, <3>1 DEF FeedInv
    <3>. QED BY <1>3, <2>1, <3>2 DEF Told
  <2>3. CASE ~(n <= Handlings)
    <3>1. n \in (Handlings + 1)..m
      BY <2>1, <2>3, FeedFacts
    <3>2. q \in qs
      BY <2>1, <3>1
    <3>. QED BY <1>3, <2>1, <3>2 DEF Told
  <2>. QED BY <2>2, <2>3
<1>. QED BY <1>4, <1>5 DEF FeedInv

LEMMA FeedDeliver ==
  ASSUME TypeOK, FeedInv, NEW n \in 1..Now, Deliver(n)
  PROVE  FeedInv'
<1>1. /\ stream' = [stream EXCEPT !.last = n, !.cursor = n, !.failures = 0]
      /\ cache' = Invalidated(Reach(log[n])) /\ IsNext(n)
      /\ UNCHANGED <<log, skipped, passed>>
  BY DEF Deliver, Handled, server
<1>2. stream'.cursor = n /\ stream'.last = n /\ n \in Nat /\ n <= Now
  BY <1>1, FeedFacts DEF Streams
<1>3. ASSUME NEW q \in DOMAIN cache, NEW m \in (Handlings + 1)..n, Changed(q, m)
      PROVE  q \in Reach(log[n])
  <2>1. stream.last = Handlings /\ Handlings \in Nat
    BY FeedFacts DEF FeedInv, Bounded
  <2>2. m = n
    <3>1. log[m] \notin Quiet
      BY <1>3 DEF Changed
    <3>2. m \notin (stream.last + 1)..(n - 1)
      BY <1>1, <3>1 DEF IsNext
    <3>. QED BY <1>2, <2>1, <3>2
  <2>. QED BY <1>3, <2>2, ToldOfIt
<1>. QED BY <1>1, <1>2, <1>3, FeedMoves

LEMMA FeedRecover ==
  ASSUME TypeOK, FeedInv, NEW at \in 0..Now, Recover(at)
  PROVE  FeedInv'
<1>1. /\ stream' = Subscribed(stream, at) /\ cache' = Invalidated(DOMAIN cache)
      /\ UNCHANGED <<log, skipped, passed>> /\ at \in Nat /\ at <= Now
  BY FeedFacts DEF Recover, server
<1>2. stream'.cursor = at /\ stream'.last = at
  BY <1>1, FeedFacts, StreamTypes, NoneAssumption
<1>. QED BY <1>1, <1>2, FeedMoves

\* A session begins or ends with nothing shown and nothing handled.
LEMMA FeedSession ==
  ASSUME TypeOK, FeedInv, SignOut \/ SignIn
  PROVE  FeedInv'
<1>1. stream' \in {NoStream, Subscribed(NoStream, None)} /\ log' = log
      /\ \A q \in DOMAIN cache' : cache'[q].data = None /\ cache'[q].reply = 0
  BY DEF SignOut, SignIn, server, Asked, NoQuery
<1>2. stream'.cursor = None /\ stream'.last = 0
  <2>1. NoStream \in Streams /\ NoStream.cursor = None /\ NoStream.last = 0
    BY DEF NoStream, Streams
  <2>. QED BY <1>1, <2>1, StreamTypes
<1>3. Handlings' = 0 /\ Now' = Now
  BY <1>1, <1>2 DEF Handlings, Now
<1>. QED BY <1>1, <1>2, <1>3, FeedFacts DEF FeedInv, Bounded

LEMMA FeedStep ==
  ASSUME TypeOK, FeedInv, [Next]_vars
  PROVE  FeedInv'
<1>1. ASSUME NEW k \in Slots, Post(k) PROVE FeedInv'
  <2>1. Step(k).on \in Objects
    BY <1>1, ScriptOK DEF Post, Ready, Writing, Step, TypeOK
  <2>2. log' = Append(log, Step(k).on) /\ UNCHANGED <<cache, stream, skipped, passed>>
    BY <1>1 DEF Post, feed
  <2>. QED BY <2>1, <2>2, FeedLogGrows
<1>2. ASSUME NEW o \in scene.changes, Change(o) PROVE FeedInv'
  <2>1. o \in Objects
    <3>1. scene.changes \in {s.changes : s \in Scenes}
      BY DEF TypeOK
    <3>. QED BY <3>1 DEF Objects
  <2>2. log' = Append(log, o) /\ UNCHANGED <<cache, stream, skipped, passed>>
    BY <1>2 DEF Change, feed
  <2>. QED BY <2>1, <2>2, FeedLogGrows
<1>3. ASSUME NEW k \in Slots, Receive(k) PROVE FeedInv'
  <2>1. UNCHANGED <<log, stream, skipped, passed>>
        /\ (cache' = cache \/ cache' = Invalidated(Workbench))
    BY <1>3 DEF Receive, server
  <2>. QED BY <2>1, FeedFrame, FeedInvalidated
<1>4. CASE Retry
  <2>1. UNCHANGED <<log, stream, skipped, passed>> /\ cache' = Invalidated(Workbench)
    BY <1>4 DEF Retry, server
  <2>. QED BY <2>1, FeedInvalidated
<1>5. CASE Feed
  BY <1>4, <1>5, FeedArrive, FeedServe, FeedFetchFails, FeedConnection, FeedDeliver,
      FeedRecover DEF Feed
<1>6. CASE Open \/ Close \/ UNCHANGED vars
  BY <1>6, FeedFrame DEF Open, Close, vars, server, feed
<1>7. ASSUME NEW k \in Slots, \/ Click(k) \/ Look(k) \/ Differs(k) \/ Replay(k) \/ Conflict(k)
                              \/ ReceiveConflict(k) \/ Lose(k) \/ Unauthorized(k)
      PROVE  FeedInv'
  BY <1>7, FeedFrame DEF Click, Look, Differs, Replay, Conflict, ReceiveConflict, Lose,
      Unauthorized, server, feed
<1>8. CASE Command
  BY <1>1, <1>3, <1>6, <1>7, <1>8 DEF Command
<1>. QED BY <1>2, <1>5, <1>6, <1>8, FeedSession DEF Next

LEMMA NothingMissedHolds == ASSUME TypeOK, FeedInv PROVE NothingMissed
<1>1. SUFFICES ASSUME NEW q \in DOMAIN cache, NEW n \in (Gap(q) + 1)..Handlings,
                      Changed(q, n), Lacks(q, n)
               PROVE  FALSE
  BY DEF NothingMissed
<1>2. cache[q].data # None
  BY <1>1 DEF Lacks
<1>3. Told(q, n)
  BY <1>1, <1>2 DEF FeedInv
<1>4. n \in Nat
  BY FeedFacts
<1>. QED BY <1>1, <1>3, <1>4, FeedFacts DEF Told, Lacks


----------------------------------------------------------------------------
(* How the log, the dialog and the runs go on, whatever the step.          *)

LEMMA LogStep ==
  ASSUME TypeOK, [Next]_vars
  PROVE  /\ log' = log \/ \E o \in Objects : log' = Append(log, o)
         /\ Now' \in Nat /\ Now <= Now' /\ \A n \in 1..Now : log'[n] = log[n]
         /\ scene' = scene
<1>. USE DEF server, person, feed
<1>1. \A k \in Slots : Post(k) => log' = Append(log, Step(k).on) /\ Step(k).on \in Objects
  BY ScriptOK DEF Post, Ready, Writing, Step, TypeOK
<1>2. \A o \in scene.changes : Change(o) => log' = Append(log, o) /\ o \in Objects
  <2>1. scene.changes \in {s.changes : s \in Scenes}
    BY DEF TypeOK
  <2>. QED BY <2>1 DEF Objects, Change
<1>3. ASSUME Feed PROVE log' = log
  BY <1>3 DEF Feed, Serve, Arrive, FetchFails, Retry, Connect, Drop, Refuse, RecoverFails,
      Deliver, Recover
<1>4. ASSUME NEW k \in Slots, \/ Click(k) \/ Look(k) \/ Differs(k) \/ Replay(k) \/ Conflict(k)
                              \/ ReceiveConflict(k) \/ Lose(k) \/ Unauthorized(k) \/ Receive(k)
      PROVE  log' = log
  BY <1>4 DEF Click, Look, Differs, Replay, Conflict, ReceiveConflict, Lose, Unauthorized, Receive
<1>5. ASSUME Open \/ Close \/ SignOut \/ SignIn \/ UNCHANGED vars PROVE log' = log
  BY <1>5 DEF Open, Close, SignOut, SignIn, vars
<1>6. log' = log \/ \E o \in Objects : log' = Append(log, o)
  BY <1>1, <1>2, <1>3, <1>4, <1>5 DEF Next, Command
<1>7. Now' \in Nat /\ Now <= Now' /\ \A n \in 1..Now : log'[n] = log[n]
  <2>1. CASE log' = log
    BY <2>1, NowType DEF Now
  <2>2. ASSUME NEW o \in Objects, log' = Append(log, o)
        PROVE  Now' \in Nat /\ Now <= Now' /\ \A n \in 1..Now : log'[n] = log[n]
    <3>1. Now' = Now + 1 /\ Now \in Nat /\ \A n \in 1..Now : log'[n] = log[n]
      BY <2>2, LogGrows
    <3>. QED BY <3>1
  <2>. QED BY <1>6, <2>1, <2>2
<1>8. scene' = scene
  <2>1. ASSUME NEW k \in Slots, Post(k) PROVE scene' = scene
    BY <2>1 DEF Post
  <2>2. ASSUME NEW o \in scene.changes, Change(o) PROVE scene' = scene
    BY <2>2 DEF Change
  <2>3. ASSUME Feed PROVE scene' = scene
    BY <2>3 DEF Feed, Serve, Arrive, FetchFails, Retry, Connect, Drop, Refuse, RecoverFails,
        Deliver, Recover
  <2>4. ASSUME NEW k \in Slots, \/ Click(k) \/ Look(k) \/ Differs(k) \/ Replay(k) \/ Conflict(k)
                                \/ ReceiveConflict(k) \/ Lose(k) \/ Unauthorized(k) \/ Receive(k)
        PROVE  scene' = scene
    BY <2>4 DEF Click, Look, Differs, Replay, Conflict, ReceiveConflict, Lose, Unauthorized,
        Receive
  <2>5. CASE Open \/ Close \/ SignOut \/ SignIn \/ UNCHANGED vars
    BY <2>5 DEF Open, Close, SignOut, SignIn, vars
  <2>. QED BY <2>1, <2>2, <2>3, <2>4, <2>5 DEF Next, Command
<1>. QED BY <1>6, <1>7, <1>8

\* A version that was reached stays the version of that moment.
LEMMA VersionStands ==
  ASSUME TypeOK, [Next]_vars, NEW o, NEW at \in 0..Now
  PROVE  Version(o, at)' = Version(o, at)
<1>1. Now \in Nat /\ \A n \in 1..at : log'[n] = log[n]
  BY NowType, LogStep
<1>2. {n \in 1..at : log'[n] \in Family(o)} = {n \in 1..at : log[n] \in Family(o)}
  BY <1>1
<1>. QED BY <1>2 DEF Version

\* A step of a run: it ends, is answered, begins, or goes on to the next step of its script.
Ended(l) == run'[l] = Idle
AnsweredNow(l) ==
  /\ run[l] # Idle /\ Step(l).do \in Writes
  /\ run'[l].at = run[l].at /\ run'[l].intent = run[l].intent
  /\ run'[l].got = run[l].got /\ run'[l].seen = run[l].seen
Begun(l) ==
  /\ run[l] = Idle /\ dialog.open
  /\ run'[l].at = 1 /\ run'[l].intent = dialog.count /\ run'[l].wait = "no"
  /\ run'[l].seen \in ShownAt \ {None}
GoneOn(l, v) ==
  /\ run[l] # Idle
  /\ run'[l].at = run[l].at + 1 /\ run'[l].intent = run[l].intent /\ run'[l].wait = "no"
  /\ run'[l].seen = run[l].seen
  /\ run'[l].got = Known(run[l], Step(l).on, v)
Seen(l) == GoneOn(l, Version(Step(l).on, Now)) /\ Step(l).do \notin Writes
           /\ (Step(l).do = "same" => Version(Step(l).on, Now) = Version(Step(l).on, run[l].seen))
Written(l) == GoneOn(l, run[l].reply) /\ Step(l).do \in Writes

LEMMA ShownBounds ==
  ASSUME TypeOK, FeedInv, RunInv, NEW at \in ShownAt \ {None}
  PROVE  at \in Nat /\ at <= Now
<1>1. dialog.review \in Nat /\ dialog.review <= Now /\ Now \in Nat
  BY NowType DEF TypeOK, Dialogs, RunInv
<1>2. \A q \in DOMAIN cache : cache[q].data # None => cache[q].data \in Nat /\ cache[q].data <= Now
  BY FeedFacts DEF FeedInv, Bounded
<1>. QED BY <1>1, <1>2 DEF ShownAt

\* What a click begins.
LEMMA ClickNext ==
  ASSUME TypeOK, NEW k \in Slots, Click(k)
  PROVE  \E r : /\ GoesOn(k, r, pending) /\ Execution(r) /\ r.at = 1 /\ r.at \in DOMAIN Script
                /\ r.intent = dialog.count /\ r.seen \in ShownAt \ {None} /\ r.wait = "no"
<1>1. PICK at \in ShownAt \ {None} :
        GoesOn(k, [Idle EXCEPT !.at = 1, !.intent = dialog.count, !.seen = at], pending)
  BY DEF Click
<1>2. at \in Nat
  BY QueryType DEF ShownAt, QueryRows, TypeOK, Dialogs
<1>3. PICK r : r = [Idle EXCEPT !.at = 1, !.intent = dialog.count, !.seen = at]
  OBVIOUS
<1>4. dialog.count \in Nat
  BY DEF TypeOK, Dialogs
<1>5. /\ Execution(r) /\ r.at = 1 /\ r.intent = dialog.count /\ r.seen = at /\ r.wait = "no"
  BY <1>2, <1>3, <1>4 DEF Execution, Idle
<1>6. 1 \in DOMAIN Script
  BY ScriptOK
<1>. QED BY <1>1, <1>3, <1>5, <1>6

LEMMA RunStep ==
  ASSUME TypeOK, RunInv, [Next]_vars, NEW l \in Slots
  PROVE  run'[l] = run[l] \/ Ended(l) \/ AnsweredNow(l) \/ Begun(l) \/ Seen(l) \/ Written(l)
<1>. DEFINE Goal == run'[l] = run[l] \/ Ended(l) \/ AnsweredNow(l) \/ Begun(l) \/ Seen(l) \/ Written(l)
<1>. USE DEF server, person, feed
<1>1. ASSUME NEW k \in Slots, Click(k) PROVE Goal
  <2>1. PICK r : /\ GoesOn(k, r, pending) /\ Execution(r) /\ r.at = 1 /\ r.at \in DOMAIN Script
                 /\ r.intent = dialog.count /\ r.seen \in ShownAt \ {None} /\ r.wait = "no"
    BY <1>1, ClickNext
  <2>2. /\ \A m \in Slots : m # k => run'[m] = run[m]
        /\ run'[k].at = r.at /\ run'[k].intent = r.intent /\ run'[k].seen = r.seen /\ run'[k].wait = r.wait
    BY <2>1, KnownKeys, GoesOnType
  <2>. QED BY <1>1, <2>1, <2>2 DEF Begun, Click
<1>2. ASSUME NEW k \in Slots, Look(k) PROVE Goal
  <2>1. PICK r : /\ GoesOn(k, r, pending) /\ Execution(r) /\ r.at \in DOMAIN Script
                 /\ r.at = run[k].at + 1 /\ r.intent = run[k].intent /\ r.seen = run[k].seen
                 /\ r.got = Known(run[k], Step(k).on, Version(Step(k).on, Now)) /\ r.wait = run[k].wait
    BY <1>2, LookNext
  <2>2. /\ \A m \in Slots : m # k => run'[m] = run[m]
        /\ run'[k].at = r.at /\ run'[k].intent = r.intent /\ run'[k].seen = r.seen
        /\ run'[k].wait = r.wait /\ run'[k].got = r.got
    BY <2>1, KnownKeys, GoesOnType
  <2>3. /\ run[k] # Idle /\ Step(k).do \notin Writes /\ run[k].wait = "no"
        /\ (Step(k).do = "same" => Version(Step(k).on, Now) = Version(Step(k).on, run[k].seen))
    BY <1>2 DEF Look, Writing, RunInv, Active
  <2>. QED BY <2>1, <2>2, <2>3 DEF Seen, GoneOn
<1>3. ASSUME NEW k \in Slots, Post(k) \/ Replay(k) \/ Conflict(k) PROVE Goal
  <2>1. PICK wait \in {"done", "conflict"}, v \in Nat : Reply(k, wait, v)
    <3>1. Post(k) => Reply(k, "done", Version(Step(k).on, Now) + 1)
      BY DEF Post
    <3>2. Version(Step(k).on, Now) + 1 \in Nat
      BY VersionType, NowType
    <3>3. Replay(k) => Reply(k, "done", answered[run[k].key]) /\ answered[run[k].key] \in Nat
      BY DEF Replay, TypeOK
    <3>4. Conflict(k) => Reply(k, "conflict", 0)
      BY DEF Conflict
    <3>. QED BY <1>3, <3>1, <3>2, <3>3, <3>4
  <2>2. run[k] # Idle /\ Step(k).do \in Writes
    BY <1>3 DEF Post, Replay, Conflict, Ready, Writing
  <2>3. /\ \A m \in Slots : m # k => run'[m] = run[m]
        /\ run'[k].at = run[k].at /\ run'[k].intent = run[k].intent /\ run'[k].got = run[k].got
        /\ run'[k].seen = run[k].seen
    BY <2>1, <2>2, ReplyType
  <2>. QED BY <2>2, <2>3 DEF AnsweredNow
<1>4. ASSUME NEW k \in Slots, Receive(k) PROVE Goal
  <2>1. CASE run[k].at < Len(Script)
    <3>1. PICK r : /\ GoesOn(k, r, Answered(k)) /\ Execution(r) /\ r.at \in DOMAIN Script
                   /\ r.at = run[k].at + 1 /\ r.intent = run[k].intent /\ r.seen = run[k].seen
                   /\ r.got = Known(run[k], Step(k).on, run[k].reply) /\ r.wait = "no"
      BY <1>4, <2>1, ReceiveNext
    <3>2. /\ \A m \in Slots : m # k => run'[m] = run[m]
          /\ run'[k].at = r.at /\ run'[k].intent = r.intent /\ run'[k].seen = r.seen
          /\ run'[k].wait = r.wait /\ run'[k].got = r.got
      BY <3>1, KnownKeys, GoesOnType
    <3>3. run[k] # Idle /\ Step(k).do \in Writes
      BY <1>4 DEF Receive, RunInv, Active, Idle
    <3>. QED BY <3>1, <3>2, <3>3 DEF Written, GoneOn
  <2>2. CASE ~(run[k].at < Len(Script))
    <3>1. Stop(k)
      BY <1>4, <2>2 DEF Receive
    <3>. QED BY <3>1, StopType DEF Ended
  <2>. QED BY <2>1, <2>2
<1>5. ASSUME NEW k \in Slots, Differs(k) \/ ReceiveConflict(k) \/ Lose(k) \/ Unauthorized(k) PROVE Goal
  <2>1. Stop(k)
    BY <1>5 DEF Differs, ReceiveConflict, Lose, Unauthorized
  <2>. QED BY <2>1, StopType DEF Ended
<1>6. ASSUME Feed PROVE run' = run
  BY <1>6 DEF Feed, Serve, Arrive, FetchFails, Retry, Connect, Drop, Refuse, RecoverFails,
      Deliver, Recover
<1>7. CASE Open \/ Close \/ SignOut \/ SignIn \/ UNCHANGED vars
  BY <1>7 DEF Open, Close, SignOut, SignIn, vars
<1>8. \A o \in scene.changes : Change(o) => run' = run
  BY DEF Change
<1>. QED BY <1>1, <1>2, <1>3, <1>4, <1>5, <1>6, <1>7, <1>8 DEF Next, Command


\* A step of the dialog: it is opened in a session, closed, a session ends, an answer is shown in
\* a dialog that stays, or an answer to an earlier opening comes into the present one.
Opened == /\ session /\ ~dialog.open /\ session' = session
          /\ dialog'.open /\ dialog'.count = dialog.count + 1 /\ dialog'.review = Now
          /\ dialog'.ended = dialog.ended /\ dialog'.late = dialog.late
Shut == /\ ~dialog'.open /\ dialog'.count = dialog.count /\ dialog'.review = dialog.review
        /\ dialog'.ended \in {dialog.ended, dialog.count} /\ dialog'.late = dialog.late
TakenInto == /\ session' = session /\ dialog'.open = dialog.open
             /\ dialog'.count = dialog.count /\ dialog'.review = dialog.review
             /\ dialog'.ended = dialog.ended
             /\ dialog'.late = IF dialog.open THEN dialog.late \cup {dialog.count} ELSE dialog.late

NewRound == /\ session' = session /\ dialog'.open = dialog.open
            /\ dialog'.count = dialog.count + 1 /\ dialog'.review = dialog.review
            /\ dialog'.ended = dialog.ended /\ dialog'.late = dialog.late

LEMMA DialogStep ==
  ASSUME TypeOK, RunInv, [Next]_vars
  PROVE  \/ dialog' = dialog /\ (session' = session \/ ~session)
         \/ Opened \/ Shut \/ NewRound
         \/ TakenInto /\ \E k \in Slots : Receive(k) /\ run[k].intent <= dialog.ended
<1>. DEFINE Goal == \/ dialog' = dialog /\ (session' = session \/ ~session)
                    \/ Opened \/ Shut \/ NewRound
                    \/ TakenInto /\ \E k \in Slots : Receive(k) /\ run[k].intent <= dialog.ended
<1>. USE DEF server, feed
<1>0. dialog \in Dialogs /\ dialog.count \in Nat /\ Now \in Nat
  BY NowType DEF TypeOK, Dialogs
<1>1. CASE Open
  <2>1. PICK n \in Nat, m \in Nat : n = dialog.count + 1 /\ m = Now
    BY <1>0
  <2>2. dialog' = [dialog EXCEPT !.open = TRUE, !.count = n, !.review = m]
    BY <1>1, <2>1 DEF Open
  <2>3. dialog'.open = TRUE /\ dialog'.count = n /\ dialog'.review = m /\ dialog'.ended = dialog.ended
        /\ dialog'.late = dialog.late
    BY <2>2, <1>0 DEF Dialogs
  <2>. QED BY <1>1, <2>1, <2>3 DEF Open, Opened
<1>2. CASE Close
  BY <1>2, <1>0 DEF Close, Shut, Dialogs
<1>3. CASE SignOut
  BY <1>3, <1>0 DEF SignOut, Shut, Dialogs
<1>4. ASSUME NEW k \in Slots, Receive(k) PROVE Goal
  <2>1. session' = session
    BY <1>4 DEF Receive
  <2>2. CASE dialog' = dialog
    BY <2>1, <2>2
  <2>3. CASE dialog' = Closed
    BY <2>3, <1>0 DEF Closed, Shut, Dialogs
  <2>4. CASE dialog' = NotReached /\ run[k].intent <= dialog.ended
    <3>1. PICK L : L = IF dialog.open THEN dialog.late \cup {dialog.count} ELSE dialog.late
      OBVIOUS
    <3>2. dialog' = [dialog EXCEPT !.late = L]
      BY <2>4, <3>1 DEF NotReached
    <3>3. /\ dialog'.open = dialog.open /\ dialog'.count = dialog.count /\ dialog'.late = L
          /\ dialog'.review = dialog.review /\ dialog'.ended = dialog.ended
      BY <3>2, <1>0 DEF Dialogs
    <3>. QED BY <1>4, <2>1, <2>4, <3>1, <3>3 DEF TakenInto
  <2>5. CASE dialog' = Renewed
    <3>1. PICK n \in Nat : n = dialog.count + 1
      BY <1>0
    <3>2. dialog' = [dialog EXCEPT !.count = n]
      BY <2>5, <3>1 DEF Renewed
    <3>3. /\ dialog'.open = dialog.open /\ dialog'.count = n /\ dialog'.review = dialog.review
          /\ dialog'.ended = dialog.ended /\ dialog'.late = dialog.late
      BY <3>2, <1>0 DEF Dialogs
    <3>. QED BY <2>1, <3>1, <3>3 DEF NewRound
  <2>. QED BY <1>4, <2>2, <2>3, <2>4, <2>5 DEF Receive
<1>5. ASSUME NEW k \in Slots, \/ Click(k) \/ Look(k) \/ Differs(k) \/ Post(k) \/ Replay(k)
                              \/ Conflict(k) \/ ReceiveConflict(k) \/ Lose(k) \/ Unauthorized(k)
      PROVE  dialog' = dialog /\ session' = session
  BY <1>5 DEF Click, Look, Differs, Post, Replay, Conflict, ReceiveConflict, Lose, Unauthorized
<1>6. ASSUME Feed PROVE dialog' = dialog /\ session' = session
  BY <1>6 DEF Feed, Serve, Arrive, FetchFails, Retry, Connect, Drop, Refuse, RecoverFails,
      Deliver,
              Recover, person
<1>7. ASSUME SignIn PROVE dialog' = dialog /\ ~session
  BY <1>7 DEF SignIn, person
<1>8. ASSUME UNCHANGED vars PROVE dialog' = dialog /\ session' = session
  BY <1>8 DEF vars, person
<1>9. \A o \in scene.changes : Change(o) => dialog' = dialog /\ session' = session
  BY DEF Change, person
<1>. QED BY <1>1, <1>2, <1>3, <1>4, <1>5, <1>6, <1>7, <1>8, <1>9 DEF Next, Command

\* What a request leaves behind when it is carried out.
Effect(k) == [at |-> run[k].at, intent |-> run[k].intent,
              basis |-> Version(Step(k).on, Now), seen |-> run[k].seen]

LEMMA EffectStep ==
  ASSUME TypeOK, [Next]_vars
  PROVE  \/ effects' = effects /\ answered' = answered
         \/ \E k \in Slots : Post(k) /\ effects' = Append(effects, Effect(k))
<1>. USE DEF server
<1>1. ASSUME NEW k \in Slots, Post(k) PROVE effects' = Append(effects, Effect(k))
  BY <1>1 DEF Post, Effect
<1>2. ASSUME NEW k \in Slots, \/ Click(k) \/ Look(k) \/ Differs(k) \/ Replay(k) \/ Conflict(k)
                              \/ ReceiveConflict(k) \/ Lose(k) \/ Unauthorized(k) \/ Receive(k)
      PROVE  effects' = effects /\ answered' = answered
  BY <1>2 DEF Click, Look, Differs, Replay, Conflict, ReceiveConflict, Lose, Unauthorized, Receive
<1>3. ASSUME Feed PROVE effects' = effects /\ answered' = answered
  BY <1>3 DEF Feed, Serve, Arrive, FetchFails, Retry, Connect, Drop, Refuse, RecoverFails,
      Deliver, Recover
<1>4. ASSUME Open \/ Close \/ SignOut \/ SignIn PROVE effects' = effects /\ answered' = answered
  BY <1>4 DEF Open, Close, SignOut, SignIn
<1>5. ASSUME UNCHANGED vars PROVE effects' = effects /\ answered' = answered
  BY <1>5 DEF vars
<1>6. \A o \in scene.changes : Change(o) => effects' = effects /\ answered' = answered
  BY DEF Change
<1>. QED BY <1>1, <1>2, <1>3, <1>4, <1>5, <1>6 DEF Next, Command

LEMMA RunTypes ==
  ASSUME TypeOK, NEW k \in Slots
  PROVE  /\ run[k].at \in Nat /\ run[k].intent \in Nat /\ run[k].seen \in Nat /\ run[k].key \in Nat
         /\ run[k].wait \in {"no", "done", "conflict"}
         /\ dialog.count \in Nat /\ dialog.review \in Nat /\ dialog.ended \in Nat /\ dialog.late \subseteq Nat
         /\ Now \in Nat
BY NowType DEF TypeOK, Execution, Dialogs

LEMMA RunInit == Init => RunInv
<1>. SUFFICES ASSUME Init PROVE RunInv
  OBVIOUS
<1>1. Now = 0 /\ dialog.review = 0 /\ dialog.ended = 0 /\ dialog.count = 0 /\ ~dialog.open
      /\ effects = <<>> /\ \A k \in Slots : run[k] = Idle
  BY DEF Init, Now
<1>. QED BY <1>1 DEF RunInv, Active, Idle

LEMMA RunInvStep ==
  ASSUME TypeOK, FeedInv, RunInv, [Next]_vars
  PROVE  RunInv'
<1>0. TypeOK' /\ Now \in Nat /\ Now' \in Nat /\ Now <= Now' /\ scene' = scene
  BY TypeStep, LogStep, NowType
<1>d. dialog \in Dialogs /\ dialog' \in Dialogs /\ dialog.count \in Nat /\ dialog.ended \in Nat
      /\ dialog.review \in Nat /\ dialog.count <= dialog'.count
      /\ dialog'.count \in Nat
  <2>1. dialog \in Dialogs /\ dialog' \in Dialogs /\ dialog.count \in Nat /\ dialog.ended \in Nat
        /\ dialog.review \in Nat
    BY <1>0 DEF TypeOK, Dialogs
  <2>. QED BY <2>1, DialogStep DEF Opened, Shut, NewRound, TakenInto, Dialogs
<1>1. dialog'.review <= Now' /\ dialog'.ended <= dialog'.count
      /\ (dialog'.open => session' /\ dialog'.ended < dialog'.count)
  <2>1. dialog.review <= Now /\ dialog.ended <= dialog.count
        /\ (dialog.open => session /\ dialog.ended < dialog.count)
    BY DEF RunInv
  <2>. QED BY <1>0, <1>d, <2>1, DialogStep DEF Opened, Shut, NewRound, TakenInto
<1>2. ASSUME NEW k \in Slots
      PROVE  /\ run'[k].seen <= Now'
             /\ run'[k] # Idle => run'[k].intent \in 1..dialog'.count
  <2>0. run[k].seen \in Nat /\ run[k].seen <= Now /\ (run[k] # Idle => run[k].intent \in 1..dialog.count)
    BY RunTypes DEF RunInv, Active
  <2>1. CASE run'[k] = run[k]
    BY <1>0, <1>d, <2>0, <2>1
  <2>2. CASE Ended(k)
    BY <1>0, <2>2 DEF Ended, Idle
  <2>3. CASE AnsweredNow(k)
    BY <1>0, <1>d, <2>0, <2>3 DEF AnsweredNow
  <2>4. CASE Begun(k)
    <3>1. run'[k].seen \in Nat /\ run'[k].seen <= Now
      BY <2>4, ShownBounds DEF Begun
    <3>2. dialog.ended < dialog.count
      BY <2>4 DEF Begun, RunInv
    <3>. QED BY <1>0, <1>d, <2>4, <3>1, <3>2 DEF Begun
  <2>5. CASE \E v : GoneOn(k, v)
    BY <1>0, <1>d, <2>0, <2>5 DEF GoneOn
  <2>. QED BY <2>1, <2>2, <2>3, <2>4, <2>5, RunStep DEF Seen, Written
<1>3. ASSUME NEW k \in Slots, run'[k].wait # "no"
      PROVE  Script[run'[k].at].do \in Writes
  <2>1. CASE run'[k] = run[k]
    BY <1>3, <2>1 DEF RunInv, Active, Step, Idle
  <2>2. CASE Ended(k)
    BY <1>3, <2>2 DEF Ended, Idle
  <2>3. CASE AnsweredNow(k)
    BY <2>3 DEF AnsweredNow, Step
  <2>4. CASE Begun(k) \/ \E v : GoneOn(k, v)
    BY <1>3, <2>4 DEF Begun, GoneOn
  <2>. QED BY <2>1, <2>2, <2>3, <2>4, RunStep DEF Seen, Written
<1>4. \A i \in DOMAIN effects' : effects'[i].seen <= Now' /\ effects'[i].intent <= dialog'.count
  <2>0. effects \in Seq(Effects)
    BY DEF TypeOK
  <2>1. \A i \in DOMAIN effects :
          /\ effects[i].seen \in Nat /\ effects[i].intent \in Nat
          /\ effects[i].seen <= Now' /\ effects[i].intent <= dialog'.count
    <3>1. ASSUME NEW i \in DOMAIN effects
          PROVE  /\ effects[i].seen \in Nat /\ effects[i].intent \in Nat
                 /\ effects[i].seen <= Now /\ effects[i].intent <= dialog.count
      <4>1. effects[i] \in Effects
        BY <2>0
      <4>. QED BY <4>1 DEF RunInv, Effects
    <3>. QED BY <1>0, <1>d, <3>1
  <2>2. CASE effects' = effects
    BY <2>1, <2>2
  <2>3. ASSUME NEW k \in Slots, Post(k), effects' = Append(effects, Effect(k))
        PROVE  \A i \in DOMAIN effects' : effects'[i].seen <= Now' /\ effects'[i].intent <= dialog'.count
    <3>1. PICK e : e = Effect(k)
      OBVIOUS
    <3>2. e.seen = run[k].seen /\ e.intent = run[k].intent
      BY <3>1 DEF Effect
    <3>3. e.seen <= Now' /\ e.intent <= dialog'.count
      <4>1. run[k] # Idle
        BY <2>3 DEF Post, Ready, Writing
      <4>. QED BY <1>0, <1>d, <3>2, <4>1, RunTypes DEF RunInv, Active
    <3>4. \A i \in DOMAIN effects' :
            (i \in DOMAIN effects /\ effects'[i] = effects[i]) \/ effects'[i] = e
      BY <2>0, <2>3, <3>1
    <3>. QED BY <2>1, <3>3, <3>4
  <2>. QED BY <2>2, <2>3, EffectStep
<1>. QED BY <1>0, <1>1, <1>2, <1>3, <1>4 DEF RunInv, Active, Step, Script

----------------------------------------------------------------------------
(* What was decided was decided for what was shown.                        *)

LEMMA FamilyMutual == \A o, p : o \in Family(p) => p \in Family(o)
BY DEF Family

LEMMA FamilyOwn == \A o : o \in Family(o)
BY DEF Family

LEMMA KnowsInit == Init => KnowsInv
<1>. SUFFICES ASSUME Init PROVE KnowsInv
  OBVIOUS
<1>1. \A k \in Slots : run[k].at = 0
  BY DEF Init, Idle
<1>. QED BY <1>1 DEF KnowsInv, Compared

\* What a run knows of an object stays while it goes on with others.
LEMMA KnowsOn ==
  ASSUME TypeOK, RunInv, KnowsInv, NEW k \in Slots, NEW o \in Objects, NEW v, GoneOn(k, v),
         Compared(Script, o, run[k].at + 1), Seen(k) \/ Written(k)
  PROVE  o \in DOMAIN run'[k].got /\ run'[k].got[o] = Version(o, run[k].seen)
<1>0. run[k].at \in Nat
  BY RunTypes
<1>1. PICK j \in 1..run[k].at : /\ Script[j].do = "same" /\ Script[j].on = o
                                /\ \A m \in (j + 1)..run[k].at : Script[m].on \notin Family(o)
  BY <1>0 DEF Compared
<1>2. CASE j = run[k].at
  <2>1. Step(k).do = "same" /\ Step(k).on = o
    BY <1>1, <1>2 DEF Step
  <2>2. Seen(k)
    BY <2>1 DEF Written, Writes
  <2>3. run'[k].got = Known(run[k], o, Version(o, run[k].seen))
    BY <2>1, <2>2 DEF Seen, GoneOn
  <2>. QED BY <2>3, FamilyOwn DEF Known
<1>3. CASE j # run[k].at
  <2>1. j \in 1..(run[k].at - 1) /\ run[k].at \in (j + 1)..run[k].at
    BY <1>0, <1>1, <1>3
  <2>2. Compared(Script, o, run[k].at)
    BY <1>0, <1>1, <2>1 DEF Compared
  <2>3. o \in DOMAIN run[k].got /\ run[k].got[o] = Version(o, run[k].seen)
    BY <2>2 DEF KnowsInv
  <2>4. o \notin Family(Step(k).on)
    BY <1>1, <2>1, FamilyMutual DEF Step
  <2>. QED BY <2>3, <2>4 DEF GoneOn, Known
<1>. QED BY <1>2, <1>3

LEMMA KnowsStep ==
  ASSUME TypeOK, FeedInv, RunInv, KnowsInv, [Next]_vars
  PROVE  KnowsInv'
<1>0. scene' = scene /\ Now \in Nat
  BY LogStep, NowType
<1>1. ASSUME NEW k \in Slots, NEW o \in Objects, Compared(Script, o, run'[k].at)
      PROVE  (o \in DOMAIN run[k].got /\ run[k].got[o] = Version(o, run[k].seen))'
  <2>1. CASE run'[k].at = run[k].at /\ run'[k].got = run[k].got /\ run'[k].seen = run[k].seen
    <3>1. PICK s : s = run[k].seen
      OBVIOUS
    <3>2. s \in 0..Now
      BY <1>0, <3>1, RunTypes DEF RunInv
    <3>3. o \in DOMAIN run[k].got /\ run[k].got[o] = Version(o, s)
      BY <1>1, <2>1, <3>1 DEF KnowsInv
    <3>4. Version(o, s)' = Version(o, s)
      BY <3>2, VersionStands
    <3>. QED BY <2>1, <3>1, <3>3, <3>4
  <2>2. CASE Ended(k) \/ Begun(k)
    <3>1. run'[k].at \in {0, 1}
      BY <2>2 DEF Ended, Begun, Idle
    <3>. QED BY <1>1, <3>1 DEF Compared
  <2>3. CASE Seen(k) \/ Written(k)
    <3>1. PICK s, v : s = run[k].seen /\ GoneOn(k, v)
      BY <2>3 DEF Seen, Written
    <3>2. s \in 0..Now
      BY <1>0, <3>1, RunTypes DEF RunInv
    <3>3. run'[k].at = run[k].at + 1 /\ run'[k].seen = s
      BY <3>1 DEF GoneOn
    <3>4. o \in DOMAIN run'[k].got /\ run'[k].got[o] = Version(o, s)
      BY <1>1, <2>3, <3>1, <3>3, KnowsOn
    <3>5. Version(o, s)' = Version(o, s)
      BY <3>2, VersionStands
    <3>. QED BY <3>3, <3>4, <3>5
  <2>. QED BY <2>1, <2>2, <2>3, RunStep DEF AnsweredNow
<1>. QED BY <1>0, <1>1 DEF KnowsInv, Script, Objects

LEMMA DecidedStep ==
  ASSUME TypeOK, RunInv, KnowsInv, DecidedAsShown, [Next]_vars
  PROVE  DecidedAsShown'
<1>0. scene' = scene /\ Script' = Script /\ effects \in Seq(Effects) /\ Now \in Nat
  BY LogStep, NowType DEF Script, TypeOK
<1>c. PICK c, J, S : c = scene.command /\ J = Judged[c] /\ S = Script
  OBVIOUS
<1>. DEFINE Judges(e) == c \in DOMAIN Judged \ ReadAnew /\ S[e.at].do \in {"update", "decide"} /\ S[e.at].on = J
<1>1. ASSUME NEW i \in DOMAIN effects, Judges(effects[i])
      PROVE  effects[i].seen \in 0..Now /\ effects[i].basis = Version(J, effects[i].seen)
  <2>1. effects[i] \in Effects
    BY <1>0
  <2>2. effects[i].seen \in Nat
    BY <2>1 DEF Effects
  <2>. QED BY <1>0, <1>c, <1>1, <2>2 DEF RunInv, DecidedAsShown
<1>3. ASSUME NEW k \in Slots, Post(k), Judges(Effect(k))
      PROVE  Effect(k).basis = Version(J, Effect(k).seen) /\ Effect(k).seen \in 0..Now
  <2>0. Effect(k).seen = run[k].seen /\ Effect(k).at = run[k].at /\ Effect(k).basis = Version(Step(k).on, Now)
    BY DEF Effect
  <2>1. run[k].seen \in 0..Now
    BY <1>0, RunTypes DEF RunInv
  <2>2. Step(k).do \in {"update", "decide"} /\ Step(k).on = J /\ c \in DOMAIN Judged \ ReadAnew
    BY <1>c, <1>3, <2>0 DEF Step
  <2>3. Basis(run[k]) = Version(J, Now)
    BY <1>3, <2>2 DEF Post, Current
  <2>4. CASE Step(k).do = "decide"
    <3>1. Basis(run[k]) = Version(J, run[k].seen)
      BY <2>2, <2>4 DEF Basis, Step
    <3>. QED BY <2>0, <2>1, <2>2, <2>3, <3>1
  <2>5. CASE Step(k).do = "update"
    <3>1. Basis(run[k]) = run[k].got[J]
      BY <2>2, <2>5 DEF Basis, Step
    <3>2. run[k].at \in 1..Len(Calls[c]) /\ J \in Objects
      <4>1. run[k].at \in DOMAIN Script
        BY <1>3 DEF Post, Ready, Writing, TypeOK
      <4>. QED BY <1>c, <4>1, <2>2, ScriptOK DEF Script, Step
    <3>3. Compared(Script, J, run[k].at)
      BY <1>c, <2>2, <2>5, <3>2, UpdatesCompare DEF Script, Step
    <3>4. run[k].got[J] = Version(J, run[k].seen)
      BY <3>2, <3>3 DEF KnowsInv
    <3>. QED BY <2>0, <2>1, <2>2, <2>3, <3>1, <3>4
  <2>. QED BY <2>2, <2>4, <2>5
<1>4. ASSUME NEW i \in DOMAIN effects', NEW e, e = effects'[i], Judges(e)
      PROVE  e.basis = Version(J, e.seen)'
  <2>1. e.seen \in 0..Now /\ e.basis = Version(J, e.seen)
    <3>1. CASE effects' = effects
      BY <1>1, <1>4, <3>1
    <3>2. ASSUME NEW k \in Slots, Post(k), effects' = Append(effects, Effect(k))
          PROVE  e.seen \in 0..Now /\ e.basis = Version(J, e.seen)
      <4>1. (i \in DOMAIN effects /\ e = effects[i]) \/ e = Effect(k)
        <5>1. PICK x : x = Effect(k)
          OBVIOUS
        <5>. QED BY <1>0, <1>4, <3>2, <5>1
      <4>. QED BY <1>1, <1>3, <1>4, <3>2, <4>1
    <3>. QED BY <3>1, <3>2, EffectStep
  <2>2. PICK s : s = e.seen
    OBVIOUS
  <2>3. Version(J, s)' = Version(J, s)
    BY <2>1, <2>2, VersionStands
  <2>. QED BY <2>1, <2>2, <2>3
<1>. QED BY <1>0, <1>c, <1>4 DEF DecidedAsShown


----------------------------------------------------------------------------
(* A creation takes effect once for a round of its dialog.                 *)

LEMMA KeysInit == Init => KeysInv /\ CreatedOnce
<1>. SUFFICES ASSUME Init PROVE KeysInv /\ CreatedOnce
  OBVIOUS
<1>1. pending = {} /\ ~dialog.open /\ effects = <<>> /\ \A k \in Slots : ~Active(k)
  BY DEF Init, Active
<1>. QED BY <1>1 DEF KeysInv, OneKey, OpeningsKey, EffectsKey, CreatedOnce

\* The only step of such a script.
LEMMA SingleStep ==
  ASSUME TypeOK, Single, NEW k \in Slots, Active(k)
  PROVE  run[k].at = 1 /\ Step(k).do = "create" /\ Writing(k)
<1>1. run[k].at \in DOMAIN Script /\ DOMAIN Script = {1}
  BY ScriptOK DEF TypeOK, Active, Single
<1>. QED BY <1>1 DEF Step, Single, Writing, Writes, Active

LEMMA SingleSignature ==
  ASSUME Single, NEW r, r.at = 1 PROVE Signature(r) = Request /\ Script[r.at].do \in Writes
BY DEF Single, Signature, Basis, Request, Writes

\* What an opening of the dialog rests on when a step begins no run and carries nothing out.
LEMMA KeysKept ==
  ASSUME TypeOK, RunInv, Single, KeysInv, CreatedOnce, scene' = scene, effects' = effects,
         answered' = answered,
         \A k \in Slots : Active(k)' =>
           /\ Active(k) /\ run'[k].intent = run[k].intent /\ run'[k].key = run[k].key
           /\ run'[k].sig = run[k].sig /\ run'[k].wait # "conflict",
         pending' \subseteq pending, dialog.late \subseteq dialog'.late,
         dialog'.open /\ dialog'.count \notin dialog'.late =>
           \/ dialog.open /\ dialog'.count = dialog.count /\ pending' = pending
           \/ dialog'.count = dialog.count + 1
  PROVE  KeysInv' /\ CreatedOnce'
<1>1. Script' = Script
  BY DEF Script
<1>2. OneKey /\ OpeningsKey /\ EffectsKey
  BY DEF KeysInv
<1>3. OneKey'
  BY <1>2 DEF OneKey
<1>4. dialog.count \in Nat /\ (\A k \in Slots : Active(k) => run[k].intent \in 1..dialog.count)
  BY DEF TypeOK, Dialogs, RunInv
<1>5. OpeningsKey'
  <2>1. ASSUME NEW k \in Slots, NEW l \in Slots, Active(k)', Active(l)',
               run'[k].intent = run'[l].intent, run'[k].intent \notin dialog'.late
        PROVE  run'[k].key = run'[l].key
    BY <1>2, <2>1 DEF OpeningsKey
  <2>2. ASSUME NEW k \in Slots, Active(k)', dialog'.open, run'[k].intent = dialog'.count,
               run'[k].intent \notin dialog'.late
        PROVE  \E p \in pending' : p.key = run'[k].key
    <3>1. dialog'.count # dialog.count + 1
      BY <1>4, <2>2
    <3>. QED BY <1>2, <2>2, <3>1 DEF OpeningsKey
  <2>. QED BY <2>1, <2>2 DEF OpeningsKey
<1>6. EffectsKey'
  <2>1. ASSUME NEW i \in DOMAIN effects, effects[i].intent \notin dialog'.late, dialog'.open,
               effects[i].intent = dialog'.count
        PROVE  \E p \in pending' : p.key \in DOMAIN answered
    <3>1. effects[i] \in Effects
      BY DEF TypeOK
    <3>2. effects[i].intent \in Nat /\ effects[i].intent <= dialog.count
      BY <3>1 DEF Effects, RunInv
    <3>3. dialog'.count # dialog.count + 1
      BY <1>4, <2>1, <3>2
    <3>. QED BY <1>2, <2>1, <3>3 DEF EffectsKey
  <2>. QED BY <1>2, <2>1 DEF EffectsKey
<1>7. CreatedOnce'
  BY <1>1 DEF CreatedOnce, Disturbed
<1>. QED BY <1>3, <1>5, <1>6, <1>7 DEF KeysInv

\* A step that leaves everything of the person and of the server alone.
LEMMA KeysFrame ==
  ASSUME KeysInv, CreatedOnce, scene' = scene, effects' = effects, answered' = answered,
         UNCHANGED person
  PROVE  KeysInv' /\ CreatedOnce'
BY DEF person, KeysInv, Single, Script, OneKey, OpeningsKey, EffectsKey, CreatedOnce, Disturbed,
    Active, Request

LEMMA KeysClick ==
  ASSUME TypeOK, RunInv, Single, KeysInv, CreatedOnce, NEW k \in Slots, Click(k)
  PROVE  KeysInv' /\ CreatedOnce'
<1>1. PICK r : /\ GoesOn(k, r, pending) /\ Execution(r) /\ r.at = 1 /\ r.at \in DOMAIN Script
               /\ r.intent = dialog.count /\ r.seen \in ShownAt \ {None} /\ r.wait = "no"
  BY ClickNext
<1>2. PICK key : key = KeyFor(Request, pending)
  OBVIOUS
<1>3. /\ \A l \in Slots : l # k => run'[l] = run[l]
      /\ run'[k].intent = dialog.count /\ run'[k].wait = "no"
      /\ run'[k].sig = Request /\ run'[k].key = key
      /\ pending' = pending \cup {[sig |-> Request, key |-> key]}
  <2>1. Signature(r) = Request /\ Script[r.at].do \in Writes
    BY <1>1, SingleSignature
  <2>. QED BY <1>1, <1>2, <2>1, KnownKeys, GoesOnType
<1>4. OneKey /\ OpeningsKey /\ EffectsKey
  BY DEF KeysInv
<1>5. \A p \in pending : p.key = key
  BY <1>2, <1>4, KeyForHeld DEF OneKey
<1>6. /\ dialog' = dialog /\ dialog.open /\ run[k] = Idle /\ effects' = effects
      /\ answered' = answered /\ scene' = scene /\ Script' = Script
  BY DEF Click, server, Script
<1>7. OneKey'
  <2>1. \A p \in pending' : p.sig = Request /\ p.key = key
    BY <1>3, <1>4, <1>5 DEF OneKey
  <2>. QED BY <1>3, <1>4, <2>1 DEF OneKey, Request, Active
<1>8. \A l \in Slots : Active(l) /\ run[l].intent = dialog.count /\ dialog.count \notin dialog.late
                         => run[l].key = key
  BY <1>4, <1>5, <1>6 DEF OpeningsKey
<1>9. [sig |-> Request, key |-> key] \in pending' /\ pending \subseteq pending'
  BY <1>3
<1>10. OpeningsKey'
  <2>1. ASSUME NEW l \in Slots, NEW m \in Slots, Active(l)', Active(m)',
               run'[l].intent = run'[m].intent, run'[l].intent \notin dialog'.late
        PROVE  run'[l].key = run'[m].key
    <3>1. \A x \in Slots : x # k /\ Active(x)' => Active(x)
      BY <1>3 DEF Active
    <3>2. CASE l # k /\ m # k
      BY <1>3, <1>4, <1>6, <2>1, <3>1, <3>2 DEF OpeningsKey
    <3>3. CASE l = k \/ m = k
      BY <1>3, <1>6, <1>8, <2>1, <3>1, <3>3
    <3>. QED BY <3>2, <3>3
  <2>2. ASSUME NEW l \in Slots, Active(l)', run'[l].intent = dialog'.count,
               run'[l].intent \notin dialog'.late
        PROVE  \E p \in pending' : p.key = run'[l].key
    <3>1. run'[l].key = key
      BY <1>3, <1>6, <1>8, <2>2 DEF Active
    <3>. QED BY <1>9, <3>1
  <2>. QED BY <2>1, <2>2 DEF OpeningsKey
<1>11. EffectsKey'
  <2>1. ASSUME NEW i \in DOMAIN effects, effects[i].intent \notin dialog.late,
               NEW l \in Slots, Active(l)', run'[l].intent = effects[i].intent
        PROVE  run'[l].key \in DOMAIN answered
    <3>1. CASE l # k
      BY <1>3, <1>4, <2>1, <3>1 DEF EffectsKey, Active
    <3>2. CASE l = k
      BY <1>3, <1>4, <1>5, <1>6, <2>1, <3>2 DEF EffectsKey
    <3>. QED BY <3>1, <3>2
  <2>2. ASSUME NEW i \in DOMAIN effects, effects[i].intent \notin dialog.late,
               effects[i].intent = dialog.count
        PROVE  \E p \in pending' : p.key \in DOMAIN answered
    BY <1>4, <1>6, <1>9, <2>2 DEF EffectsKey
  <2>. QED BY <1>6, <2>1, <2>2 DEF EffectsKey
<1>12. CreatedOnce'
  BY <1>6 DEF CreatedOnce, Disturbed
<1>. QED BY <1>7, <1>10, <1>11, <1>12 DEF KeysInv

LEMMA KeysPost ==
  ASSUME TypeOK, RunInv, Single, KeysInv, CreatedOnce, NEW k \in Slots, Post(k)
  PROVE  KeysInv' /\ CreatedOnce'
<1>1. PICK e : e = Effect(k)
  OBVIOUS
<1>2. e.intent = run[k].intent
  BY <1>1 DEF Effect
<1>3. /\ effects' = Append(effects, e) /\ effects \in Seq(Effects)
      /\ DOMAIN answered' = DOMAIN answered \cup {run[k].key} /\ run[k].key \notin DOMAIN answered
      /\ dialog' = dialog /\ pending' = pending /\ scene' = scene /\ Script' = Script
      /\ Active(k)
  BY <1>1 DEF Post, Effect, TypeOK, Script, Ready, Writing, Active
<1>4. /\ \A l \in Slots : l # k => run'[l] = run[l]
      /\ run'[k].intent = run[k].intent /\ run'[k].key = run[k].key /\ run'[k].sig = run[k].sig
      /\ run'[k].wait = "done"
  <2>1. PICK v : v = Version(Step(k).on, Now) + 1
    OBVIOUS
  <2>2. v \in Nat /\ Reply(k, "done", v)
    BY <2>1, VersionType, NowType DEF Post
  <2>. QED BY <1>3, <2>2, ReplyType DEF Active
<1>5. OneKey /\ OpeningsKey /\ EffectsKey
  BY DEF KeysInv
<1>6. \A l \in Slots : /\ Active(l)' => Active(l)
                       /\ run'[l].intent = run[l].intent /\ run'[l].key = run[l].key
                       /\ run'[l].sig = run[l].sig
                       /\ run'[l].wait \in {run[l].wait, "done"}
  BY <1>3, <1>4 DEF Active
<1>7. OneKey'
  BY <1>3, <1>5, <1>6 DEF OneKey, Request
<1>8. OpeningsKey'
  BY <1>3, <1>5, <1>6 DEF OpeningsKey
<1>9. ASSUME NEW i \in DOMAIN effects'
      PROVE  (i \in DOMAIN effects /\ effects'[i] = effects[i]) \/ (i = Len(effects) + 1 /\ effects'[i] = e)
  BY <1>3
<1>10. EffectsKey'
  <2>1. ASSUME NEW i \in DOMAIN effects', effects'[i].intent \notin dialog.late,
               NEW l \in Slots, Active(l), run[l].intent = effects'[i].intent
        PROVE  run[l].key \in DOMAIN answered'
    <3>1. CASE i \in DOMAIN effects /\ effects'[i] = effects[i]
      BY <1>3, <1>5, <2>1, <3>1 DEF EffectsKey
    <3>2. CASE effects'[i] = e
      BY <1>2, <1>3, <1>5, <2>1, <3>2 DEF OpeningsKey
    <3>. QED BY <1>9, <3>1, <3>2
  <2>2. ASSUME NEW i \in DOMAIN effects', effects'[i].intent \notin dialog.late,
               dialog.open, effects'[i].intent = dialog.count
        PROVE  \E p \in pending : p.key \in DOMAIN answered'
    <3>1. CASE i \in DOMAIN effects /\ effects'[i] = effects[i]
      BY <1>3, <1>5, <2>2, <3>1 DEF EffectsKey
    <3>2. CASE effects'[i] = e
      BY <1>2, <1>3, <1>5, <2>2, <3>2 DEF OpeningsKey
    <3>. QED BY <1>9, <3>1, <3>2
  <2>. QED BY <1>3, <1>6, <2>1, <2>2 DEF EffectsKey
<1>11. \A i \in DOMAIN effects : effects[i].intent \notin dialog.late => effects[i].intent # e.intent
  BY <1>2, <1>3, <1>5 DEF EffectsKey
<1>12. CreatedOnce'
  <2>1. SUFFICES ASSUME NEW i \in DOMAIN effects', NEW j \in DOMAIN effects',
                        effects'[i].intent = effects'[j].intent, effects'[i].intent \notin dialog.late
                 PROVE  i = j
    BY <1>3 DEF CreatedOnce, Disturbed
  <2>2. CASE /\ i \in DOMAIN effects /\ effects'[i] = effects[i]
             /\ j \in DOMAIN effects /\ effects'[j] = effects[j]
    BY <2>1, <2>2 DEF CreatedOnce, Disturbed, Single
  <2>3. CASE \/ i = Len(effects) + 1 /\ effects'[i] = e
             \/ j = Len(effects) + 1 /\ effects'[j] = e
    BY <1>9, <1>11, <2>1, <2>3
  <2>4. (i \in DOMAIN effects /\ effects'[i] = effects[i]) \/ (i = Len(effects) + 1 /\ effects'[i] = e)
    BY <1>9
  <2>5. (j \in DOMAIN effects /\ effects'[j] = effects[j]) \/ (j = Len(effects) + 1 /\ effects'[j] = e)
    BY <1>9
  <2>. QED BY <2>2, <2>3, <2>4, <2>5
<1>. QED BY <1>7, <1>8, <1>10, <1>12 DEF KeysInv

\* An answer takes the key of the request away: nothing else is pending.
LEMMA NothingHeld ==
  ASSUME Single, KeysInv, NEW k \in Slots, Active(k) PROVE Answered(k) = {}
BY DEF KeysInv, OneKey, Answered

LEMMA KeysStops ==
  ASSUME TypeOK, RunInv, Single, KeysInv, CreatedOnce, [Next]_vars, NEW k \in Slots,
         Receive(k) \/ Lose(k) \/ Unauthorized(k)
  PROVE  KeysInv' /\ CreatedOnce'
<1>0. scene' = scene /\ effects' = effects /\ answered' = answered /\ run[k] # Idle
  BY DEF Receive, Lose, Unauthorized, server, Idle
<1>1. OneKey
  BY DEF KeysInv
<1>2. Stop(k)
  <2>1. ASSUME Receive(k) PROVE ~(run[k].at < Len(Script))
    BY <1>0, SingleStep DEF Active, Single
  <2>. QED BY <2>1 DEF Receive, Lose, Unauthorized
<1>3. \A l \in Slots : Active(l)' => Active(l) /\ run'[l] = run[l] /\ run[l].wait # "conflict"
  BY <1>1, <1>2, StopType DEF Active, OneKey
<1>4. CASE Receive(k)
  <2>1. pending' = {} /\ (dialog' = Closed \/ dialog' = Renewed \/ dialog' = NotReached)
    <3>1. ~(run[k].at < Len(Script))
      BY <1>0, SingleStep DEF Active, Single
    <3>. QED BY <1>0, <1>4, <3>1, NothingHeld DEF Receive, Active
  <2>2. /\ dialog.late \subseteq dialog'.late
        /\ dialog'.open => dialog'.count \in dialog'.late \/ dialog'.count = dialog.count + 1
    <3>0. dialog \in Dialogs
      BY DEF TypeOK
    <3>1. CASE dialog' = Closed
      BY <3>0, <3>1 DEF Closed, Dialogs
    <3>2. CASE dialog' = NotReached
      <4>1. PICK L : L = IF dialog.open THEN dialog.late \cup {dialog.count} ELSE dialog.late
        OBVIOUS
      <4>2. dialog' = [dialog EXCEPT !.late = L]
        BY <3>2, <4>1 DEF NotReached
      <4>3. dialog'.open = dialog.open /\ dialog'.count = dialog.count /\ dialog'.late = L
        BY <3>0, <4>2 DEF Dialogs
      <4>. QED BY <4>1, <4>3
    <3>3. CASE dialog' = Renewed
      <4>1. PICK n : n = dialog.count + 1
        OBVIOUS
      <4>2. dialog' = [dialog EXCEPT !.count = n]
        BY <3>3, <4>1 DEF Renewed
      <4>3. dialog'.count = n /\ dialog'.late = dialog.late
        BY <3>0, <4>2 DEF Dialogs
      <4>. QED BY <4>1, <4>3
    <3>. QED BY <2>1, <3>1, <3>2, <3>3
  <2>. QED BY <1>0, <1>3, <2>1, <2>2, KeysKept
<1>5. CASE Lose(k)
  <2>1. pending' = pending /\ dialog' = dialog
    BY <1>5 DEF Lose
  <2>. QED BY <1>0, <1>3, <2>1, KeysKept
<1>6. CASE Unauthorized(k)
  <2>1. pending' \subseteq pending /\ dialog' = dialog /\ ~dialog.open
    BY <1>6 DEF Unauthorized, Answered, RunInv
  <2>. QED BY <1>0, <1>3, <2>1, KeysKept
<1>. QED BY <1>4, <1>5, <1>6

LEMMA KeysStep ==
  ASSUME TypeOK, RunInv, KeysInv, CreatedOnce, [Next]_vars
  PROVE  KeysInv' /\ CreatedOnce'
<1>. USE DEF server, feed
<1>0. scene' = scene /\ Script' = Script
  BY LogStep DEF Script
<1>1. CASE ~Single
  BY <1>0, <1>1 DEF KeysInv, Single, CreatedOnce
<1>2. CASE Single
  <2>0. OneKey
    BY <1>2 DEF KeysInv
  <2>1. CASE Open
    <3>1. PICK n, m : n = dialog.count + 1 /\ m = Now
      OBVIOUS
    <3>2. dialog' = [dialog EXCEPT !.open = TRUE, !.count = n, !.review = m] /\ dialog \in Dialogs
      BY <2>1, <3>1 DEF Open, TypeOK
    <3>3. dialog'.count = dialog.count + 1 /\ dialog'.late = dialog.late
      BY <3>1, <3>2 DEF Dialogs
    <3>4. /\ run' = run /\ pending' = pending /\ effects' = effects /\ answered' = answered
      BY <2>1 DEF Open
    <3>. QED BY <1>0, <1>2, <2>0, <3>3, <3>4, KeysKept DEF OneKey, Active
  <2>2. CASE Close
    <3>1. ~dialog'.open /\ dialog'.late = dialog.late
      BY <2>2 DEF Close, Dialogs, TypeOK
    <3>2. /\ run' = run /\ pending' = pending /\ effects' = effects /\ answered' = answered
      BY <2>2 DEF Close
    <3>. QED BY <1>0, <1>2, <2>0, <3>1, <3>2, KeysKept DEF OneKey, Active
  <2>3. CASE SignOut
    <3>1. ~dialog'.open /\ dialog'.late = dialog.late /\ pending' = {}
      BY <2>3 DEF SignOut, Dialogs, TypeOK
    <3>2. /\ run' = run /\ effects' = effects /\ answered' = answered
      BY <2>3 DEF SignOut
    <3>. QED BY <1>0, <1>2, <2>0, <3>1, <3>2, KeysKept DEF OneKey, Active
  <2>4. ASSUME NEW k \in Slots, Look(k) \/ Differs(k) \/ Conflict(k) \/ ReceiveConflict(k) PROVE FALSE
    <3>1. Active(k)
      BY <2>4 DEF Look, Differs, Conflict, ReceiveConflict, Ready, Writing, Active, Idle
    <3>. QED BY <1>2, <2>0, <2>4, <3>1, SingleStep DEF Look, Differs, Conflict, ReceiveConflict,
        Current, OneKey
  <2>5. ASSUME NEW k \in Slots, Replay(k) PROVE KeysInv' /\ CreatedOnce'
    <3>1. PICK v : v = answered[run[k].key]
      OBVIOUS
    <3>2. /\ v \in Nat /\ Reply(k, "done", v) /\ run[k] # Idle
          /\ dialog' = dialog /\ pending' = pending /\ effects' = effects /\ answered' = answered
      BY <2>5, <3>1 DEF Replay, TypeOK, Ready, Writing
    <3>3. /\ \A l \in Slots : l # k => run'[l] = run[l]
          /\ run'[k].intent = run[k].intent /\ run'[k].key = run[k].key /\ run'[k].sig = run[k].sig
          /\ run'[k].wait = "done"
      BY <3>2, ReplyType
    <3>4. \A l \in Slots : Active(l)' =>
            /\ Active(l) /\ run'[l].intent = run[l].intent /\ run'[l].key = run[l].key
            /\ run'[l].sig = run[l].sig /\ run'[l].wait # "conflict"
      BY <2>0, <3>2, <3>3 DEF Active, OneKey
    <3>. QED BY <1>0, <1>2, <3>2, <3>4, KeysKept
  <2>6. ASSUME Feed PROVE UNCHANGED <<effects, answered, person>>
    BY <2>6 DEF Feed, Serve, Arrive, FetchFails, Retry, Connect, Drop, Refuse, RecoverFails,
        Deliver, Recover
  <2>7. ASSUME SignIn PROVE UNCHANGED <<effects, answered, person>>
    BY <2>7 DEF SignIn
  <2>8. ASSUME UNCHANGED vars PROVE UNCHANGED <<effects, answered, person>>
    BY <2>8 DEF vars
  <2>9. \A o \in scene.changes : Change(o) => UNCHANGED <<effects, answered, person>>
    BY DEF Change
  <2>. QED BY <1>0, <1>2, <2>1, <2>2, <2>3, <2>4, <2>5, <2>6, <2>7, <2>8, <2>9,
              KeysFrame, KeysClick, KeysPost, KeysStops DEF Next, Command
<1>. QED BY <1>1, <1>2

----------------------------------------------------------------------------
(* The theorems.                                                           *)

LEMMA InvInit == Init => IInv
BY TypeInit, FeedInit, RunInit, KnowsInit, KeysInit DEF IInv, DecidedAsShown, Init

LEMMA InvStep == IInv /\ [Next]_vars => IInv'
BY TypeStep, FeedStep, RunInvStep, KnowsStep, DecidedStep, KeysStep DEF IInv

\* Every state keeps the invariant: what the stream went past, what a run knows, and whose key is
\* whose (apiStore.ts, sse.ts, apiActions.ts, client.ts).
THEOREM Invariant == Spec => []IInv
BY InvInit, InvStep, PTL DEF Spec

\* A page shows, or is about to show, every change the stream went past after the page was opened:
\* over reconnections, refusals, a new set-up of the stream and refetches overtaken by events.
THEOREM NothingIsMissed == Spec => []NothingMissed
<1>1. IInv => NothingMissed
  BY NothingMissedHolds DEF IInv
<1>. QED BY <1>1, Invariant, PTL

\* What a person decides takes effect only for the version that was shown to them, in every order
\* of reads, answers and changes by others, for the commands of the table that hold to that
\* version; the others (ReadAnew) read the object at the click and decide what they read.
THEOREM DecisionsAreAsShown == Spec => []DecidedAsShown
<1>1. IInv => DecidedAsShown
  BY DEF IInv
<1>. QED BY <1>1, Invariant, PTL

\* A creation takes effect once for the opening it was clicked in, over double clicks, lost
\* answers and retries, unless an answer to an earlier opening comes in meanwhile.  In a dialog
\* that stays after its command succeeded (StaysOpen: the invitation) it is once until the answer is
\* shown there: what is clicked after that is a creation of its own.
THEOREM CreationsHappenOnce == Spec => []CreatedOnce
<1>1. IInv => CreatedOnce
  BY DEF IInv
<1>. QED BY <1>1, Invariant, PTL

----------------------------------------------------------------------------
(* The pages of the window.                                                *)

\* A route names objects that there are, and every page has routes of its own.
Routes == [page : {"hub", "route", "chat"}, view : Pages!Views,
           id : Tasks \cup Plans \cup Topics \cup {Absent}, conversation : Topics \cup {Absent},
           scope : Pages!Scopes, taskContext : Tasks \cup {Absent},
           section : Pages!Sections \cup {Absent}]

Silent(r) == r.conversation = Absent /\ r.taskContext = Absent
OnHub(r) == Silent(r) /\ r.view \in {"plans", "task"} /\ r.scope = Pages!Project
OnRoute(r) == /\ Silent(r) /\ r.view \in {"plan", "task"} /\ r.scope[1] = "plan"
              /\ r.view = "plan" => r.id = r.scope[2]
InChat(r) == /\ r.view = "topic" => r.id = r.conversation
             /\ r.view = "home" => r.id = Absent /\ r.conversation = Absent
             /\ r.conversation = Absent => r.scope = Pages!Project

RouteOK(r) ==
  /\ r \in Routes
  /\ r.view = "task" => r.id \in Tasks
  /\ r.view = "plan" => r.id \in Plans
  /\ r.page = "hub" => OnHub(r)
  /\ r.page = "route" => OnRoute(r)
  /\ r.page = "chat" => InChat(r)

\* Two routes show the same page, though one of them was read from an address.
Alike(r, s) ==
  /\ r.page = s.page /\ r.scope = s.scope /\ r.conversation = s.conversation
  /\ r.taskContext = s.taskContext /\ Pages!RouteTool(r) = Pages!RouteTool(s)
  /\ r.view = s.view \/ {r.view, s.view} = {"home", "topic"}
  /\ r.id = s.id \/ r.view \in {"plans", "resources", "workspace"}

\* An address leads to a route.
Addresses == {u \in [place : {"hub", "route", "chat"}, scope : Pages!Scopes,
                     topic : Topics \cup {Absent}, view : Pages!Views \cup {Absent},
                     item : Tasks \cup Plans \cup Topics \cup {Absent},
                     context : Tasks \cup {Absent, Pages!Blank},
                     section : Pages!Sections \cup {Absent}] : RouteOK(Pages!Read(u))}

\* From one discussion beside no tool to the same one, no step of the history changes its scope.
Adjacent(r, s) == r.page = "chat" /\ s.page = "chat" /\ r.view = "topic" /\ s.view = "topic"
                    /\ r.conversation = s.conversation => r.scope = s.scope

HistoryOK(es) ==
  /\ es \in [list : Seq(Addresses), at : Nat] /\ es.at \in DOMAIN es.list
  /\ \A i \in 1..(Len(es.list) - 1) :
       Adjacent(Pages!Read(es.list[i]), Pages!Read(es.list[i + 1]))

ToolsOK(ses) ==
  /\ ses \in [list : Seq(Pages!AnyTool), active : Pages!AnyTool \cup {Absent}]
  /\ ses.active # Absent => Pages!Contains(ses.list, ses.active)

\* The tools that belong beside the discussion of a route.
Fits(r, ses) ==
  /\ Pages!Incoming(r) # Absent => ses.active \in {Pages!RouteTool(r), Pages!Incoming(r)}
  /\ r.view = "workspace" => ses.active = Absent
  /\ r.view \in {"topic", "home"} /\ r.scope # Pages!Project => ses.list # <<>>

TabsOK(list) ==
  /\ list \in Seq(Pages!AnyTab)
  /\ \A i, j \in DOMAIN list : list[i].topic = list[j].topic => i = j

ContextsOK(held) == held \in [Topics -> Pages!Contexts \cup {Absent}]

Shown(r) ==
  /\ Fits(r, tools)
  /\ r.conversation # Absent => /\ contexts[r.conversation] # Absent
                                /\ r.taskContext = Pages!TaskIn(contexts[r.conversation])
  /\ saved = tabs
  /\ \E i \in DOMAIN tabs : tabs[i] = Pages!Current(r)
  /\ r.scope # Pages!Project => \A i \in DOMAIN tabs : tabs[i].topic # Absent

PagesInv ==
  /\ RouteOK(route)
  /\ HistoryOK(entries) /\ Alike(Pages!Read(entries.list[entries.at]), route)
  /\ TabsOK(tabs) /\ TabsOK(saved)
  /\ ToolsOK(tools)
  /\ ContextsOK(contexts)
  /\ route.page = "chat" => Shown(route)

----------------------------------------------------------------------------
(* Counting.                                                               *)

\* Counting: a set with 0 and, with every number, the next one holds every number up to N.
LEMMA Smallest ==
  ASSUME NEW S, S \subseteq Nat, S # {}
  PROVE \E n \in S : \A m \in S : n <= m
<1>1. IsWellFoundedOn(OpToRel(<, Nat), Nat)
  BY NatLessThanWellFounded
<1>2. \A m, n \in Nat : m < n => <<m, n>> \in OpToRel(<, Nat)
  BY DEF OpToRel
<1>3. \E R : IsWellFoundedOn(R, Nat) /\ \A m, n \in Nat : m < n => <<m, n>> \in R
  BY <1>1, <1>2, Zenon
<1>4. PICK R : IsWellFoundedOn(R, Nat) /\ \A m, n \in Nat : m < n => <<m, n>> \in R
  BY <1>3
<1>5. ASSUME NEW U, IsWellFoundedOn(R, U), S \subseteq U
      PROVE \E n \in S : \A m \in S : ~(<<m, n>> \in R)
  BY <1>5, WFMin
<1>6. PICK n \in S : \A m \in S : ~(<<m, n>> \in R)
  BY <1>4, <1>5
<1>7. \A m \in S : m \in Nat /\ n \in Nat
  OBVIOUS
<1>8. \A m \in S : ~(m < n)
  BY <1>4, <1>6, <1>7
<1>9. \A m \in S : n <= m
  BY <1>7, <1>8
<1>. QED BY <1>9

\* Counting from zero reaches every number.
LEMMA Counted ==
  ASSUME NEW N \in Nat, NEW S, 0 \in S, \A n \in 1..N : n - 1 \in S => n \in S
  PROVE \A n \in 0..N : n \in S
<1>. DEFINE U == (0..N) \ S
<1>. SUFFICES ASSUME U # {} PROVE FALSE
  OBVIOUS
<1>0. U \subseteq Nat
  OBVIOUS
<1>. HIDE DEF U
<1>1. PICK n \in U : \A m \in U : n <= m
  BY <1>0, Smallest
<1>2. n \in 1..N /\ n - 1 \in 0..N /\ ~(n <= n - 1)
  BY <1>1 DEF U
<1>3. n - 1 \in U
  BY <1>1, <1>2 DEF U
<1>. QED BY <1>1, <1>2, <1>3

\* A scope is the project, a plan or a task.
LEMMA ScopeFacts ==
  ASSUME NEW s \in Pages!Scopes
  PROVE /\ s = Pages!Project => s[1] = "project"
        /\ s # Pages!Project => \/ s[1] = "plan" /\ s[2] \in Plans /\ s = Pages!InPlan(s[2])
                                \/ s[1] = "task" /\ s[2] \in Tasks /\ s = Pages!InTask(s[2])
BY DEF Pages!Scopes, Pages!Project, Pages!InPlan, Pages!InTask

\* The scopes that there are.
LEMMA ScopeMade ==
  /\ Pages!Project \in Pages!Scopes /\ Pages!Project[1] = "project"
  /\ \A p \in Plans : /\ Pages!InPlan(p) \in Pages!Scopes /\ Pages!InPlan(p) # Pages!Project
                      /\ Pages!InPlan(p)[1] = "plan" /\ Pages!InPlan(p)[2] = p
  /\ \A t \in Tasks : /\ Pages!InTask(t) \in Pages!Scopes /\ Pages!InTask(t) # Pages!Project
                      /\ Pages!InTask(t)[1] = "task" /\ Pages!InTask(t)[2] = t
BY DEF Pages!Scopes, Pages!Project, Pages!InPlan, Pages!InTask

\* What is absent is none of the values.
LEMMA AbsentFacts ==
  /\ \A x \in Tasks \cup Plans \cup Topics \cup Pages!Views \cup Pages!Sections : x # Absent
  /\ \A x \in Pages!AnyTool : x # Absent
  /\ \A x \in Pages!AnyTab : x # Absent
  /\ \A x \in Pages!Contexts : x # Absent
  /\ \A t \in Tasks : t # Pages!Blank
  /\ Pages!Blank # Absent
BY WindowAssumption

\* The parts of a tool.
LEMMA ToolFacts ==
  ASSUME NEW x \in Pages!AnyTool
  PROVE /\ x \in [view : {"task", "plan", "plans", "resources"},
                  id : Tasks \cup Plans \cup {Absent}, section : Pages!Sections \cup {Absent}]
        /\ x.view = "task" => x.id \in Tasks /\ x.section \in Pages!Sections
        /\ x.view = "plan" => x.id \in Plans /\ x.section = Absent
        /\ x.view \in {"plans", "resources"} => x.id = Absent /\ x.section = Absent
        /\ x = Pages!Tool(x.view, x.id, x.section) /\ Pages!Valid(x)
<1>1. CASE \E t \in Tasks, s \in Pages!Sections : x = Pages!Tool("task", t, s)
  BY <1>1, AbsentFacts DEF Pages!Tool, Pages!Valid
<1>2. CASE \E p \in Plans : x = Pages!Tool("plan", p, Absent)
  BY <1>2, AbsentFacts DEF Pages!Tool, Pages!Valid
<1>3. CASE \E v \in {"plans", "resources"} : x = Pages!Tool(v, Absent, Absent)
  BY <1>3, AbsentFacts DEF Pages!Tool, Pages!Valid
<1>. QED BY <1>1, <1>2, <1>3 DEF Pages!AnyTool

\* The tools that there are.
LEMMA ToolMade ==
  /\ \A t \in Tasks, s \in Pages!Sections : Pages!Tool("task", t, s) \in Pages!AnyTool
  /\ \A p \in Plans : Pages!Tool("plan", p, Absent) \in Pages!AnyTool
  /\ \A v \in {"plans", "resources"} : Pages!Tool(v, Absent, Absent) \in Pages!AnyTool
BY DEF Pages!AnyTool

\* The parts of a tab.
LEMMA TabFacts ==
  ASSUME NEW x \in Pages!AnyTab
  PROVE /\ x \in [topic : Topics \cup {Absent}, scope : Pages!Scopes] /\ x # Absent
        /\ x = Pages!Tab(x.topic, x.scope)
        /\ x.topic = Absent <=> x = Pages!Home
        /\ x.topic = Absent => x.scope = Pages!Project
<1>1. CASE x = Pages!Home
  BY <1>1, AbsentFacts, ScopeMade DEF Pages!Home, Pages!Tab
<1>2. CASE \E c \in Topics, s \in Pages!Scopes : x = Pages!Tab(c, s)
  BY <1>2, AbsentFacts DEF Pages!Home, Pages!Tab
<1>. QED BY <1>1, <1>2, AbsentFacts DEF Pages!AnyTab

\* What the tool of a route is.
LEMMA RouteTools ==
  ASSUME NEW r, RouteOK(r)
  PROVE /\ r.view \in {"task", "plan", "plans", "resources"}
             => Pages!RouteTool(r) \in Pages!AnyTool /\ Pages!RouteTool(r).view = r.view
        /\ r.view \in {"home", "topic", "workspace"} => Pages!RouteTool(r) = Absent
        /\ Pages!RouteTool(r) = Absent <=> r.view \in {"home", "topic", "workspace"}
        /\ Pages!InScope(Pages!RouteTool(r), r.scope) = Pages!Incoming(r)
        /\ Pages!Incoming(r) \in Pages!AnyTool \cup {Absent}
        /\ Pages!Incoming(r) = Absent <=> Pages!RouteTool(r) = Absent
<1>1. /\ r.view \in Pages!Views /\ r.section \in Pages!Sections \cup {Absent}
      /\ r.scope \in Pages!Scopes
      /\ r.view = "task" => r.id \in Tasks
      /\ r.view = "plan" => r.id \in Plans
  BY DEF RouteOK, Routes
<1>2. Pages!Or(r.section, "overview") \in Pages!Sections
  BY <1>1 DEF Pages!Or, Pages!Sections
<1>3. r.view \in {"task", "plan", "plans", "resources"}
             => Pages!RouteTool(r) \in Pages!AnyTool /\ Pages!RouteTool(r).view = r.view
  BY <1>1, <1>2, ToolMade DEF Pages!RouteTool, Pages!Tool
<1>4. r.view \in {"home", "topic", "workspace"} => Pages!RouteTool(r) = Absent
  BY DEF Pages!RouteTool
<1>5. r.view \in {"task", "plan", "plans", "resources", "home", "topic", "workspace"}
  BY <1>1 DEF Pages!Views
<1>6. Pages!InScope(Absent, r.scope) = Absent
  BY DEF Pages!InScope
<1>7. \A x \in Pages!AnyTool : Pages!InScope(x, r.scope) \in Pages!AnyTool
  BY <1>1, ScopeFacts, ToolMade, ScopeMade DEF Pages!InScope
<1>8. \A x \in Pages!AnyTool : Pages!Valid(x) /\ x # Absent
  BY ToolFacts, AbsentFacts
<1>9. ~Pages!Valid(Absent)
  BY DEF Pages!Valid
<1>. QED BY <1>3, <1>4, <1>5, <1>6, <1>7, <1>8, <1>9, AbsentFacts DEF Pages!Incoming

\* A route is found again in its address, but for the name a discussion leaves in a tool's place.
LEMMA AddressFields ==
  ASSUME NEW r, RouteOK(r)
  PROVE LET u == Pages!Address(r) IN
        /\ u.place = r.page /\ u.scope = r.scope
        /\ u.topic = r.conversation
        /\ u.view = IF r.page = "route" \/ r.view \in {"topic", "home"} THEN Absent ELSE r.view
        /\ u.item = IF r.page = "route" THEN IF r.view = "task" THEN r.id ELSE Absent
                    ELSE IF r.view = "topic" THEN Absent ELSE r.id
        /\ u.context = IF r.taskContext # Absent THEN r.taskContext
                       ELSE IF r.page = "chat" /\ r.scope[1] = "task" THEN Pages!Blank ELSE Absent
        /\ u.section = IF r.view = "task" THEN r.section ELSE Absent
        /\ u = [place |-> u.place, scope |-> u.scope, topic |-> u.topic, view |-> u.view,
                item |-> u.item, context |-> u.context, section |-> u.section]
<1>. DEFINE u == Pages!Address(r)
<1>1. /\ r.page \in {"hub", "route", "chat"}
      /\ r.page = "hub" => OnHub(r)
      /\ r.page = "route" => OnRoute(r)
      /\ r.page = "chat" => InChat(r)
  BY DEF RouteOK, Routes
<1>2. CASE r.page = "hub"
  BY <1>1, <1>2 DEF Pages!Address, OnHub, Silent
<1>3. CASE r.page = "route"
  BY <1>1, <1>3 DEF Pages!Address, OnRoute, Silent
<1>4. CASE r.page = "chat"
  <2>1. IF r.conversation = Absent /\ r.view = "topic" THEN r.id = r.conversation ELSE TRUE
    BY <1>1, <1>4 DEF InChat
  <2>. QED BY <1>4, <2>1 DEF Pages!Address
<1>. QED BY <1>1, <1>2, <1>3, <1>4

\* The address of a route leads to a route that shows the same page.
LEMMA AddressRead ==
  ASSUME NEW r, RouteOK(r)
  PROVE LET s == Pages!Read(Pages!Address(r)) IN
        /\ RouteOK(s) /\ Alike(s, r)
        /\ Pages!Address(r) \in Addresses
<1>. DEFINE u == Pages!Address(r)
            s == Pages!Read(u)
<1>1. /\ r \in Routes
      /\ r.page \in {"hub", "route", "chat"} /\ r.view \in Pages!Views
      /\ r.id \in Tasks \cup Plans \cup Topics \cup {Absent}
      /\ r.conversation \in Topics \cup {Absent} /\ r.scope \in Pages!Scopes
      /\ r.taskContext \in Tasks \cup {Absent} /\ r.section \in Pages!Sections \cup {Absent}
      /\ r.view = "task" => r.id \in Tasks
      /\ r.view = "plan" => r.id \in Plans
      /\ r.page = "hub" => OnHub(r)
      /\ r.page = "route" => OnRoute(r)
      /\ r.page = "chat" => InChat(r)
  BY DEF RouteOK, Routes
<1>2. /\ u.place = r.page /\ u.scope = r.scope /\ u.topic = r.conversation
      /\ u.view = IF r.page = "route" \/ r.view \in {"topic", "home"} THEN Absent ELSE r.view
      /\ u.item = IF r.page = "route" THEN IF r.view = "task" THEN r.id ELSE Absent
                  ELSE IF r.view = "topic" THEN Absent ELSE r.id
      /\ u.context = IF r.taskContext # Absent THEN r.taskContext
                     ELSE IF r.page = "chat" /\ r.scope[1] = "task" THEN Pages!Blank ELSE Absent
      /\ u.section = IF r.view = "task" THEN r.section ELSE Absent
      /\ u = [place |-> u.place, scope |-> u.scope, topic |-> u.topic, view |-> u.view,
              item |-> u.item, context |-> u.context, section |-> u.section]
  BY AddressFields
<1>. HIDE DEF u
<1>3. /\ s.page = u.place /\ s.conversation = u.topic /\ s.scope = u.scope
      /\ s.section = u.section
      /\ s.view = IF u.place = "route" THEN IF u.item = Absent THEN "plan" ELSE "task"
                  ELSE Pages!Or(u.view, IF u.place = "hub" THEN "plans" ELSE "topic")
      /\ s.id = Pages!Or(u.item, IF u.place = "route" THEN u.scope[2] ELSE u.topic)
      /\ s.taskContext = IF u.context = Pages!Blank THEN Absent
                         ELSE IF u.place = "chat" /\ u.scope[1] = "task"
                              THEN Pages!Or(u.context, u.scope[2]) ELSE u.context
      /\ s = [page |-> s.page, conversation |-> s.conversation, scope |-> s.scope,
              section |-> s.section, view |-> s.view, id |-> s.id,
              taskContext |-> s.taskContext]
  BY DEF Pages!Read
<1>. HIDE DEF s
<1>4. \A v \in Pages!Views : v # Absent
  BY AbsentFacts
<1>5. s.page = r.page /\ s.conversation = r.conversation /\ s.scope = r.scope
  BY <1>2, <1>3
<1>6. s.taskContext = r.taskContext
  BY <1>1, <1>2, <1>3, AbsentFacts DEF Pages!Or
<1>7. s.view = IF r.view = "home" THEN "topic" ELSE r.view
  <2>1. CASE r.page = "hub"
    BY <1>1, <1>2, <1>3, <1>4, <2>1 DEF OnHub, Pages!Or
  <2>2. CASE r.page = "route"
    BY <1>1, <1>2, <1>3, AbsentFacts, <2>2 DEF OnRoute, Pages!Or
  <2>3. CASE r.page = "chat"
    BY <1>1, <1>2, <1>3, <1>4, <2>3 DEF Pages!Or
  <2>. QED BY <1>1, <2>1, <2>2, <2>3
<1>8. /\ r.id \in Tasks \cup Plans \cup Topics \cup {Absent}
      /\ s.id \in Tasks \cup Plans \cup Topics \cup {Absent}
      /\ r.view \in {"task", "plan", "topic", "home"} => s.id = r.id
      /\ r.id # s.id => r.view \in {"plans", "resources", "workspace"}
  <2>1. CASE r.page = "hub"
    BY <1>1, <1>2, <1>3, <2>1, AbsentFacts DEF OnHub, Silent, Pages!Or
  <2>2. CASE r.page = "route"
    BY <1>1, <1>2, <1>3, <2>2, AbsentFacts, ScopeFacts, ScopeMade DEF OnRoute, Pages!Or
  <2>3. CASE r.page = "chat"
    <3>1. r.view \in {"task", "plan"} => r.id # Absent
      BY <1>1, AbsentFacts
    <3>2. r.view \in {"topic", "home"} => r.id = r.conversation
      BY <1>1, <2>3 DEF InChat
    <3>. QED BY <1>1, <1>2, <1>3, <2>3, <3>1, <3>2 DEF Pages!Or, Pages!Views
  <2>. QED BY <1>1, <2>1, <2>2, <2>3
<1>9. s.section = IF r.view = "task" THEN r.section ELSE Absent
  BY <1>2, <1>3
<1>10. s.view \in Pages!Views
  BY <1>1, <1>7 DEF Pages!Views
<1>11. s \in Routes
  BY <1>1, <1>3, <1>5, <1>6, <1>8, <1>9, <1>10 DEF Routes
<1>12. RouteOK(s)
  <2>1. s.page = "hub" => OnHub(s)
    BY <1>1, <1>5, <1>6, <1>7 DEF OnHub, Silent
  <2>2. s.page = "route" => OnRoute(s)
    BY <1>1, <1>5, <1>6, <1>7, <1>8 DEF OnRoute, Silent
  <2>3. s.page = "chat" => InChat(s)
    BY <1>1, <1>5, <1>7, <1>8 DEF InChat
  <2>. QED BY <1>1, <1>7, <1>8, <1>11, <2>1, <2>2, <2>3 DEF RouteOK
<1>13. Pages!RouteTool(s) = Pages!RouteTool(r)
  BY <1>7, <1>8, <1>9 DEF Pages!RouteTool
<1>14. Alike(s, r)
  BY <1>5, <1>6, <1>7, <1>8, <1>13 DEF Alike
<1>15. u \in Addresses
  <2>1. /\ u.view \in Pages!Views \cup {Absent}
        /\ u.item \in Tasks \cup Plans \cup Topics \cup {Absent}
        /\ u.context \in Tasks \cup {Absent, Pages!Blank}
    BY <1>1, <1>2
  <2>2. u \in [place : {"hub", "route", "chat"}, scope : Pages!Scopes,
                     topic : Topics \cup {Absent}, view : Pages!Views \cup {Absent},
                     item : Tasks \cup Plans \cup Topics \cup {Absent},
                     context : Tasks \cup {Absent, Pages!Blank},
                     section : Pages!Sections \cup {Absent}]
    BY <1>1, <1>2, <2>1
  <2>3. RouteOK(Pages!Read(u))
    BY <1>12 DEF s
  <2>. QED BY <2>2, <2>3 DEF Addresses
<1>. QED BY <1>12, <1>14, <1>15 DEF s, u

----------------------------------------------------------------------------
(* The history.                                                             *)

\* Routes that show the same pages are adjacent as those are.
LEMMA AdjacentAlike ==
  ASSUME NEW a, NEW b, NEW s, NEW t, RouteOK(a), RouteOK(b), RouteOK(s), RouteOK(t),
         Adjacent(a, b), Alike(s, a), Alike(t, b)
  PROVE Adjacent(s, t)
<1>1. ASSUME s.page = "chat", t.page = "chat", s.view = "topic", t.view = "topic",
             s.conversation = t.conversation
      PROVE s.scope = t.scope
  <2>1. /\ a.page = "chat" /\ b.page = "chat" /\ a.conversation = b.conversation
        /\ a.scope = s.scope /\ b.scope = t.scope
        /\ a.view \in {"home", "topic"} /\ b.view \in {"home", "topic"}
    BY <1>1 DEF Alike
  <2>2. CASE a.view = "topic" /\ b.view = "topic"
    BY <2>1, <2>2 DEF Adjacent
  <2>3. CASE a.view = "home" \/ b.view = "home"
    BY <2>1, <2>3 DEF RouteOK, InChat
  <2>. QED BY <2>1, <2>2, <2>3
<1>. QED BY <1>1 DEF Adjacent

\* The parts of the history.
LEMMA HistoryFacts ==
  ASSUME NEW es, HistoryOK(es)
  PROVE /\ es.list \in Seq(Addresses) /\ es.at \in Nat /\ es.at \in 1..Len(es.list)
        /\ Len(es.list) \in Nat
        /\ \A i \in 1..Len(es.list) : RouteOK(Pages!Read(es.list[i]))
        /\ \A i \in 1..(Len(es.list) - 1) :
             Adjacent(Pages!Read(es.list[i]), Pages!Read(es.list[i + 1]))
<1>1. es.list \in Seq(Addresses) /\ es.at \in Nat /\ es.at \in DOMAIN es.list
  BY DEF HistoryOK
<1>2. DOMAIN es.list = 1..Len(es.list) /\ \A i \in 1..Len(es.list) : es.list[i] \in Addresses
  BY <1>1
<1>. QED BY <1>1, <1>2 DEF HistoryOK, Addresses

\* A new address takes the place of those that came after the current one.
LEMMA PushedOK ==
  ASSUME NEW es, HistoryOK(es), NEW a, RouteOK(a), Alike(Pages!Read(es.list[es.at]), a),
         NEW r, RouteOK(r), Adjacent(a, r)
  PROVE LET p == Pages!Pushed(es, r) IN
        HistoryOK(p) /\ Alike(Pages!Read(p.list[p.at]), r)
<1>. DEFINE u == Pages!Address(r)
            cut == SubSeq(es.list, 1, es.at)
            list == Append(cut, u)
            kept == IF Len(list) > Remembered THEN Tail(list) ELSE list
            read(x) == Pages!Read(x)
<1>1. /\ es.list \in Seq(Addresses) /\ es.at \in Nat /\ es.at \in 1..Len(es.list)
      /\ Len(es.list) \in Nat
      /\ RouteOK(read(es.list[es.at]))
      /\ \A i \in 1..(Len(es.list) - 1) : Adjacent(read(es.list[i]), read(es.list[i + 1]))
  BY HistoryFacts
<1>2. u \in Addresses /\ RouteOK(read(u)) /\ Alike(read(u), r)
  BY AddressRead
<1>3. Adjacent(read(es.list[es.at]), read(u))
  BY <1>1, <1>2, AdjacentAlike
<1>. HIDE DEF u, read
<1>4. /\ cut \in Seq(Addresses) /\ Len(cut) = es.at
      /\ \A i \in 1..es.at : cut[i] = es.list[i]
  BY <1>1
<1>5. /\ list \in Seq(Addresses) /\ Len(list) = es.at + 1 /\ list[es.at + 1] = u
      /\ \A i \in 1..es.at : list[i] = es.list[i]
  BY <1>1, <1>2, <1>4
<1>6. \A i \in 1..es.at : Adjacent(read(list[i]), read(list[i + 1]))
  <2>. SUFFICES ASSUME NEW i \in 1..es.at PROVE Adjacent(read(list[i]), read(list[i + 1]))
    OBVIOUS
  <2>1. CASE i = es.at
    BY <1>1, <1>3, <1>5, <2>1
  <2>2. CASE i # es.at
    <3>1. i \in 1..(Len(es.list) - 1) /\ i + 1 \in 1..es.at
      BY <1>1, <2>2
    <3>. QED BY <1>1, <1>5, <3>1
  <2>. QED BY <2>1, <2>2
<1>. HIDE DEF list
<1>7. /\ kept \in Seq(Addresses) /\ Len(kept) \in Nat \ {0} /\ kept[Len(kept)] = u
      /\ \A i \in 1..(Len(kept) - 1) : Adjacent(read(kept[i]), read(kept[i + 1]))
  <2>1. CASE Len(list) > Remembered
    <3>1. kept = Tail(list) /\ Len(kept) = es.at
      BY <1>1, <1>5, <2>1
    <3>. HIDE DEF kept
    <3>2. es.at >= 1 /\ \A i \in 1..es.at : kept[i] = list[i + 1]
      BY <1>1, <1>5, <3>1
    <3>3. kept \in Seq(Addresses)
      BY <1>1, <1>5, <3>1
    <3>4. kept[es.at] = u
      BY <1>1, <1>5, <3>2
    <3>5. \A i \in 1..(es.at - 1) : Adjacent(read(kept[i]), read(kept[i + 1]))
      <4>. SUFFICES ASSUME NEW i \in 1..(es.at - 1)
                    PROVE Adjacent(read(kept[i]), read(kept[i + 1]))
        OBVIOUS
      <4>1. kept[i] = list[i + 1] /\ kept[i + 1] = list[i + 1 + 1] /\ i + 1 \in 1..es.at
        BY <1>1, <3>2
      <4>. QED BY <1>6, <4>1
    <3>6. Len(kept) = es.at /\ es.at \in Nat /\ es.at # 0
      BY <1>1, <3>1
    <3>7. kept[Len(kept)] = u /\ Len(kept) \in Nat \ {0}
      BY <3>4, <3>6
    <3>8. \A i \in 1..(Len(kept) - 1) : Adjacent(read(kept[i]), read(kept[i + 1]))
      BY <3>5, <3>6
    <3>. QED BY <3>3, <3>7, <3>8
  <2>2. CASE ~(Len(list) > Remembered)
    <3>1. kept = list
      BY <2>2
    <3>. QED BY <1>1, <1>5, <1>6, <3>1
  <2>. QED BY <2>1, <2>2
<1>8. Pages!Pushed(es, r) = [list |-> kept, at |-> Len(kept)]
  BY DEF Pages!Pushed, list, cut, u
<1>. HIDE DEF kept
<1>9. Len(kept) \in DOMAIN kept
  BY <1>7
<1>. QED BY <1>2, <1>7, <1>8, <1>9 DEF HistoryOK, read

----------------------------------------------------------------------------
(* The lists of tabs.                                                       *)

\* Removing an entry leaves the others in their order.
LEMMA Removed ==
  ASSUME NEW S, NEW s \in Seq(S), NEW i \in DOMAIN s
  PROVE LET t == Pages!RemoveAt(s, i) IN
        /\ t \in Seq(S) /\ Len(t) = Len(s) - 1 /\ DOMAIN t = 1..(Len(s) - 1)
        /\ \A j \in 1..(Len(s) - 1) : t[j] = IF j < i THEN s[j] ELSE s[j + 1]
        /\ \A j \in DOMAIN s : j # i => \E k \in DOMAIN t : t[k] = s[j]
<1>. DEFINE a == SubSeq(s, 1, i - 1)
            b == SubSeq(s, i + 1, Len(s))
            t == a \o b
<1>1. i \in 1..Len(s) /\ Len(s) \in Nat /\ \A j \in 1..Len(s) : s[j] \in S
  OBVIOUS
<1>2. a \in Seq(S) /\ Len(a) = i - 1 /\ \A j \in 1..(i - 1) : a[j] = s[j]
  BY <1>1
<1>3. b \in Seq(S) /\ Len(b) = Len(s) - i /\ \A j \in 1..(Len(s) - i) : b[j] = s[i + j]
  BY <1>1
<1>. HIDE DEF a, b
<1>4. t \in Seq(S) /\ Len(t) = Len(s) - 1 /\ DOMAIN t = 1..(Len(s) - 1)
  BY <1>1, <1>2, <1>3
<1>5. \A j \in 1..(Len(s) - 1) : t[j] = IF j < i THEN s[j] ELSE s[j + 1]
  <2>. SUFFICES ASSUME NEW j \in 1..(Len(s) - 1)
                PROVE t[j] = IF j < i THEN s[j] ELSE s[j + 1]
    OBVIOUS
  <2>1. CASE j < i
    BY <1>1, <1>2, <1>3, <2>1
  <2>2. CASE ~(j < i)
    <3>1. j - (i - 1) \in 1..(Len(s) - i) /\ i + (j - (i - 1)) = j + 1
      BY <1>1, <2>2
    <3>2. b[j - (i - 1)] = s[j + 1]
      BY <1>3, <3>1
    <3>. QED BY <1>1, <1>2, <1>3, <2>2, <3>2
  <2>. QED BY <2>1, <2>2
<1>7. Pages!RemoveAt(s, i) = t
  BY DEF Pages!RemoveAt, a, b
<1>. HIDE DEF t
<1>6. ASSUME NEW j \in DOMAIN s, j # i PROVE \E k \in DOMAIN t : t[k] = s[j]
  <2>1. CASE j < i
    BY <1>1, <1>4, <1>5, <1>6, <2>1
  <2>2. CASE j > i
    <3>1. j - 1 \in 1..(Len(s) - 1) /\ ~(j - 1 < i) /\ (j - 1) + 1 = j
      BY <1>1, <1>6, <2>2
    <3>. QED BY <1>4, <1>5, <3>1
  <2>. QED BY <1>1, <1>6, <2>1, <2>2
<1>. QED BY <1>4, <1>5, <1>6, <1>7

\* A tab that is taken away leaves the others, each with a discussion of its own.
LEMMA TabsRemoved ==
  ASSUME NEW list, TabsOK(list), NEW i \in DOMAIN list
  PROVE /\ TabsOK(Pages!RemoveAt(list, i))
        /\ \A k \in DOMAIN Pages!RemoveAt(list, i) :
             Pages!RemoveAt(list, i)[k].topic # list[i].topic
<1>. DEFINE t == Pages!RemoveAt(list, i)
            from(k) == IF k < i THEN k ELSE k + 1
<1>1. list \in Seq(Pages!AnyTab) /\ i \in 1..Len(list) /\ Len(list) \in Nat
      /\ \A j, k \in DOMAIN list : list[j].topic = list[k].topic => j = k
  BY DEF TabsOK
<1>2. /\ t \in Seq(Pages!AnyTab) /\ DOMAIN t = 1..(Len(list) - 1)
      /\ \A j \in 1..(Len(list) - 1) : t[j] = list[from(j)]
  BY <1>1, Removed
<1>3. \A k \in DOMAIN t : from(k) \in DOMAIN list /\ from(k) # i
  BY <1>1, <1>2
<1>4. \A j, k \in DOMAIN t : from(j) = from(k) => j = k
  BY <1>1, <1>2
<1>. HIDE DEF t, from
<1>5. \A j, k \in DOMAIN t : t[j].topic = t[k].topic => j = k
  BY <1>1, <1>2, <1>3, <1>4
<1>6. \A k \in DOMAIN t : t[k].topic # list[i].topic
  BY <1>1, <1>2, <1>3
<1>7. TabsOK(t)
  BY <1>2, <1>5 DEF TabsOK
<1>. QED BY <1>6, <1>7 DEF t

\* The discussion of a route, as a tab.
LEMMA CurrentFacts ==
  ASSUME NEW r, RouteOK(r)
  PROVE /\ Pages!Current(r) = IF r.conversation = Absent THEN Pages!Home
                              ELSE Pages!Tab(r.conversation, r.scope)
        /\ Pages!Current(r) \in Pages!AnyTab
        /\ Pages!Current(r).topic = r.conversation
<1>1. /\ r.conversation \in Topics \cup {Absent} /\ r.scope \in Pages!Scopes
      /\ r.view = "topic" => r.id = r.conversation
      /\ r.conversation = Absent /\ r.page = "chat" => r.scope = Pages!Project
  BY DEF RouteOK, Routes, OnHub, OnRoute, InChat
<1>2. Pages!RouteTopic(r) = r.conversation
  BY <1>1 DEF Pages!RouteTopic
<1>. QED BY <1>1, <1>2 DEF Pages!Current, Pages!Home, Pages!Tab, Pages!AnyTab

\* The tabs without the overview.
LEMMA WithoutHomeOK ==
  ASSUME NEW list, TabsOK(list)
  PROVE /\ TabsOK(Pages!WithoutHome(list))
        /\ \A i \in DOMAIN Pages!WithoutHome(list) : Pages!WithoutHome(list)[i].topic # Absent
        /\ (\A i \in DOMAIN list : list[i].topic # Absent) => Pages!WithoutHome(list) = list
<1>1. CASE \E i \in DOMAIN list : list[i].topic = Absent
  <2>. DEFINE k == CHOOSE i \in DOMAIN list : list[i].topic = Absent
  <2>1. k \in DOMAIN list /\ list[k].topic = Absent
    BY <1>1
  <2>2. Pages!WithoutHome(list) = Pages!RemoveAt(list, k)
    BY <1>1 DEF Pages!WithoutHome
  <2>. HIDE DEF k
  <2>. QED BY <1>1, <2>1, <2>2, TabsRemoved
<1>2. CASE ~\E i \in DOMAIN list : list[i].topic = Absent
  BY <1>2 DEF Pages!WithoutHome
<1>. QED BY <1>1, <1>2

\* A tab that is entered is there once.
LEMMA OpenedOK ==
  ASSUME NEW list, TabsOK(list), NEW tab \in Pages!AnyTab
  PROVE LET s == Pages!Opened(list, tab) IN
        /\ TabsOK(s) /\ \E i \in DOMAIN s : s[i] = tab
        /\ tab.topic # Absent /\ (\A i \in DOMAIN list : list[i].topic # Absent)
             => \A i \in DOMAIN s : s[i].topic # Absent
        /\ (\E i \in DOMAIN list : list[i] = tab) => s = list
<1>. DEFINE s == Pages!Opened(list, tab)
<1>1. /\ list \in Seq(Pages!AnyTab) /\ Len(list) \in Nat /\ DOMAIN list = 1..Len(list)
      /\ \A i, j \in DOMAIN list : list[i].topic = list[j].topic => i = j
  BY DEF TabsOK
<1>2. CASE \E i \in DOMAIN list : list[i].topic = tab.topic
  <2>1. s = [i \in DOMAIN list |-> IF list[i].topic = tab.topic THEN tab ELSE list[i]]
    BY <1>2 DEF Pages!Opened
  <2>2. DOMAIN s = DOMAIN list
        /\ \A i \in DOMAIN list : s[i] = IF list[i].topic = tab.topic THEN tab ELSE list[i]
    BY <2>1
  <2>3. s \in Seq(Pages!AnyTab)
    BY <1>1, <2>1
  <2>4. \A i \in DOMAIN list : s[i].topic = list[i].topic
    BY <2>2
  <2>5. \E i \in DOMAIN s : s[i] = tab
    BY <1>2, <2>2
  <2>6. ASSUME NEW i \in DOMAIN list, list[i] = tab PROVE s = list
    <3>1. \A j \in DOMAIN list : list[j].topic = tab.topic => list[j] = tab
      BY <1>1, <2>6
    <3>2. \A j \in DOMAIN list : s[j] = list[j]
      BY <2>2, <3>1
    <3>. HIDE DEF s
    <3>. QED BY <1>1, <2>2, <2>3, <3>2
  <2>. HIDE DEF s
  <2>7. TabsOK(s)
    BY <1>1, <2>2, <2>3, <2>4 DEF TabsOK
  <2>. QED BY <2>2, <2>4, <2>5, <2>6, <2>7 DEF s
<1>3. CASE ~\E i \in DOMAIN list : list[i].topic = tab.topic
  <2>1. s = Append(list, tab)
    BY <1>3 DEF Pages!Opened
  <2>2. /\ s \in Seq(Pages!AnyTab) /\ DOMAIN s = 1..(Len(list) + 1)
        /\ s[Len(list) + 1] = tab /\ \A i \in DOMAIN list : s[i] = list[i]
    BY <1>1, <2>1
  <2>. HIDE DEF s
  <2>3. \A i \in DOMAIN s : i \in DOMAIN list \/ i = Len(list) + 1
    BY <1>1, <2>2
  <2>4. TabsOK(s)
    BY <1>1, <1>3, <2>2, <2>3 DEF TabsOK
  <2>5. Len(list) + 1 \in DOMAIN s
    BY <1>1, <2>2
  <2>. QED BY <1>3, <2>2, <2>3, <2>4, <2>5 DEF s
<1>. QED BY <1>2, <1>3

\* The bar shows the discussion of the route, and the overview only outside every scope.
LEMMA StripOK ==
  ASSUME NEW list, TabsOK(list), NEW r, RouteOK(r), r.page = "chat"
  PROVE LET s == Pages!Strip(list, r) IN
        /\ TabsOK(s) /\ \E i \in DOMAIN s : s[i] = Pages!Current(r)
        /\ r.scope # Pages!Project => \A i \in DOMAIN s : s[i].topic # Absent
        /\ /\ \E i \in DOMAIN list : list[i] = Pages!Current(r)
           /\ r.scope # Pages!Project => \A i \in DOMAIN list : list[i].topic # Absent
           => s = list
<1>. DEFINE kept == IF r.scope = Pages!Project THEN list ELSE Pages!WithoutHome(list)
<1>1. /\ TabsOK(kept)
      /\ r.scope # Pages!Project => \A i \in DOMAIN kept : kept[i].topic # Absent
      /\ (r.scope # Pages!Project => \A i \in DOMAIN list : list[i].topic # Absent)
           => kept = list
  BY WithoutHomeOK
<1>2. Pages!Current(r) \in Pages!AnyTab
      /\ (r.scope # Pages!Project => Pages!Current(r).topic # Absent)
  BY CurrentFacts DEF RouteOK, InChat
<1>3. Pages!Strip(list, r) = Pages!Opened(kept, Pages!Current(r))
  BY DEF Pages!Strip
<1>. HIDE DEF kept
<1>. QED BY <1>1, <1>2, <1>3, OpenedOK

----------------------------------------------------------------------------
(* A move comes to rest.                                                    *)

\* The work of a discussion.
LEMMA ContextFacts ==
  /\ \A x \in Pages!Contexts : Pages!TaskIn(x) \in Tasks \cup {Absent}
  /\ \A r : RouteOK(r) => Pages!EntryContext(r) \in Pages!Contexts
<1>1. ASSUME NEW x \in Pages!Contexts PROVE Pages!TaskIn(x) \in Tasks \cup {Absent}
  BY <1>1 DEF Pages!Contexts, Pages!Whole, Pages!InTask, Pages!InPlan, Pages!TaskIn
<1>2. ASSUME NEW r, RouteOK(r) PROVE Pages!EntryContext(r) \in Pages!Contexts
  <2>1. r.taskContext \in Tasks \cup {Absent} /\ r.scope \in Pages!Scopes
    BY <1>2 DEF RouteOK, Routes
  <2>. QED BY <2>1 DEF Pages!EntryContext, Pages!Contexts, Pages!Scopes
<1>. QED BY <1>1, <1>2

\* The work a discussion is about is no part of the page that is shown.
LEMMA Retasked ==
  ASSUME NEW r, RouteOK(r), r.page = "chat", NEW x \in Tasks \cup {Absent}
  PROVE LET f == [r EXCEPT !.taskContext = x] IN
        /\ RouteOK(f) /\ f.page = "chat" /\ f.scope = r.scope
        /\ f.conversation = r.conversation /\ f.taskContext = x /\ f.view = r.view
        /\ Pages!RouteTool(f) = Pages!RouteTool(r) /\ Pages!Incoming(f) = Pages!Incoming(r)
        /\ Pages!Current(f) = Pages!Current(r)
        /\ Adjacent(r, f)
<1>. DEFINE f == [r EXCEPT !.taskContext = x]
<1>1. r \in Routes
  BY DEF RouteOK
<1>2. /\ f \in Routes /\ f.page = r.page /\ f.scope = r.scope /\ f.id = r.id
      /\ f.conversation = r.conversation /\ f.taskContext = x /\ f.view = r.view
      /\ f.section = r.section
  BY <1>1 DEF Routes
<1>. HIDE DEF f
<1>3. RouteOK(f)
  BY <1>2 DEF RouteOK, InChat
<1>4. Pages!RouteTool(f) = Pages!RouteTool(r)
  BY <1>2 DEF Pages!RouteTool
<1>5. Pages!Incoming(f) = Pages!Incoming(r)
  BY <1>2, <1>4 DEF Pages!Incoming
<1>6. Pages!Current(f) = Pages!Current(r)
  BY <1>2, <1>3, CurrentFacts
<1>7. Adjacent(r, f)
  BY <1>2 DEF Adjacent
<1>. QED BY <1>2, <1>3, <1>4, <1>5, <1>6, <1>7 DEF f

\* A route shows its own page.
LEMMA AlikeSelf == ASSUME NEW r PROVE Alike(r, r)
BY DEF Alike

\* Every move ends in a page whose route, address, tabs, tools and work belong together, when
\* they did on the way to it.
LEMMA Rests ==
  ASSUME TabsOK(saved), ToolsOK(tools),
         NEW r, RouteOK(r),
         NEW es, HistoryOK(es), Alike(Pages!Read(es.list[es.at]), r),
         NEW list, TabsOK(list),
         NEW ses, r.page = "chat" => ToolsOK(ses) /\ Fits(r, ses),
         NEW held, ContextsOK(held),
         Pages!Rest(r, es, list, ses, held)
  PROVE /\ PagesInv'
        /\ route'.page = r.page /\ route'.scope = r.scope
        /\ Pages!Current(route)' = Pages!Current(r) /\ Pages!RouteTool(route)' = Pages!RouteTool(r)
        /\ tools' = IF r.page = "chat" THEN ses ELSE tools
        /\ r.page = "chat" => tabs' = Pages!Strip(list, r)
<1>. DEFINE topic == Pages!Current(r).topic
            context == Pages!InitialContext(held, topic, r)
            speaks == r.page = "chat" /\ topic # Absent
            final == IF speaks THEN [r EXCEPT !.taskContext = Pages!TaskIn(context)] ELSE r
<1>1. /\ route' = final
      /\ entries' = IF final = r THEN es ELSE Pages!Pushed(es, final)
      /\ contexts' = IF speaks THEN [held EXCEPT ![topic] = context] ELSE held
      /\ tabs' = IF r.page = "chat" THEN Pages!Strip(list, r) ELSE list
      /\ saved' = IF r.page = "chat" THEN tabs' ELSE saved
      /\ tools' = IF r.page = "chat" THEN ses ELSE tools
  BY DEF Pages!Rest
<1>2. topic = r.conversation /\ topic \in Topics \cup {Absent}
  BY CurrentFacts DEF RouteOK, Routes
<1>3. speaks => /\ topic \in Topics /\ context \in Pages!Contexts /\ context # Absent
                /\ Pages!TaskIn(context) \in Tasks \cup {Absent}
  <2>. SUFFICES ASSUME speaks
                PROVE /\ topic \in Topics /\ context \in Pages!Contexts /\ context # Absent
                      /\ Pages!TaskIn(context) \in Tasks \cup {Absent}
    OBVIOUS
  <2>1. topic \in Topics
    BY <1>2
  <2>2. held[topic] \in Pages!Contexts \cup {Absent}
    BY <2>1 DEF ContextsOK
  <2>3. context \in Pages!Contexts
    BY <2>2, ContextFacts DEF Pages!InitialContext
  <2>. QED BY <2>1, <2>3, AbsentFacts, ContextFacts
<1>4. /\ RouteOK(final) /\ final.page = r.page /\ final.scope = r.scope
      /\ final.conversation = r.conversation /\ final.view = r.view
      /\ Pages!RouteTool(final) = Pages!RouteTool(r) /\ Pages!Incoming(final) = Pages!Incoming(r)
      /\ Pages!Current(final) = Pages!Current(r)
      /\ final # r => Adjacent(r, final)
      /\ speaks => final.taskContext = Pages!TaskIn(context)
  <2>1. CASE speaks
    BY <1>3, <2>1, Retasked
  <2>2. CASE ~speaks
    BY <2>2
  <2>. QED BY <2>1, <2>2
<1>. HIDE DEF topic, context, final
<1>5. HistoryOK(entries') /\ Alike(Pages!Read(entries'.list[entries'.at]), final)
  BY <1>1, <1>4, PushedOK
<1>6. TabsOK(tabs') /\ TabsOK(saved')
  BY <1>1, StripOK
<1>7. ToolsOK(tools')
  BY <1>1
<1>8. ContextsOK(contexts')
  <2>1. CASE speaks
    BY <1>1, <1>3, <2>1 DEF ContextsOK
  <2>2. CASE ~speaks
    BY <1>1, <2>2
  <2>. QED BY <2>1, <2>2
<1>9. CASE r.page = "chat"
  <2>1. Fits(final, tools')
    BY <1>1, <1>4, <1>9 DEF Fits
  <2>2. final.conversation # Absent =>
          /\ contexts'[final.conversation] # Absent
          /\ final.taskContext = Pages!TaskIn(contexts'[final.conversation])
    <3>. SUFFICES ASSUME final.conversation # Absent
                  PROVE /\ contexts'[final.conversation] # Absent
                        /\ final.taskContext = Pages!TaskIn(contexts'[final.conversation])
      OBVIOUS
    <3>1. speaks /\ final.conversation = topic
      BY <1>2, <1>4, <1>9
    <3>2. contexts'[topic] = context
      BY <1>1, <1>3, <3>1 DEF ContextsOK
    <3>. QED BY <1>3, <1>4, <3>1, <3>2
  <2>3. /\ \E i \in DOMAIN tabs' : tabs'[i] = Pages!Current(final)
        /\ final.scope # Pages!Project => \A i \in DOMAIN tabs' : tabs'[i].topic # Absent
    BY <1>1, <1>4, <1>9, StripOK
  <2>4. Shown(route)'
    BY <1>1, <1>9, <2>1, <2>2, <2>3 DEF Shown
  <2>5. PagesInv'
    BY <1>1, <1>4, <1>5, <1>6, <1>7, <1>8, <2>4 DEF PagesInv
  <2>. QED BY <1>1, <1>4, <1>9, <2>5
<1>10. CASE r.page # "chat"
  <2>1. PagesInv'
    BY <1>1, <1>4, <1>5, <1>6, <1>7, <1>8, <1>10 DEF PagesInv
  <2>. QED BY <1>1, <1>4, <1>10, <2>1
<1>. QED BY <1>9, <1>10

----------------------------------------------------------------------------
(* The tools beside a discussion.                                           *)

\* A tool that is added is there, with those that were.
LEMMA AddedOK ==
  ASSUME NEW S, NEW list \in Seq(S), NEW x \in S
  PROVE LET s == Pages!Added(list, x) IN
        /\ s \in Seq(S) /\ s # <<>> /\ Pages!Contains(s, x)
        /\ \A y : Pages!Contains(list, y) => Pages!Contains(s, y)
<1>. DEFINE s == Append(list, x)
<1>1. CASE Pages!Contains(list, x)
  BY <1>1 DEF Pages!Added, Pages!Contains
<1>2. CASE ~Pages!Contains(list, x)
  <2>1. /\ s \in Seq(S) /\ Len(s) = Len(list) + 1 /\ Len(list) \in Nat
        /\ s[Len(list) + 1] = x /\ \A i \in 1..Len(list) : s[i] = list[i]
    OBVIOUS
  <2>2. Pages!Added(list, x) = s
    BY <1>2 DEF Pages!Added
  <2>. HIDE DEF s
  <2>3. s # <<>>
    BY <2>1
  <2>. QED BY <2>1, <2>2, <2>3 DEF Pages!Contains
<1>. QED BY <1>1, <1>2

\* A tool that is read for a scope, read for it again, stays the same.
LEMMA InScopeFacts ==
  ASSUME NEW x \in Pages!AnyTool \cup {Absent}, NEW s \in Pages!Scopes
  PROVE /\ Pages!InScope(x, s) \in Pages!AnyTool \cup {Absent}
        /\ Pages!InScope(x, s) = Absent <=> x = Absent
        /\ Pages!InScope(Pages!InScope(x, s), s) = Pages!InScope(x, s)
        /\ s = Pages!Project => Pages!InScope(x, s) = x
<1>1. CASE x = Absent
  BY <1>1 DEF Pages!InScope
<1>2. CASE x \in Pages!AnyTool /\ x.view = "plans" /\ s[1] = "plan"
  <2>1. s[2] \in Plans /\ s # Pages!Project
    BY <1>2, ScopeFacts
  <2>2. Pages!InScope(x, s) = Pages!Tool("plan", s[2], Absent)
    BY <1>2, AbsentFacts DEF Pages!InScope
  <2>3. Pages!Tool("plan", s[2], Absent).view # "plans"
    BY DEF Pages!Tool
  <2>4. Pages!Tool("plan", s[2], Absent) \in Pages!AnyTool
    BY <2>1, ToolMade
  <2>. HIDE <1>2
  <2>5. Pages!InScope(Pages!Tool("plan", s[2], Absent), s) = Pages!Tool("plan", s[2], Absent)
    BY <2>3 DEF Pages!InScope
  <2>. QED BY <1>2, <2>1, <2>2, <2>4, <2>5, AbsentFacts
<1>3. CASE x \in Pages!AnyTool /\ ~(x.view = "plans" /\ s[1] = "plan")
  BY <1>3, AbsentFacts DEF Pages!InScope
<1>. QED BY <1>1, <1>2, <1>3

\* The tools that follow a route fit it.
LEMMA FromRouteOK ==
  ASSUME NEW r, RouteOK(r), NEW ses, ToolsOK(ses)
  PROVE LET s == Pages!FromRoute(ses, r) IN
        /\ ToolsOK(s) /\ Fits(r, s)
        /\ Pages!Incoming(r) # Absent => s.active = Pages!Incoming(r)
        /\ /\ Pages!Incoming(r) = Absent /\ r.view # "workspace"
           /\ ses.list # <<>> \/ r.scope = Pages!Project
           => s = ses
<1>. DEFINE s == Pages!FromRoute(ses, r)
<1>1. /\ ses.list \in Seq(Pages!AnyTool) /\ ses.active \in Pages!AnyTool \cup {Absent}
      /\ ses.active # Absent => Pages!Contains(ses.list, ses.active)
      /\ ses \in [list : Seq(Pages!AnyTool), active : Pages!AnyTool \cup {Absent}]
  BY DEF ToolsOK
<1>2. /\ Pages!Incoming(r) \in Pages!AnyTool \cup {Absent}
      /\ Pages!Incoming(r) = Absent <=> r.view \in {"home", "topic", "workspace"}
      /\ r.scope \in Pages!Scopes
  BY RouteTools DEF RouteOK, Routes
<1>3. CASE Pages!Incoming(r) # Absent
  <2>1. s = [list |-> Pages!Added(ses.list, Pages!Incoming(r)), active |-> Pages!Incoming(r)]
    BY <1>3 DEF Pages!FromRoute
  <2>2. /\ Pages!Added(ses.list, Pages!Incoming(r)) \in Seq(Pages!AnyTool)
        /\ Pages!Contains(Pages!Added(ses.list, Pages!Incoming(r)), Pages!Incoming(r))
    BY <1>1, <1>2, <1>3, AddedOK
  <2>3. ToolsOK(s)
    BY <1>2, <2>1, <2>2 DEF ToolsOK
  <2>4. Fits(r, s)
    BY <1>2, <1>3, <2>1 DEF Fits
  <2>. QED BY <1>3, <2>1, <2>3, <2>4
<1>4. CASE Pages!Incoming(r) = Absent /\ r.view = "workspace"
  <2>1. s = [ses EXCEPT !.active = Absent]
    BY <1>4 DEF Pages!FromRoute
  <2>2. ToolsOK(s)
    BY <1>1, <2>1 DEF ToolsOK
  <2>3. Fits(r, s)
    BY <1>1, <1>4, <2>1 DEF Fits
  <2>. QED BY <1>4, <2>2, <2>3
<1>5. CASE /\ Pages!Incoming(r) = Absent /\ r.view # "workspace"
           /\ ses.list = <<>> /\ r.scope # Pages!Project
  <2>. DEFINE f == Pages!FirstTool(r.scope)
  <2>1. s = [list |-> <<f>>, active |-> f]
    BY <1>5 DEF Pages!FromRoute
  <2>2. f \in Pages!AnyTool
    BY <1>2, <1>5, ScopeFacts, ToolMade DEF Pages!FirstTool, Pages!Sections
  <2>. HIDE DEF f
  <2>3. <<f>> \in Seq(Pages!AnyTool) /\ Pages!Contains(<<f>>, f) /\ <<f>> # <<>>
    BY <2>2 DEF Pages!Contains
  <2>4. ToolsOK(s)
    BY <2>1, <2>2, <2>3 DEF ToolsOK
  <2>5. Fits(r, s)
    BY <1>5, <2>1, <2>3 DEF Fits
  <2>. QED BY <1>5, <2>4, <2>5
<1>6. CASE /\ Pages!Incoming(r) = Absent /\ r.view # "workspace"
           /\ ~(ses.list = <<>> /\ r.scope # Pages!Project)
  <2>1. s = ses
    BY <1>6 DEF Pages!FromRoute
  <2>2. Fits(r, ses)
    BY <1>6 DEF Fits
  <2>. QED BY <1>6, <2>1, <2>2
<1>. QED BY <1>3, <1>4, <1>5, <1>6

\* The tools that are stored are read one after the other.
LEMMA StoredOK ==
  ASSUME NEW ses, ToolsOK(ses), NEW scope \in Pages!Scopes
  PROVE LET s == Pages!Stored(ses, scope) IN
        /\ ToolsOK(s) /\ s.active = Pages!InScope(ses.active, scope)
        /\ ses.list # <<>> => s.list # <<>>
<1>. DEFINE list == ses.list
            N == Len(list)
            tool(n) == Pages!InScope(list[n], scope)
            Reads(f, n) ==
              f = [k \in 0..n |-> IF k = 0 THEN <<>> ELSE Pages!Added(f[k - 1], tool(k))]
            first == CHOOSE f : f = [k \in 0..N |-> IF k = 0 THEN <<>>
                                                    ELSE Pages!Added(f[k - 1], tool(k))]
            Good(n) == /\ first[n] \in Seq(Pages!AnyTool)
                       /\ n > 0 => first[n] # <<>>
                       /\ \A k \in 1..n : Pages!Contains(first[n], tool(k))
<1>1. /\ list \in Seq(Pages!AnyTool) /\ N \in Nat
      /\ ses.active \in Pages!AnyTool \cup {Absent}
      /\ ses.active # Absent => \E k \in 1..N : list[k] = ses.active
  BY DEF ToolsOK, Pages!Contains
<1>2. \A n \in 1..N : tool(n) \in Pages!AnyTool
  <2>1. \A n \in 1..N : list[n] \in Pages!AnyTool
    BY <1>1
  <2>. QED BY <2>1, InScopeFacts, AbsentFacts
<1>. HIDE DEF list, tool
<1>3. \A n \in 0..N : \E f : Reads(f, n)
  <2>. DEFINE S == {n \in 0..N : \E f : Reads(f, n)}
  <2>1. Reads([k \in 0..0 |-> <<>>], 0)
    OBVIOUS
  <2>2. ASSUME NEW n \in 1..N, n - 1 \in S PROVE n \in S
    <3>1. PICK f : Reads(f, n - 1)
      BY <2>2
    <3>. DEFINE g == [k \in 0..n |-> IF k = n THEN Pages!Added(f[n - 1], tool(n)) ELSE f[k]]
    <3>2. \A k \in 0..(n - 1) : g[k] = f[k]
      BY <1>1
    <3>3. \A k \in 0..n : g[k] = IF k = 0 THEN <<>> ELSE Pages!Added(g[k - 1], tool(k))
      <4>. SUFFICES ASSUME NEW k \in 0..n
                    PROVE g[k] = IF k = 0 THEN <<>> ELSE Pages!Added(g[k - 1], tool(k))
        OBVIOUS
      <4>1. CASE k = n
        <5>1. n - 1 \in 0..(n - 1) /\ n # 0
          BY <1>1
        <5>2. g[n] = Pages!Added(f[n - 1], tool(n)) /\ g[n - 1] = f[n - 1]
          BY <1>1, <3>2, <5>1
        <5>. HIDE DEF g
        <5>. QED BY <4>1, <5>1, <5>2
      <4>2. CASE k # n
        <5>1. k \in 0..(n - 1) /\ (k # 0 => k - 1 \in 0..(n - 1))
          BY <1>1, <4>2
        <5>2. f[k] = IF k = 0 THEN <<>> ELSE Pages!Added(f[k - 1], tool(k))
          BY <3>1, <5>1
        <5>3. g[k] = f[k] /\ (k # 0 => g[k - 1] = f[k - 1])
          BY <3>2, <5>1
        <5>. HIDE DEF g
        <5>. QED BY <5>2, <5>3
      <4>. QED BY <4>1, <4>2
    <3>4. g = [k \in 0..n |-> g[k]]
      OBVIOUS
    <3>. HIDE DEF g
    <3>5. Reads(g, n)
      BY <3>3, <3>4
    <3>. HIDE DEF Reads
    <3>. QED BY <1>1, <3>5
  <2>. HIDE DEF Reads
  <2>3. 0 \in S
    BY <1>1, <2>1
  <2>. HIDE DEF S
  <2>4. \A n \in 0..N : n \in S
    BY <1>1, <2>2, <2>3, Counted
  <2>. QED BY <2>4 DEF S
<1>4. first = [k \in 0..N |-> IF k = 0 THEN <<>> ELSE Pages!Added(first[k - 1], tool(k))]
  BY <1>1, <1>3
<1>. HIDE DEF first
<1>5. \A n \in 0..N : Good(n)
  <2>. DEFINE S == {n \in 0..N : Good(n)}
  <2>1. Good(0)
    BY <1>1, <1>4
  <2>2. ASSUME NEW n \in 1..N, n - 1 \in S PROVE n \in S
    <3>1. Good(n - 1) /\ n - 1 \in 0..N /\ n \in 0..N /\ n # 0
      BY <1>1, <2>2
    <3>2. first[n] = Pages!Added(first[n - 1], tool(n))
      BY <1>4, <3>1
    <3>3. /\ first[n] \in Seq(Pages!AnyTool) /\ first[n] # <<>>
          /\ Pages!Contains(first[n], tool(n))
          /\ \A y : Pages!Contains(first[n - 1], y) => Pages!Contains(first[n], y)
      BY <1>2, <3>1, <3>2, AddedOK
    <3>4. \A k \in 1..n : k = n \/ k \in 1..(n - 1)
      BY <1>1
    <3>. QED BY <3>1, <3>3, <3>4
  <2>3. 0 \in S
    BY <1>1, <2>1
  <2>. HIDE DEF S
  <2>4. \A n \in 0..N : n \in S
    BY <1>1, <2>2, <2>3, Counted
  <2>. QED BY <2>4 DEF S
<1>6. Good(N)
  BY <1>1, <1>5
<1>7. Pages!Stored(ses, scope) = [list |-> first[N], active |-> Pages!InScope(ses.active, scope)]
  BY DEF Pages!Stored, first, tool, list
<1>8. Pages!InScope(ses.active, scope) \in Pages!AnyTool \cup {Absent}
  BY <1>1, InScopeFacts
<1>9. Pages!InScope(ses.active, scope) # Absent
        => Pages!Contains(first[N], Pages!InScope(ses.active, scope))
  <2>. SUFFICES ASSUME Pages!InScope(ses.active, scope) # Absent
                PROVE Pages!Contains(first[N], Pages!InScope(ses.active, scope))
    OBVIOUS
  <2>1. ses.active # Absent
    BY <1>1, InScopeFacts
  <2>2. PICK k \in 1..N : list[k] = ses.active
    BY <1>1, <2>1
  <2>3. tool(k) = Pages!InScope(ses.active, scope)
    BY <2>2 DEF tool
  <2>. QED BY <1>6, <2>2, <2>3
<1>10. ses.list # <<>> => N > 0
  BY <1>1 DEF list
<1>. QED BY <1>6, <1>7, <1>8, <1>9, <1>10 DEF ToolsOK

\* Where the route still names the same tool, the tools stay as they are.
LEMMA Unsignalled ==
  ASSUME PagesInv, route.page = "chat",
         NEW r, RouteOK(r), r.page = "chat", ~Pages!Signalled(r), Adjacent(route, r)
  PROVE Fits(r, tools)
<1>1. /\ r.view = route.view /\ r.id = route.id /\ r.section = route.section
      /\ Pages!Incoming(r) = Pages!Incoming(route)
  BY DEF Pages!Signalled
<1>2. Fits(route, tools) /\ InChat(route) /\ InChat(r)
  BY DEF PagesInv, Shown, RouteOK
<1>3. Pages!RouteTool(r) = Pages!RouteTool(route)
  BY <1>1 DEF Pages!RouteTool
<1>4. r.view \in {"topic", "home"} /\ r.scope # Pages!Project => tools.list # <<>>
  <2>. SUFFICES ASSUME r.view \in {"topic", "home"}, r.scope # Pages!Project
                PROVE tools.list # <<>>
    OBVIOUS
  <2>1. r.view = "topic"
    BY <1>2 DEF InChat
  <2>2. r.conversation = route.conversation
    BY <1>1, <1>2, <2>1 DEF InChat
  <2>3. r.scope = route.scope
    BY <1>1, <2>1, <2>2 DEF Adjacent
  <2>. QED BY <1>1, <1>2, <2>1, <2>3 DEF Fits
<1>. QED BY <1>1, <1>2, <1>3, <1>4 DEF Fits

\* The tools after a move fit the route it goes to.
LEMMA FollowingOK ==
  ASSUME PagesInv, NEW r, RouteOK(r), r.page = "chat", NEW ses, ToolsOK(ses),
         route.page = "chat" /\ ~Pages!Signalled(r) => Fits(r, ses)
  PROVE LET s == Pages!Following(ses, r) IN ToolsOK(s) /\ Fits(r, s)
<1>1. CASE route.page # "chat"
  <2>1. r.scope \in Pages!Scopes
    BY DEF RouteOK, Routes
  <2>2. ToolsOK(Pages!Stored(ses, r.scope))
    BY <2>1, StoredOK
  <2>. QED BY <1>1, <2>2, FromRouteOK DEF Pages!Following
<1>2. CASE route.page = "chat" /\ Pages!Signalled(r)
  BY <1>2, FromRouteOK DEF Pages!Following
<1>3. CASE route.page = "chat" /\ ~Pages!Signalled(r)
  BY <1>3 DEF Pages!Following
<1>. QED BY <1>1, <1>2, <1>3

----------------------------------------------------------------------------
(* Going to another page.                                                   *)

\* What a route becomes, field by field.
LEMMA GoFields ==
  ASSUME RouteOK(route), NEW next
  PROVE LET given(f) == Pages!Given(next, f)
            to(view) == given("view") /\ next.view = view
            leaving == given("page") /\ next.page # "chat"
            speaking == to("topic") \/ (given("conversation") /\ next.conversation # Absent)
            onRoute == to("plan") /\ ~given("page") /\ route.page # "chat"
            r == Pages!Go(next)
        IN /\ r = [page |-> r.page, view |-> r.view, id |-> r.id,
                   conversation |-> r.conversation, scope |-> r.scope,
                   taskContext |-> r.taskContext, section |-> r.section]
           /\ r.view = IF given("view") THEN next.view ELSE route.view
           /\ r.page = IF speaking THEN "chat" ELSE IF onRoute THEN "route"
                       ELSE IF given("page") THEN next.page ELSE route.page
           /\ r.scope = IF onRoute THEN Pages!InPlan(next.id)
                        ELSE IF given("scope") THEN next.scope ELSE route.scope
           /\ r.id = IF given("id") THEN next.id
                     ELSE IF given("view") /\ next.view # route.view THEN Absent ELSE route.id
           /\ r.section = IF given("section") THEN next.section
                          ELSE IF to("task") /\ given("id") /\ next.id # route.id
                               THEN "overview" ELSE route.section
           /\ r.conversation =
                IF leaving THEN Absent ELSE IF to("topic") THEN next.id
                ELSE IF given("conversation") THEN next.conversation
                ELSE IF route.view = "topic" THEN route.id ELSE route.conversation
           /\ r.taskContext =
                IF \/ leaving
                   \/ to("topic") /\ next.id # route.conversation /\ ~given("taskContext")
                THEN Absent
                ELSE IF given("taskContext") THEN next.taskContext ELSE route.taskContext
<1>. DEFINE given(f) == Pages!Given(next, f)
            value == [f \in DOMAIN route |-> IF given(f) THEN next[f] ELSE route[f]]
<1>1. route \in Routes
  BY DEF RouteOK
<1>2. DOMAIN route = {"page", "view", "id", "conversation", "scope", "taskContext", "section"}
  BY <1>1 DEF Routes
<1>. HIDE DEF given
<1>3. /\ DOMAIN value = {"page", "view", "id", "conversation", "scope", "taskContext", "section"}
      /\ value.page = IF given("page") THEN next.page ELSE route.page
      /\ value.view = IF given("view") THEN next.view ELSE route.view
      /\ value.id = IF given("id") THEN next.id ELSE route.id
      /\ value.conversation = IF given("conversation") THEN next.conversation
                              ELSE route.conversation
      /\ value.scope = IF given("scope") THEN next.scope ELSE route.scope
      /\ value.taskContext = IF given("taskContext") THEN next.taskContext
                             ELSE route.taskContext
      /\ value.section = IF given("section") THEN next.section ELSE route.section
  BY <1>2
<1>4. value = [page |-> value.page, view |-> value.view, id |-> value.id,
               conversation |-> value.conversation, scope |-> value.scope,
               taskContext |-> value.taskContext, section |-> value.section]
  BY <1>3
<1>. DEFINE to(view) == given("view") /\ next.view = view
            other == given("id") /\ next.id # route.id
            leaving == given("page") /\ next.page # "chat"
            speaking == to("topic") \/ (given("conversation") /\ next.conversation # Absent)
            onRoute == to("plan") /\ ~given("page") /\ route.page # "chat"
            r == Pages!Go(next)
            id == IF given("id") THEN value.id
                  ELSE IF given("view") /\ next.view # route.view THEN Absent ELSE value.id
            section == IF to("task") /\ other /\ ~given("section") THEN "overview"
                       ELSE value.section
            conversation == IF leaving THEN Absent
                            ELSE IF to("topic") THEN next.id
                            ELSE IF ~given("conversation") /\ route.view = "topic"
                                 THEN route.id ELSE value.conversation
            context == IF \/ leaving
                          \/ to("topic") /\ next.id # route.conversation
                             /\ ~given("taskContext")
                       THEN Absent ELSE value.taskContext
            place == IF onRoute THEN Pages!InPlan(next.id) ELSE value.scope
            page == IF speaking THEN "chat" ELSE IF onRoute THEN "route" ELSE value.page
<1>. HIDE DEF value
<1>5. r = [value EXCEPT !.id = id, !.section = section, !.conversation = conversation,
                        !.taskContext = context, !.scope = place, !.page = page]
  BY DEF Pages!Go, value, given
<1>. HIDE DEF id, section, conversation, context, place, page, r
<1>6. /\ r.id = id /\ r.section = section /\ r.conversation = conversation
      /\ r.taskContext = context /\ r.scope = place /\ r.page = page /\ r.view = value.view
      /\ r = [page |-> r.page, view |-> r.view, id |-> r.id,
              conversation |-> r.conversation, scope |-> r.scope,
              taskContext |-> r.taskContext, section |-> r.section]
  BY <1>4, <1>5
<1>. QED BY <1>3, <1>6 DEF id, section, conversation, context, place, page, r, given

\* The tool of a route that was made from it.
LEMMA ToolRoute ==
  ASSUME NEW x \in Pages!AnyTool, NEW r, r.view = x.view, r.id = x.id, r.section = x.section
  PROVE Pages!RouteTool(r) = x
BY ToolFacts, AbsentFacts DEF Pages!RouteTool, Pages!Or, Pages!Tool

\* A route that was made with fields of their kinds is one of the routes.
LEMMA RouteMade ==
  ASSUME NEW r,
         r = [page |-> r.page, view |-> r.view, id |-> r.id, conversation |-> r.conversation,
              scope |-> r.scope, taskContext |-> r.taskContext, section |-> r.section],
         r.page \in {"hub", "route", "chat"}, r.view \in Pages!Views,
         r.id \in Tasks \cup Plans \cup Topics \cup {Absent},
         r.conversation \in Topics \cup {Absent}, r.scope \in Pages!Scopes,
         r.taskContext \in Tasks \cup {Absent}, r.section \in Pages!Sections \cup {Absent},
         r.view = "task" => r.id \in Tasks, r.view = "plan" => r.id \in Plans,
         r.page = "hub" => OnHub(r), r.page = "route" => OnRoute(r), r.page = "chat" => InChat(r)
  PROVE RouteOK(r)
<1>. DEFINE a == r.page
            b == r.view
            c == r.id
            d == r.conversation
            e == r.scope
            f == r.taskContext
            g == r.section
<1>1. [page |-> a, view |-> b, id |-> c, conversation |-> d, scope |-> e, taskContext |-> f,
       section |-> g] \in Routes
  BY DEF Routes
<1>. QED BY <1>1 DEF RouteOK

\* The parts of the route.
LEMMA RouteFacts ==
  ASSUME RouteOK(route)
  PROVE /\ route.page \in {"hub", "route", "chat"} /\ route.view \in Pages!Views
        /\ route.id \in Tasks \cup Plans \cup Topics \cup {Absent}
        /\ route.conversation \in Topics \cup {Absent} /\ route.scope \in Pages!Scopes
        /\ route.taskContext \in Tasks \cup {Absent}
        /\ route.section \in Pages!Sections \cup {Absent}
        /\ route.view = "task" => route.id \in Tasks
        /\ route.view = "plan" => route.id \in Plans
        /\ route.page = "hub" => OnHub(route)
        /\ route.page = "route" => OnRoute(route)
        /\ route.page = "chat" => InChat(route)
BY DEF RouteOK, Routes

\* A move to a new address, with the tabs and the tools the move left.
LEMMA PushOK ==
  ASSUME PagesInv, NEW next, RouteOK(Pages!Go(next)), Adjacent(route, Pages!Go(next)),
         NEW list, TabsOK(list), NEW ses, ToolsOK(ses),
         /\ route.page = "chat" /\ Pages!Go(next).page = "chat"
         /\ ~Pages!Signalled(Pages!Go(next))
         => Fits(Pages!Go(next), ses),
         Pages!Push(next, list, ses, contexts)
  PROVE LET r == Pages!Go(next) IN
        /\ PagesInv' /\ route'.page = r.page /\ route'.scope = r.scope
        /\ Pages!Current(route)' = Pages!Current(r) /\ Pages!RouteTool(route)' = Pages!RouteTool(r)
        /\ tools' = IF r.page = "chat" THEN Pages!Following(ses, r) ELSE tools
        /\ r.page = "chat" => tabs' = Pages!Strip(list, r)
<1>. DEFINE r == Pages!Go(next)
            es == Pages!Pushed(entries, r)
            shown == IF r.page = "chat" THEN list ELSE tabs
            after == Pages!Following(ses, r)
<1>1. /\ RouteOK(route) /\ HistoryOK(entries)
      /\ Alike(Pages!Read(entries.list[entries.at]), route)
      /\ TabsOK(tabs) /\ TabsOK(saved) /\ ToolsOK(tools) /\ ContextsOK(contexts)
  BY DEF PagesInv
<1>2. Pages!Rest(r, es, shown, after, contexts)
  BY DEF Pages!Push
<1>. HIDE DEF r
<1>3. RouteOK(r) /\ Adjacent(route, r)
  BY DEF r
<1>4. HistoryOK(es) /\ Alike(Pages!Read(es.list[es.at]), r)
  BY <1>1, <1>3, PushedOK
<1>5. r.page = "chat" => ToolsOK(after) /\ Fits(r, after)
  BY <1>3, FollowingOK DEF r
<1>6. TabsOK(shown) /\ (r.page = "chat" => shown = list)
  BY <1>1
<1>. HIDE DEF es, shown, after
<1>7. /\ PagesInv' /\ route'.page = r.page /\ route'.scope = r.scope
      /\ Pages!Current(route)' = Pages!Current(r) /\ Pages!RouteTool(route)' = Pages!RouteTool(r)
      /\ tools' = IF r.page = "chat" THEN after ELSE tools
      /\ r.page = "chat" => tabs' = Pages!Strip(shown, r)
  <2>1. RouteOK(r) /\ HistoryOK(es)
    BY <1>3, <1>4
  <2>2. Alike(Pages!Read(es.list[es.at]), r)
    BY <1>4
  <2>3. TabsOK(shown) /\ TabsOK(saved) /\ ToolsOK(tools) /\ ContextsOK(contexts)
    BY <1>1, <1>6
  <2>4. r.page = "chat" => ToolsOK(after) /\ Fits(r, after)
    BY <1>5
  <2>. QED BY <1>2, <2>1, <2>2, <2>3, <2>4, Rests
<1>. QED BY <1>6, <1>7 DEF r, after

\* A move that leaves tabs and tools to the pages.
LEMMA VisitOK ==
  ASSUME PagesInv, NEW next, RouteOK(Pages!Go(next)), Adjacent(route, Pages!Go(next)),
         Pages!Visit(next)
  PROVE LET r == Pages!Go(next) IN
        /\ PagesInv' /\ route'.page = r.page /\ route'.scope = r.scope
        /\ Pages!Current(route)' = Pages!Current(r) /\ Pages!RouteTool(route)' = Pages!RouteTool(r)
        /\ tools' = IF r.page = "chat" THEN Pages!Following(tools, r) ELSE tools
        /\ r.page = "chat" => tabs' = Pages!Strip(Pages!Listed, r)
<1>1. TabsOK(Pages!Listed) /\ ToolsOK(tools)
  BY DEF PagesInv, Pages!Listed
<1>2. /\ route.page = "chat" /\ Pages!Go(next).page = "chat"
      /\ ~Pages!Signalled(Pages!Go(next))
      => Fits(Pages!Go(next), tools)
  BY Unsignalled
<1>3. Pages!Push(next, Pages!Listed, tools, contexts)
  BY DEF Pages!Visit
<1>. QED BY <1>1, <1>2, <1>3, PushOK

\* From the hub to the page of a plan.
LEMMA OpenPlanOK ==
  ASSUME PagesInv, NEW p \in Plans, Pages!OpenPlan(p)
  PROVE PagesInv'
<1>. DEFINE next == [page |-> "route", scope |-> Pages!InPlan(p), view |-> "plan", id |-> p,
                     section |-> Absent]
            r == Pages!Go(next)
<1>1. /\ r = [page |-> r.page, view |-> r.view, id |-> r.id, conversation |-> r.conversation,
              scope |-> r.scope, taskContext |-> r.taskContext, section |-> r.section]
      /\ r.page = "route" /\ r.view = "plan" /\ r.id = p /\ r.scope = Pages!InPlan(p)
      /\ r.section = Absent /\ r.conversation = Absent /\ r.taskContext = Absent
  BY GoFields DEF Pages!Given, PagesInv
<1>2. Pages!Visit(next)
  BY DEF Pages!OpenPlan
<1>. HIDE DEF r
<1>3. RouteOK(r) /\ Adjacent(route, r)
  BY <1>1, RouteMade, ScopeMade DEF OnRoute, Silent, Adjacent, Pages!Views
<1>. QED BY <1>2, <1>3, VisitOK DEF r

\* From the page of a plan to one of its tasks.
LEMMA OpenOnRouteOK ==
  ASSUME PagesInv, NEW t \in Tasks, Pages!OpenOnRoute(t)
  PROVE PagesInv'
<1>. DEFINE next == [page |-> "route", scope |-> route.scope, view |-> "task", id |-> t,
                     section |-> "overview"]
            r == Pages!Go(next)
<1>1. /\ r = [page |-> r.page, view |-> r.view, id |-> r.id, conversation |-> r.conversation,
              scope |-> r.scope, taskContext |-> r.taskContext, section |-> r.section]
      /\ r.page = "route" /\ r.view = "task" /\ r.id = t /\ r.scope = route.scope
      /\ r.section = "overview" /\ r.conversation = Absent /\ r.taskContext = Absent
  BY GoFields DEF Pages!Given, PagesInv
<1>2. Pages!Visit(next) /\ OnRoute(route) /\ route.scope \in Pages!Scopes
  BY RouteFacts DEF Pages!OpenOnRoute, PagesInv
<1>. HIDE DEF r
<1>3. RouteOK(r) /\ Adjacent(route, r)
  BY <1>1, <1>2, RouteMade DEF OnRoute, Silent, Adjacent, Pages!Views, Pages!Sections
<1>. QED BY <1>2, <1>3, VisitOK DEF r

\* To the main discussion of a task, with the task beside it.
LEMMA DiscussTaskOK ==
  ASSUME PagesInv, NEW t \in Tasks, Pages!DiscussTask(t)
  PROVE PagesInv'
<1>. DEFINE next == [page |-> "chat", view |-> "task", id |-> t, taskContext |-> t,
                     conversation |-> TaskMain[t], scope |-> Pages!InTask(t)]
            r == Pages!Go(next)
<1>0. TaskMain[t] \in Topics /\ TaskMain[t] # Absent
  BY WindowAssumption
<1>1. /\ r = [page |-> r.page, view |-> r.view, id |-> r.id, conversation |-> r.conversation,
              scope |-> r.scope, taskContext |-> r.taskContext, section |-> r.section]
      /\ r.page = "chat" /\ r.view = "task" /\ r.id = t /\ r.scope = Pages!InTask(t)
      /\ r.section \in {"overview", route.section}
      /\ r.conversation = TaskMain[t] /\ r.taskContext = t
  BY <1>0, GoFields DEF Pages!Given, PagesInv
<1>2. Pages!Visit(next)
  BY DEF Pages!DiscussTask
<1>3. route.section \in Pages!Sections \cup {Absent}
  BY RouteFacts DEF PagesInv
<1>. HIDE DEF r
<1>4. RouteOK(r) /\ Adjacent(route, r)
  BY <1>0, <1>1, <1>3, RouteMade, ScopeMade DEF InChat, Adjacent, Pages!Views, Pages!Sections
<1>. QED BY <1>2, <1>4, VisitOK DEF r

\* To the main discussion of a plan, with the plan beside it.
LEMMA DiscussPlanOK ==
  ASSUME PagesInv, NEW p \in Plans, Pages!DiscussPlan(p)
  PROVE PagesInv'
<1>. DEFINE next == [page |-> "chat", view |-> "plan", id |-> p, taskContext |-> Absent,
                     conversation |-> PlanMain[p], scope |-> Pages!InPlan(p)]
            r == Pages!Go(next)
<1>0. PlanMain[p] \in Topics /\ PlanMain[p] # Absent
  BY WindowAssumption
<1>1. /\ r = [page |-> r.page, view |-> r.view, id |-> r.id, conversation |-> r.conversation,
              scope |-> r.scope, taskContext |-> r.taskContext, section |-> r.section]
      /\ r.page = "chat" /\ r.view = "plan" /\ r.id = p /\ r.scope = Pages!InPlan(p)
      /\ r.section = route.section
      /\ r.conversation = PlanMain[p] /\ r.taskContext = Absent
  BY <1>0, GoFields DEF Pages!Given, PagesInv
<1>2. Pages!Visit(next)
  BY DEF Pages!DiscussPlan
<1>3. route.section \in Pages!Sections \cup {Absent}
  BY RouteFacts DEF PagesInv
<1>. HIDE DEF r
<1>4. RouteOK(r) /\ Adjacent(route, r)
  BY <1>0, <1>1, <1>3, RouteMade, ScopeMade DEF InChat, Adjacent, Pages!Views
<1>. QED BY <1>2, <1>4, VisitOK DEF r

\* To the overview of the discussions.
LEMMA DiscussionsOK ==
  ASSUME PagesInv, Pages!Discussions
  PROVE PagesInv'
<1>. DEFINE next == [page |-> "chat", view |-> "home", id |-> Absent, conversation |-> Absent,
                     scope |-> Pages!Project]
            r == Pages!Go(next)
<1>1. /\ r = [page |-> r.page, view |-> r.view, id |-> r.id, conversation |-> r.conversation,
              scope |-> r.scope, taskContext |-> r.taskContext, section |-> r.section]
      /\ r.page = "chat" /\ r.view = "home" /\ r.id = Absent /\ r.scope = Pages!Project
      /\ r.section = route.section
      /\ r.conversation = Absent /\ r.taskContext = route.taskContext
  BY GoFields DEF Pages!Given, PagesInv
<1>2. Pages!Visit(next)
  BY DEF Pages!Discussions
<1>3. route.section \in Pages!Sections \cup {Absent} /\ route.taskContext \in Tasks \cup {Absent}
  BY RouteFacts DEF PagesInv
<1>. HIDE DEF r
<1>4. RouteOK(r) /\ Adjacent(route, r)
  BY <1>1, <1>3, RouteMade, ScopeMade DEF InChat, Adjacent, Pages!Views
<1>. QED BY <1>2, <1>4, VisitOK DEF r

\* To the hub.
LEMMA HubRoute ==
  ASSUME PagesInv
  PROVE LET r == Pages!Go([page |-> "hub", view |-> "plans", id |-> Absent,
                           scope |-> Pages!Project])
        IN RouteOK(r) /\ Adjacent(route, r) /\ r.page = "hub"
<1>. DEFINE next == [page |-> "hub", view |-> "plans", id |-> Absent, scope |-> Pages!Project]
            r == Pages!Go(next)
<1>1. /\ r = [page |-> r.page, view |-> r.view, id |-> r.id, conversation |-> r.conversation,
              scope |-> r.scope, taskContext |-> r.taskContext, section |-> r.section]
      /\ r.page = "hub" /\ r.view = "plans" /\ r.id = Absent /\ r.scope = Pages!Project
      /\ r.section = route.section
      /\ r.conversation = Absent /\ r.taskContext = Absent
  BY GoFields DEF Pages!Given, PagesInv
<1>2. route.section \in Pages!Sections \cup {Absent}
  BY RouteFacts DEF PagesInv
<1>. HIDE DEF r
<1>3. RouteOK(r) /\ Adjacent(route, r)
  BY <1>1, <1>2, RouteMade, ScopeMade DEF OnHub, Silent, Adjacent, Pages!Views
<1>. QED BY <1>1, <1>3 DEF r

\* From a discussion to the plan of its task, or to the hub.
LEMMA LeaveOK ==
  ASSUME PagesInv, Pages!Leave
  PROVE PagesInv'
<1>. DEFINE plan == IF route.scope[1] = "task" THEN PlanOf[route.scope[2]] ELSE Absent
            next == [page |-> "route", scope |-> Pages!InPlan(plan), view |-> "plan", id |-> plan]
            r == Pages!Go(next)
<1>1. CASE plan = Absent
  <2>1. Pages!Visit([page |-> "hub", view |-> "plans", id |-> Absent, scope |-> Pages!Project])
    BY <1>1 DEF Pages!Leave
  <2>. QED BY <2>1, HubRoute, VisitOK
<1>2. CASE plan # Absent
  <2>1. Pages!Visit(next)
    BY <1>2 DEF Pages!Leave
  <2>2. route.scope \in Pages!Scopes /\ route.section \in Pages!Sections \cup {Absent}
    BY RouteFacts DEF PagesInv
  <2>3. plan \in Plans
    BY <1>2, <2>2, ScopeFacts, WindowAssumption
  <2>. HIDE DEF plan
  <2>4. /\ r = [page |-> r.page, view |-> r.view, id |-> r.id, conversation |-> r.conversation,
                scope |-> r.scope, taskContext |-> r.taskContext, section |-> r.section]
        /\ r.page = "route" /\ r.view = "plan" /\ r.id = plan /\ r.scope = Pages!InPlan(plan)
        /\ r.section = route.section
        /\ r.conversation = Absent /\ r.taskContext = Absent
    BY GoFields DEF Pages!Given, PagesInv
  <2>. HIDE DEF r
  <2>5. RouteOK(r) /\ Adjacent(route, r)
    BY <2>2, <2>3, <2>4, RouteMade, ScopeMade DEF OnRoute, Silent, Adjacent, Pages!Views
  <2>. QED BY <2>1, <2>5, VisitOK DEF r
<1>. QED BY <1>1, <1>2
\* A reference to a plan or a task.
LEMMA OpenObjectOK ==
  ASSUME PagesInv, NEW kind, NEW id,
         \/ kind = "plan" /\ id \in Plans
         \/ kind = "task" /\ id \in Tasks,
         Pages!OpenObject(kind, id)
  PROVE /\ PagesInv'
        /\ route.page = "chat" => Pages!Current(route)' = Pages!Current(route)
<1>. DEFINE beside == [view |-> kind, id |-> id,
                       section |-> IF kind = "task" THEN "overview" ELSE Absent]
            plan == [page |-> "route", view |-> "plan", id |-> id, scope |-> Pages!InPlan(id)]
            task == [page |-> "hub", view |-> "task", id |-> id, scope |-> Pages!Project,
                     section |-> "overview"]
<1>1. /\ RouteOK(route) /\ route.section \in Pages!Sections \cup {Absent}
      /\ route.page = "chat" => InChat(route) /\ route.scope \in Pages!Scopes
      /\ route.conversation \in Topics \cup {Absent} /\ route.taskContext \in Tasks \cup {Absent}
  BY RouteFacts DEF PagesInv
<1>2. CASE route.page = "chat"
  <2>. DEFINE r == Pages!Go(beside)
  <2>1. Pages!Visit(beside)
    BY <1>2 DEF Pages!OpenObject
  <2>2. /\ r = [page |-> r.page, view |-> r.view, id |-> r.id, conversation |-> r.conversation,
                scope |-> r.scope, taskContext |-> r.taskContext, section |-> r.section]
        /\ r.page = "chat" /\ r.view = kind /\ r.id = id /\ r.scope = route.scope
        /\ r.section = beside.section
        /\ r.conversation = route.conversation /\ r.taskContext = route.taskContext
    BY <1>1, <1>2, GoFields DEF Pages!Given, InChat
  <2>. HIDE DEF r
  <2>3. RouteOK(r) /\ Adjacent(route, r)
    BY <1>1, <1>2, <2>2, RouteMade DEF InChat, Adjacent, Pages!Views, Pages!Sections
  <2>4. Pages!Current(r) = Pages!Current(route)
    BY <1>1, <2>2, <2>3, CurrentFacts
  <2>. QED BY <2>1, <2>3, <2>4, VisitOK DEF r
<1>3. CASE route.page # "chat" /\ kind = "plan"
  <2>. DEFINE r == Pages!Go(plan)
  <2>1. Pages!Visit(plan)
    BY <1>3 DEF Pages!OpenObject
  <2>2. /\ r = [page |-> r.page, view |-> r.view, id |-> r.id, conversation |-> r.conversation,
                scope |-> r.scope, taskContext |-> r.taskContext, section |-> r.section]
        /\ r.page = "route" /\ r.view = "plan" /\ r.id = id /\ r.scope = Pages!InPlan(id)
        /\ r.section = route.section /\ r.conversation = Absent /\ r.taskContext = Absent
    BY <1>1, GoFields DEF Pages!Given
  <2>. HIDE DEF r
  <2>3. RouteOK(r) /\ Adjacent(route, r)
    BY <1>1, <1>3, <2>2, RouteMade, ScopeMade DEF OnRoute, Silent, Adjacent, Pages!Views
  <2>. QED BY <1>3, <2>1, <2>3, VisitOK DEF r
<1>4. CASE route.page # "chat" /\ kind = "task"
  <2>. DEFINE r == Pages!Go(task)
  <2>1. Pages!Visit(task)
    BY <1>4 DEF Pages!OpenObject
  <2>2. /\ r = [page |-> r.page, view |-> r.view, id |-> r.id, conversation |-> r.conversation,
                scope |-> r.scope, taskContext |-> r.taskContext, section |-> r.section]
        /\ r.page = "hub" /\ r.view = "task" /\ r.id = id /\ r.scope = Pages!Project
        /\ r.section = "overview" /\ r.conversation = Absent /\ r.taskContext = Absent
    BY <1>1, GoFields DEF Pages!Given
  <2>. HIDE DEF r
  <2>3. RouteOK(r) /\ Adjacent(route, r)
    BY <1>4, <2>2, RouteMade, ScopeMade
       DEF OnHub, Silent, Adjacent, Pages!Views, Pages!Sections
  <2>. QED BY <1>4, <2>1, <2>3, VisitOK DEF r
<1>. QED BY <1>2, <1>3, <1>4

\* From the list of the discussions to one of them.
LEMMA PickTopicOK ==
  ASSUME PagesInv, NEW topic \in Topics, Pages!PickTopic(topic)
  PROVE PagesInv'
<1>. DEFINE next == [page |-> "chat", view |-> "topic", id |-> topic, conversation |-> topic,
                     taskContext |-> IF route.scope[1] = "task" THEN route.scope[2] ELSE Absent]
            r == Pages!Go(next)
<1>1. /\ r = [page |-> r.page, view |-> r.view, id |-> r.id, conversation |-> r.conversation,
              scope |-> r.scope, taskContext |-> r.taskContext, section |-> r.section]
      /\ r.page = "chat" /\ r.view = "topic" /\ r.id = topic /\ r.scope = route.scope
      /\ r.section = route.section
      /\ r.conversation = topic /\ r.taskContext = next.taskContext
  BY GoFields DEF Pages!Given, PagesInv
<1>2. Pages!Visit(next)
  BY DEF Pages!PickTopic
<1>3. route.scope \in Pages!Scopes /\ route.section \in Pages!Sections \cup {Absent}
  BY RouteFacts DEF PagesInv
<1>4. next.taskContext \in Tasks \cup {Absent} /\ topic # Absent
  BY <1>3, ScopeFacts, AbsentFacts
<1>. HIDE DEF r, next
<1>5. RouteOK(r) /\ Adjacent(route, r)
  BY <1>1, <1>3, <1>4, RouteMade DEF InChat, Adjacent, Pages!Views
<1>. QED BY <1>2, <1>5, VisitOK DEF r

\* A tab leads to its own discussion and scope, and the tool stays beside it.
LEMMA DestinationOK ==
  ASSUME PagesInv, route.page = "chat", NEW tab \in Pages!AnyTab,
         tab.topic = route.conversation => tab.scope = route.scope
  PROVE LET r == Pages!Go(Pages!Destination(tab)) IN
        /\ RouteOK(r) /\ Adjacent(route, r) /\ r.page = "chat" /\ r.scope = tab.scope
        /\ Pages!Current(r) = tab
        /\ Pages!RouteTool(r) = IF tab = Pages!Home THEN Absent ELSE Pages!RouteTool(route)
        /\ r.view # "workspace"
<1>. DEFINE tool == Pages!RouteTool(route)
            next == Pages!Destination(tab)
            r == Pages!Go(next)
<1>1. /\ RouteOK(route) /\ route.section \in Pages!Sections \cup {Absent}
      /\ InChat(route) /\ ContextsOK(contexts)
  BY RouteFacts DEF PagesInv
<1>2. /\ tab.topic \in Topics \cup {Absent} /\ tab.scope \in Pages!Scopes
      /\ tab = Pages!Tab(tab.topic, tab.scope) /\ (tab.topic = Absent <=> tab = Pages!Home)
      /\ tab.topic = Absent => tab.scope = Pages!Project
  BY TabFacts
<1>3. tool \in Pages!AnyTool \cup {Absent}
  BY <1>1, RouteTools DEF RouteOK, Routes, Pages!Views
<1>. HIDE DEF tool
<1>4. CASE tab = Pages!Home
  <2>1. next = [page |-> "chat", view |-> "home", id |-> Absent, conversation |-> Absent,
                scope |-> Pages!Project, taskContext |-> Absent]
    BY <1>4 DEF Pages!Destination
  <2>. HIDE DEF next
  <2>2. /\ r = [page |-> r.page, view |-> r.view, id |-> r.id, conversation |-> r.conversation,
                scope |-> r.scope, taskContext |-> r.taskContext, section |-> r.section]
        /\ r.page = "chat" /\ r.view = "home" /\ r.id = Absent /\ r.scope = Pages!Project
        /\ r.section = route.section /\ r.conversation = Absent /\ r.taskContext = Absent
    BY <1>1, <2>1, GoFields DEF Pages!Given
  <2>. HIDE DEF r
  <2>3. RouteOK(r) /\ Adjacent(route, r)
    BY <1>1, <2>2, RouteMade, ScopeMade DEF InChat, Adjacent, Pages!Views
  <2>4. Pages!Current(r) = tab /\ Pages!RouteTool(r) = Absent
    BY <1>4, <2>2, <2>3, CurrentFacts, RouteTools
  <2>. QED BY <1>2, <1>4, <2>2, <2>3, <2>4 DEF r, next
<1>5. CASE tab # Pages!Home
  <2>. DEFINE context == IF contexts[tab.topic] # Absent THEN Pages!TaskIn(contexts[tab.topic])
                         ELSE IF tab.scope[1] = "task" THEN tab.scope[2] ELSE Absent
  <2>1. tab.topic \in Topics /\ tab.topic # Absent
    BY <1>2, <1>5
  <2>2. context \in Tasks \cup {Absent}
    <3>1. contexts[tab.topic] \in Pages!Contexts \cup {Absent}
      BY <1>1, <2>1 DEF ContextsOK
    <3>2. contexts[tab.topic] # Absent => Pages!TaskIn(contexts[tab.topic]) \in Tasks \cup {Absent}
      BY <3>1, ContextFacts
    <3>3. tab.scope[1] = "task" => tab.scope[2] \in Tasks
      BY <1>2, ScopeFacts
    <3>. QED BY <3>2, <3>3
  <2>3. next = [page |-> "chat", conversation |-> tab.topic, scope |-> tab.scope,
                view |-> IF tool = Absent THEN "topic" ELSE tool.view,
                id |-> IF tool = Absent THEN tab.topic ELSE tool.id,
                section |-> IF tool = Absent THEN Absent ELSE tool.section,
                taskContext |-> context]
    BY <1>5 DEF Pages!Destination, tool
  <2>. HIDE DEF next, context
  <2>4. tool # Absent => tool.view \in {"task", "plan", "plans", "resources"}
    BY <1>3, ToolFacts
  <2>5. /\ r = [page |-> r.page, view |-> r.view, id |-> r.id, conversation |-> r.conversation,
                scope |-> r.scope, taskContext |-> r.taskContext, section |-> r.section]
        /\ r.page = "chat" /\ r.scope = tab.scope
        /\ r.view = IF tool = Absent THEN "topic" ELSE tool.view
        /\ r.id = IF tool = Absent THEN tab.topic ELSE tool.id
        /\ r.section = IF tool = Absent THEN Absent ELSE tool.section
        /\ r.conversation = tab.topic /\ r.taskContext = context
    BY <1>1, <2>1, <2>3, <2>4, GoFields DEF Pages!Given
  <2>. HIDE DEF r
  <2>6. r.view \in {"topic", "task", "plan", "plans", "resources"} /\ InChat(r)
    BY <2>1, <2>4, <2>5 DEF InChat
  <2>7. /\ r.view = "task" => r.id \in Tasks
        /\ r.view = "plan" => r.id \in Plans
        /\ r.id \in Tasks \cup Plans \cup Topics \cup {Absent}
        /\ r.section \in Pages!Sections \cup {Absent}
    BY <1>3, <2>1, <2>4, <2>5, ToolFacts
  <2>8. RouteOK(r)
    BY <1>2, <2>2, <2>1, <2>5, <2>6, <2>7, RouteMade DEF Pages!Views
  <2>9. Adjacent(route, r)
    BY <2>5 DEF Adjacent
  <2>10. Pages!Current(r) = tab
    BY <1>2, <2>1, <2>5, <2>8, CurrentFacts
  <2>11. Pages!RouteTool(r) = tool
    BY <1>3, <2>4, <2>5, <2>8, ToolRoute, RouteTools
  <2>. QED BY <1>5, <2>5, <2>6, <2>8, <2>9, <2>10, <2>11 DEF r, next, tool
<1>. QED BY <1>4, <1>5
\* Another discussion: the tool that is chosen stays, read for the scope of that discussion.
LEMMA PickTabOK ==
  ASSUME PagesInv, NEW i \in DOMAIN tabs, Pages!PickTab(i)
  PROVE /\ PagesInv'
        /\ tools.active # Absent =>
             tools'.active \in {Pages!Chosen, Pages!InScope(Pages!Chosen, route'.scope)}
<1>. DEFINE tab == tabs[i]
            r == Pages!Go(Pages!Destination(tab))
            tool == Pages!RouteTool(route)
<1>1. /\ route.page = "chat" /\ tab.topic # Pages!Current(route).topic
      /\ Pages!Visit(Pages!Destination(tab))
  BY DEF Pages!PickTab
<1>2. /\ tab \in Pages!AnyTab /\ RouteOK(route) /\ ToolsOK(tools) /\ Shown(route)
  BY <1>1 DEF PagesInv, TabsOK
<1>3. tab.topic # route.conversation
  BY <1>1, <1>2, CurrentFacts
<1>. HIDE DEF tab
<1>4. /\ RouteOK(r) /\ Adjacent(route, r) /\ r.page = "chat" /\ r.scope = tab.scope
      /\ Pages!RouteTool(r) = IF tab = Pages!Home THEN Absent ELSE tool
      /\ r.view # "workspace"
  BY <1>1, <1>2, <1>3, DestinationOK
<1>5. /\ PagesInv' /\ route'.scope = r.scope
      /\ tools' = Pages!Following(tools, r)
  BY <1>1, <1>4, VisitOK
<1>. HIDE DEF r
<1>6. ASSUME tools.active # Absent
      PROVE tools'.active \in {Pages!Chosen, Pages!InScope(Pages!Chosen, route'.scope)}
  <2>1. tools.list # <<>>
    BY <1>2, <1>6 DEF ToolsOK, Pages!Contains
  <2>2. CASE Pages!RouteTool(r) = Absent
    <3>1. Pages!Incoming(r) = Absent
      BY <1>4, <2>2, RouteTools
    <3>2. Pages!FromRoute(tools, r) = tools
      BY <1>2, <1>4, <2>1, <3>1, FromRouteOK
    <3>3. tools' = tools
      BY <1>1, <1>5, <3>2 DEF Pages!Following
    <3>4. tools.active = Pages!Chosen
      <4>1. CASE tool = Absent
        BY <4>1 DEF Pages!Chosen, tool
      <4>2. CASE tool # Absent
        <5>1. tab = Pages!Home
          BY <1>4, <2>2, <4>2
        <5>2. tab.topic = Absent
          BY <5>1 DEF Pages!Home, Pages!Tab
        <5>3. route.scope = Pages!Project
          BY <1>2, <5>2 DEF Shown, tab
        <5>4. Pages!Incoming(route) = tool
          <6>1. tool \in Pages!AnyTool
            BY <1>2, <4>2, RouteTools DEF tool, RouteOK, Routes, Pages!Views
          <6>2. Pages!InScope(tool, route.scope) = tool
            BY <5>3, <6>1, InScopeFacts, ScopeMade
          <6>. QED BY <1>2, <6>2, RouteTools DEF tool
        <5>. QED BY <1>2, <4>2, <5>4 DEF Shown, Fits, Pages!Chosen, tool
      <4>. QED BY <4>1, <4>2
    <3>. QED BY <3>3, <3>4
  <2>3. CASE Pages!RouteTool(r) # Absent
    <3>1. Pages!RouteTool(r) = tool /\ tool # Absent /\ Pages!Chosen = tool
      BY <1>4, <2>3 DEF Pages!Chosen
    <3>2. Pages!Incoming(r) # Absent /\ Pages!Incoming(r) = Pages!InScope(tool, route'.scope)
      BY <1>4, <1>5, <2>3, <3>1, RouteTools
    <3>3. CASE Pages!Signalled(r)
      <4>1. tools' = Pages!FromRoute(tools, r)
        BY <1>1, <1>5, <3>3 DEF Pages!Following
      <4>2. tools'.active = Pages!Incoming(r)
        BY <1>2, <1>4, <3>2, <4>1, FromRouteOK
      <4>. QED BY <3>1, <3>2, <4>2
    <3>4. CASE ~Pages!Signalled(r)
      <4>1. tools' = tools /\ Pages!Incoming(r) = Pages!Incoming(route)
        BY <1>1, <1>5, <3>4 DEF Pages!Following, Pages!Signalled
      <4>2. tools.active \in {tool, Pages!Incoming(r)}
        BY <1>2, <3>2, <4>1 DEF Shown, Fits
      <4>. QED BY <3>1, <3>2, <4>1, <4>2
    <3>. QED BY <3>3, <3>4
  <2>. QED BY <2>2, <2>3
<1>. QED BY <1>5, <1>6

\* A tab is closed; the next one is shown, or the hub.
LEMMA CloseTabOK ==
  ASSUME PagesInv, NEW i \in DOMAIN tabs, Pages!CloseTab(i)
  PROVE PagesInv'
<1>. DEFINE rest == Pages!RemoveAt(tabs, i)
            shown == tabs[i].topic = Pages!Current(route).topic
            next == IF shown THEN Pages!Neighbour(tabs, i) ELSE Pages!Current(route)
            r == Pages!Go([page |-> "hub", view |-> "plans", id |-> Absent,
                           scope |-> Pages!Project])
<1>1. /\ route.page = "chat" /\ tabs[i].topic # Absent
      /\ IF next # Absent THEN Pages!Push(Pages!Destination(next), rest, tools, contexts)
         ELSE Pages!Rest(r, Pages!Pushed(entries, r), rest, tools, contexts)
  BY DEF Pages!CloseTab
<1>2. /\ TabsOK(tabs) /\ TabsOK(saved) /\ RouteOK(route) /\ ToolsOK(tools) /\ ContextsOK(contexts)
      /\ HistoryOK(entries) /\ Alike(Pages!Read(entries.list[entries.at]), route)
  BY DEF PagesInv
<1>3. TabsOK(rest)
  BY <1>2, TabsRemoved
<1>4. /\ tabs \in Seq(Pages!AnyTab) /\ i \in 1..Len(tabs) /\ Len(tabs) \in Nat
      /\ \A j, k \in DOMAIN tabs : tabs[j].topic = tabs[k].topic => j = k
  BY <1>2 DEF TabsOK
<1>5. /\ Pages!Current(route) = IF route.conversation = Absent THEN Pages!Home
                                ELSE Pages!Tab(route.conversation, route.scope)
      /\ Pages!Current(route) \in Pages!AnyTab
      /\ Pages!Current(route).topic = route.conversation
      /\ route.conversation = Absent => route.scope = Pages!Project
  BY <1>1, <1>2, CurrentFacts DEF RouteOK, InChat
<1>6. next # Absent => /\ next \in Pages!AnyTab
                       /\ next.topic = route.conversation => next.scope = route.scope
  <2>1. CASE shown
    <3>1. \/ Pages!Neighbour(tabs, i) = Absent
          \/ \E j \in 1..Len(tabs) : j # i /\ Pages!Neighbour(tabs, i) = tabs[j]
      BY <1>4 DEF Pages!Neighbour
    <3>2. \A j \in 1..Len(tabs) : /\ tabs[j] \in Pages!AnyTab
                                  /\ j # i => tabs[j].topic # tabs[i].topic
      BY <1>4
    <3>. QED BY <1>5, <2>1, <3>1, <3>2
  <2>2. CASE ~shown
    <3>1. Pages!Current(route).scope = route.scope
      BY <1>5 DEF Pages!Home, Pages!Tab
    <3>. QED BY <1>5, <2>2, <3>1
  <2>. QED BY <2>1, <2>2
<1>. HIDE DEF rest, next, r
<1>7. CASE next # Absent
  <2>1. /\ RouteOK(Pages!Go(Pages!Destination(next)))
        /\ Adjacent(route, Pages!Go(Pages!Destination(next)))
    BY <1>1, <1>6, <1>7, DestinationOK
  <2>2. /\ route.page = "chat" /\ Pages!Go(Pages!Destination(next)).page = "chat"
        /\ ~Pages!Signalled(Pages!Go(Pages!Destination(next)))
        => Fits(Pages!Go(Pages!Destination(next)), tools)
    BY <2>1, Unsignalled
  <2>3. Pages!Push(Pages!Destination(next), rest, tools, contexts)
    BY <1>1, <1>7
  <2>. QED BY <1>2, <1>3, <2>1, <2>2, <2>3, PushOK
<1>8. CASE next = Absent
  <2>1. RouteOK(r) /\ Adjacent(route, r) /\ r.page # "chat"
    BY HubRoute DEF r
  <2>. DEFINE es == Pages!Pushed(entries, r)
  <2>2. HistoryOK(es) /\ Alike(Pages!Read(es.list[es.at]), r)
    BY <1>2, <2>1, PushedOK
  <2>3. Pages!Rest(r, es, rest, tools, contexts)
    BY <1>1, <1>8
  <2>. HIDE DEF es
  <2>4. r.page = "chat" => ToolsOK(tools) /\ Fits(r, tools)
    BY <2>1
  <2>. QED BY <1>2, <1>3, <2>1, <2>2, <2>3, <2>4, Rests
<1>. QED BY <1>7, <1>8

\* The tools that are offered are tools that there are.
LEMMA OfferedOK ==
  ASSUME PagesInv
  PROVE Pages!Offered \cup Pages!ToSet(tools.list) \subseteq Pages!AnyTool
<1>1. /\ ToolsOK(tools) /\ route.scope \in Pages!Scopes
  BY RouteFacts DEF PagesInv
<1>2. tools.active \in Pages!AnyTool \cup {Absent} /\ tools.list \in Seq(Pages!AnyTool)
  BY <1>1 DEF ToolsOK
<1>3. Pages!ContextTask \in Tasks \cup {Absent}
  BY <1>1, <1>2, ScopeFacts, ToolFacts DEF Pages!ContextTask
<1>. DEFINE task == Pages!ContextTask
            plan == IF task # Absent THEN PlanOf[task]
                    ELSE IF route.scope[1] = "plan" THEN route.scope[2]
                    ELSE IF tools.active # Absent /\ tools.active.view = "plan"
                         THEN tools.active.id ELSE Absent
<1>4. plan \in Plans \cup {Absent}
  BY <1>1, <1>2, <1>3, ScopeFacts, ToolFacts, WindowAssumption
<1>5. Pages!Offered = {Pages!Tool("resources", Absent, Absent)}
        \cup {IF plan = Absent THEN Pages!Tool("plans", Absent, Absent)
              ELSE Pages!Tool("plan", plan, Absent)}
        \cup (IF task = Absent THEN {} ELSE {Pages!Tool("task", task, s) : s \in Pages!Sections})
  BY DEF Pages!Offered
<1>. HIDE DEF task, plan
<1>6. Pages!Offered \subseteq Pages!AnyTool
  BY <1>3, <1>4, <1>5, ToolMade DEF task
<1>7. Pages!ToSet(tools.list) \subseteq Pages!AnyTool
  BY <1>2 DEF Pages!ToSet
<1>. QED BY <1>6, <1>7
\* A tool beside the discussion: it is shown, and nothing else of the route changes.
LEMMA BesideRoute ==
  ASSUME PagesInv, route.page = "chat", NEW x \in Pages!AnyTool
  PROVE LET r == Pages!Go([view |-> x.view, id |-> x.id, section |-> x.section])
        IN /\ RouteOK(r) /\ Adjacent(route, r) /\ r.page = "chat" /\ r.view = x.view
           /\ Pages!RouteTool(r) = x /\ Pages!Current(r) = Pages!Current(route)
<1>. DEFINE next == [view |-> x.view, id |-> x.id, section |-> x.section]
            r == Pages!Go(next)
<1>1. /\ RouteOK(route) /\ InChat(route) /\ route.scope \in Pages!Scopes
      /\ route.conversation \in Topics \cup {Absent} /\ route.taskContext \in Tasks \cup {Absent}
  BY RouteFacts DEF PagesInv
<1>2. /\ x.view \in {"task", "plan", "plans", "resources"}
      /\ x.id \in Tasks \cup Plans \cup {Absent} /\ x.section \in Pages!Sections \cup {Absent}
      /\ x.view = "task" => x.id \in Tasks
      /\ x.view = "plan" => x.id \in Plans
  BY ToolFacts
<1>3. /\ r = [page |-> r.page, view |-> r.view, id |-> r.id, conversation |-> r.conversation,
              scope |-> r.scope, taskContext |-> r.taskContext, section |-> r.section]
      /\ r.page = "chat" /\ r.view = x.view /\ r.id = x.id /\ r.scope = route.scope
      /\ r.section = x.section
      /\ r.conversation = route.conversation /\ r.taskContext = route.taskContext
  BY <1>1, <1>2, GoFields DEF Pages!Given, InChat
<1>. HIDE DEF r
<1>4. RouteOK(r) /\ Adjacent(route, r)
  BY <1>1, <1>2, <1>3, RouteMade DEF InChat, Adjacent, Pages!Views
<1>5. Pages!RouteTool(r) = x
  BY <1>3, ToolRoute
<1>6. Pages!Current(r) = Pages!Current(route)
  BY <1>1, <1>3, <1>4, CurrentFacts
<1>. QED BY <1>3, <1>4, <1>5, <1>6 DEF r

\* A tool is opened.
LEMMA OpenToolOK ==
  ASSUME PagesInv, NEW tool \in Pages!Offered \cup Pages!ToSet(tools.list), Pages!OpenTool(tool)
  PROVE PagesInv' /\ Pages!Current(route)' = Pages!Current(route)
<1>. DEFINE x == Pages!InScope(tool, route.scope)
            next == [view |-> x.view, id |-> x.id, section |-> x.section]
            r == Pages!Go(next)
            ses == [list |-> Pages!Added(tools.list, x), active |-> x]
<1>1. route.page = "chat" /\ Pages!Push(next, tabs, ses, contexts)
  BY DEF Pages!OpenTool
<1>2. /\ TabsOK(tabs) /\ tools.list \in Seq(Pages!AnyTool) /\ route.scope \in Pages!Scopes
  BY RouteFacts DEF PagesInv, ToolsOK
<1>3. x \in Pages!AnyTool
  BY <1>2, OfferedOK, InScopeFacts, AbsentFacts
<1>. HIDE DEF x
<1>4. ToolsOK(ses)
  BY <1>2, <1>3, AddedOK DEF ToolsOK
<1>5. RouteOK(r) /\ Adjacent(route, r) /\ r.view = x.view /\ Pages!RouteTool(r) = x
      /\ Pages!Current(r) = Pages!Current(route)
  BY <1>1, <1>3, BesideRoute
<1>6. r.view \in {"task", "plan", "plans", "resources"} /\ ses.active = x
  BY <1>3, <1>5, ToolFacts
<1>. HIDE DEF ses, next, r
<1>7. Fits(r, ses)
  BY <1>5, <1>6 DEF Fits
<1>8. Fits(Pages!Go(next), ses)
  BY <1>7 DEF r
<1>. QED BY <1>1, <1>2, <1>4, <1>5, <1>8, PushOK DEF r

\* A tool is closed; its neighbour is shown, or none.
LEMMA CloseToolOK ==
  ASSUME PagesInv, NEW i \in DOMAIN tools.list, Pages!CloseTool(i)
  PROVE PagesInv' /\ Pages!Current(route)' = Pages!Current(route)
<1>. DEFINE rest == Pages!RemoveAt(tools.list, i)
            x == IF tools.active = tools.list[i] THEN Pages!Neighbour(tools.list, i)
                 ELSE tools.active
            none == [view |-> "workspace", id |-> Absent]
            beside == [view |-> x.view, id |-> x.id, section |-> x.section]
            ses == [list |-> rest, active |-> x]
<1>1. /\ route.page = "chat"
      /\ Pages!Push(IF x = Absent THEN none ELSE beside, tabs, ses, contexts)
  BY DEF Pages!CloseTool
<1>2. /\ TabsOK(tabs) /\ tools.list \in Seq(Pages!AnyTool) /\ RouteOK(route)
      /\ tools.active \in Pages!AnyTool \cup {Absent}
      /\ tools.active # Absent => Pages!Contains(tools.list, tools.active)
  BY DEF PagesInv, ToolsOK
<1>3. i \in 1..Len(tools.list) /\ Len(tools.list) \in Nat
  BY <1>2
<1>4. x # Absent => \E j \in DOMAIN tools.list : j # i /\ tools.list[j] = x
  <2>1. CASE tools.active = tools.list[i]
    <3>1. \/ Pages!Neighbour(tools.list, i) = Absent
          \/ \E j \in 1..Len(tools.list) : j # i /\ Pages!Neighbour(tools.list, i) = tools.list[j]
      BY <1>3 DEF Pages!Neighbour
    <3>. QED BY <1>2, <2>1, <3>1
  <2>2. CASE tools.active # tools.list[i]
    BY <1>2, <2>2 DEF Pages!Contains
  <2>. QED BY <2>1, <2>2
<1>5. /\ rest \in Seq(Pages!AnyTool)
      /\ \A j \in DOMAIN tools.list : j # i => \E k \in DOMAIN rest : rest[k] = tools.list[j]
  BY <1>2, Removed
<1>. HIDE DEF x, rest
<1>6. x \in Pages!AnyTool \cup {Absent}
  BY <1>2, <1>4
<1>7. ToolsOK(ses)
  <2>1. x # Absent => Pages!Contains(rest, x)
    BY <1>4, <1>5 DEF Pages!Contains
  <2>. QED BY <1>5, <1>6, <2>1 DEF ToolsOK
<1>8. CASE x # Absent
  <2>. DEFINE r == Pages!Go(beside)
  <2>1. RouteOK(r) /\ Adjacent(route, r) /\ r.view = x.view /\ Pages!RouteTool(r) = x
        /\ Pages!Current(r) = Pages!Current(route)
    BY <1>1, <1>6, <1>8, BesideRoute
  <2>2. r.view \in {"task", "plan", "plans", "resources"} /\ ses.active = x
    BY <1>6, <1>8, <2>1, ToolFacts
  <2>3. Pages!Push(beside, tabs, ses, contexts)
    BY <1>1, <1>8
  <2>. HIDE DEF ses, beside, r
  <2>4. Fits(r, ses)
    BY <2>1, <2>2 DEF Fits
  <2>5. Fits(Pages!Go(beside), ses)
    BY <2>4 DEF r
  <2>. QED BY <1>2, <1>7, <2>1, <2>3, <2>5, PushOK DEF r
<1>9. CASE x = Absent
  <2>. DEFINE r == Pages!Go(none)
  <2>1. /\ InChat(route) /\ route.scope \in Pages!Scopes
        /\ route.section \in Pages!Sections \cup {Absent}
        /\ route.conversation \in Topics \cup {Absent}
        /\ route.taskContext \in Tasks \cup {Absent}
    BY <1>1, <1>2, RouteFacts
  <2>2. /\ r = [page |-> r.page, view |-> r.view, id |-> r.id, conversation |-> r.conversation,
                scope |-> r.scope, taskContext |-> r.taskContext, section |-> r.section]
        /\ r.page = "chat" /\ r.view = "workspace" /\ r.id = Absent /\ r.scope = route.scope
        /\ r.section = route.section
        /\ r.conversation = route.conversation /\ r.taskContext = route.taskContext
    BY <1>1, <1>2, <2>1, GoFields DEF Pages!Given, InChat
  <2>3. Pages!Push(none, tabs, ses, contexts) /\ ses.active = Absent
    BY <1>1, <1>9
  <2>. HIDE DEF ses, none, r
  <2>4. RouteOK(r) /\ Adjacent(route, r)
    BY <2>1, <2>2, RouteMade DEF InChat, Adjacent, Pages!Views
  <2>5. Pages!Current(r) = Pages!Current(route)
    BY <1>2, <2>2, <2>4, CurrentFacts
  <2>6. Pages!Incoming(r) = Absent
    BY <2>2, <2>4, RouteTools
  <2>7. Fits(r, ses)
    BY <2>2, <2>3, <2>6 DEF Fits
  <2>8. Fits(Pages!Go(none), ses)
    BY <2>7 DEF r
  <2>. QED BY <1>2, <1>7, <2>3, <2>4, <2>5, <2>8, PushOK DEF r
<1>. QED BY <1>8, <1>9

\* The person chooses what the discussion is about.
LEMMA ChooseContextOK ==
  ASSUME PagesInv, NEW context \in Pages!Contexts, Pages!ChooseContext(context)
  PROVE PagesInv'
<1>. DEFINE topic == Pages!Current(route).topic
            held == [contexts EXCEPT ![topic] = context]
<1>1. route.page = "chat" /\ Pages!Rest(route, entries, tabs, tools, held)
  BY DEF Pages!ChooseContext
<1>2. /\ RouteOK(route) /\ HistoryOK(entries)
      /\ Alike(Pages!Read(entries.list[entries.at]), route)
      /\ TabsOK(tabs) /\ TabsOK(saved) /\ ToolsOK(tools) /\ ContextsOK(contexts)
  BY DEF PagesInv
<1>3. Fits(route, tools)
  BY <1>1 DEF PagesInv, Shown
<1>4. ContextsOK(held)
  BY <1>2 DEF ContextsOK
<1>. HIDE DEF held
<1>. QED BY <1>1, <1>2, <1>3, <1>4, Rests

\* The buttons of the browser.
LEMMA TraverseOK ==
  ASSUME PagesInv, NEW n \in {-1, 1}, Pages!Traverse(n)
  PROVE PagesInv'
<1>. DEFINE k == entries.at + n
            r == Pages!Read(entries.list[k])
            es == [entries EXCEPT !.at = k]
            list == IF r.page = "chat" THEN Pages!Listed ELSE tabs
            after == Pages!Following(tools, r)
<1>1. k \in DOMAIN entries.list /\ Pages!Rest(r, es, list, after, contexts)
  BY DEF Pages!Traverse
<1>2. /\ RouteOK(route) /\ HistoryOK(entries)
      /\ Alike(Pages!Read(entries.list[entries.at]), route)
      /\ TabsOK(tabs) /\ TabsOK(saved) /\ ToolsOK(tools) /\ ContextsOK(contexts)
  BY DEF PagesInv
<1>3. /\ entries.list \in Seq(Addresses) /\ entries.at \in 1..Len(entries.list)
      /\ Len(entries.list) \in Nat /\ k \in 1..Len(entries.list) /\ entries.at \in Nat
      /\ entries \in [list : Seq(Addresses), at : Nat]
      /\ \A i \in 1..Len(entries.list) : RouteOK(Pages!Read(entries.list[i]))
      /\ \A i \in 1..(Len(entries.list) - 1) :
           Adjacent(Pages!Read(entries.list[i]), Pages!Read(entries.list[i + 1]))
  BY <1>1, <1>2, HistoryFacts DEF HistoryOK
<1>4. HistoryOK(es) /\ es.list[es.at] = entries.list[k]
  BY <1>2, <1>3 DEF HistoryOK
<1>5. RouteOK(r) /\ Alike(Pages!Read(es.list[es.at]), r)
  BY <1>3, <1>4, AlikeSelf
<1>6. Adjacent(Pages!Read(entries.list[entries.at]), r)
  <2>1. CASE n = 1
    BY <1>3, <2>1
  <2>2. CASE n = -1
    <3>1. k \in 1..(Len(entries.list) - 1) /\ k + 1 = entries.at
      BY <1>3, <2>2
    <3>2. Adjacent(r, Pages!Read(entries.list[entries.at]))
      BY <1>3, <3>1
    <3>. QED BY <3>2 DEF Adjacent
  <2>. QED BY <2>1, <2>2
<1>7. Adjacent(route, r)
  <2>1. Alike(route, Pages!Read(entries.list[entries.at]))
    BY <1>2 DEF Alike
  <2>2. RouteOK(Pages!Read(entries.list[entries.at]))
    BY <1>3
  <2>. QED BY <1>2, <1>5, <1>6, <2>1, <2>2, AlikeSelf, AdjacentAlike
<1>8. TabsOK(list)
  BY <1>2 DEF Pages!Listed
<1>. HIDE DEF r, es, list, k
<1>9. r.page = "chat" => ToolsOK(after) /\ Fits(r, after)
  <2>. SUFFICES ASSUME r.page = "chat" PROVE ToolsOK(after) /\ Fits(r, after)
    OBVIOUS
  <2>1. route.page = "chat" /\ ~Pages!Signalled(r) => Fits(r, tools)
    BY <1>5, <1>7, Unsignalled
  <2>. QED BY <1>2, <1>5, <2>1, FollowingOK
<1>. HIDE DEF after
<1>10. Pages!Rest(r, es, list, after, contexts)
  BY <1>1 DEF r, es, list, after, k
<1>11. TabsOK(saved) /\ ToolsOK(tools) /\ ContextsOK(contexts)
  BY <1>2
<1>. QED BY <1>4, <1>5, <1>8, <1>9, <1>10, <1>11, Rests
\* What a discussion is about stays, when a move leaves it alone.
LEMMA RestKeeps ==
  ASSUME ContextsOK(contexts), NEW r, NEW es, NEW list, NEW ses,
         Pages!Rest(r, es, list, ses, contexts),
         NEW c \in Topics, contexts[c] # Absent
  PROVE contexts'[c] = contexts[c]
<1>. DEFINE topic == Pages!Current(r).topic
            context == Pages!InitialContext(contexts, topic, r)
            speaks == r.page = "chat" /\ topic # Absent
<1>1. contexts' = IF speaks THEN [contexts EXCEPT ![topic] = context] ELSE contexts
  BY DEF Pages!Rest
<1>2. topic = c => context = contexts[c]
  BY DEF Pages!InitialContext
<1>3. DOMAIN contexts = Topics
  BY DEF ContextsOK
<1>. HIDE DEF topic, context
<1>. QED BY <1>1, <1>2, <1>3

\* The page is read again.
LEMMA ReloadOK ==
  ASSUME PagesInv, Pages!Reload
  PROVE /\ PagesInv'
        /\ Pages!Current(route)' = Pages!Current(route)
        /\ Pages!RouteTool(route)' = Pages!RouteTool(route)
        /\ route'.page = route.page /\ route'.taskContext = route.taskContext
        /\ route.page = "chat" =>
             tabs' = tabs /\ tools'.active = Pages!InScope(tools.active, route.scope)
<1>. DEFINE r == Pages!Read(entries.list[entries.at])
            list == IF r.page = "chat" THEN saved ELSE tabs
            stored == Pages!Stored(tools, r.scope)
            after == Pages!FromRoute(stored, r)
<1>1. Pages!Rest(r, entries, list, after, contexts)
  BY DEF Pages!Reload
<1>2. /\ RouteOK(route) /\ HistoryOK(entries) /\ Alike(r, route)
      /\ TabsOK(tabs) /\ TabsOK(saved) /\ ToolsOK(tools) /\ ContextsOK(contexts)
      /\ route.page = "chat" => Shown(route)
  BY DEF PagesInv
<1>3. RouteOK(r) /\ Alike(Pages!Read(entries.list[entries.at]), r)
  BY <1>2, HistoryFacts, AlikeSelf
<1>4. TabsOK(list)
  BY <1>2
<1>. HIDE DEF r, list
<1>5. r.scope \in Pages!Scopes /\ route.scope \in Pages!Scopes
  BY <1>2, <1>3 DEF RouteOK, Routes
<1>6. /\ ToolsOK(stored) /\ stored.active = Pages!InScope(tools.active, r.scope)
      /\ tools.list # <<>> => stored.list # <<>>
  BY <1>2, <1>5, StoredOK
<1>. HIDE DEF stored
<1>7. /\ ToolsOK(after) /\ Fits(r, after)
      /\ Pages!Incoming(r) # Absent => after.active = Pages!Incoming(r)
      /\ /\ Pages!Incoming(r) = Absent /\ r.view # "workspace"
         /\ stored.list # <<>> \/ r.scope = Pages!Project
         => after = stored
  BY <1>3, <1>6, FromRouteOK
<1>. HIDE DEF after
<1>8. r.page = "chat" => ToolsOK(after) /\ Fits(r, after)
  BY <1>7
<1>9. /\ PagesInv' /\ route'.page = r.page /\ route'.scope = r.scope
      /\ Pages!Current(route)' = Pages!Current(r) /\ Pages!RouteTool(route)' = Pages!RouteTool(r)
      /\ tools' = IF r.page = "chat" THEN after ELSE tools
      /\ r.page = "chat" => tabs' = Pages!Strip(list, r)
  <2>1. TabsOK(saved) /\ ToolsOK(tools) /\ HistoryOK(entries) /\ ContextsOK(contexts)
    BY <1>2
  <2>2. RouteOK(r)
    BY <1>3
  <2>3. Alike(Pages!Read(entries.list[entries.at]), r)
    BY <1>3
  <2>4. Pages!Rest(r, entries, list, after, contexts)
    BY <1>1 DEF r, list, after, stored
  <2>5. PagesInv' /\ route'.page = r.page /\ route'.scope = r.scope
    BY <1>4, <1>8, <2>1, <2>2, <2>3, <2>4, Rests
  <2>6. /\ Pages!Current(route)' = Pages!Current(r)
        /\ Pages!RouteTool(route)' = Pages!RouteTool(r)
    BY <1>4, <1>8, <2>1, <2>2, <2>3, <2>4, Rests
  <2>7. /\ tools' = IF r.page = "chat" THEN after ELSE tools
        /\ r.page = "chat" => tabs' = Pages!Strip(list, r)
    BY <2>4 DEF Pages!Rest
  <2>. QED BY <2>5, <2>6, <2>7
<1>10. /\ r.page = route.page /\ r.scope = route.scope /\ r.conversation = route.conversation
       /\ r.taskContext = route.taskContext /\ Pages!RouteTool(r) = Pages!RouteTool(route)
       /\ r.view = route.view \/ {r.view, route.view} = {"home", "topic"}
  BY <1>2 DEF Alike
<1>11. Pages!Current(r) = Pages!Current(route)
  BY <1>2, <1>3, <1>10, CurrentFacts
<1>12. route'.taskContext = route.taskContext
  <2>1. CASE r.page = "chat" /\ r.conversation # Absent
    <3>1. /\ contexts[route.conversation] # Absent /\ route.conversation \in Topics
          /\ route.taskContext = Pages!TaskIn(contexts[route.conversation])
      BY <1>2, <1>10, <2>1 DEF Shown, RouteOK, Routes
    <3>2. contexts'[route.conversation] = contexts[route.conversation]
      BY <1>1, <1>2, <3>1, RestKeeps
    <3>3. Shown(route)' /\ RouteOK(route)'
      BY <1>9, <2>1 DEF PagesInv
    <3>4. route'.conversation = route.conversation
      <4>1. Pages!Current(route)'.topic = route'.conversation
        BY <3>3, CurrentFacts
      <4>2. Pages!Current(r).topic = r.conversation
        BY <1>3, CurrentFacts
      <4>. QED BY <1>9, <1>10, <4>1, <4>2
    <3>. QED BY <1>10, <2>1, <3>1, <3>2, <3>3, <3>4 DEF Shown
  <2>2. CASE ~(r.page = "chat" /\ r.conversation # Absent)
    <3>1. Pages!Current(r).topic = r.conversation
      BY <1>3, CurrentFacts
    <3>2. route' = r
      BY <1>1, <2>2, <3>1 DEF Pages!Rest
    <3>. QED BY <1>10, <3>2
  <2>. QED BY <2>1, <2>2
<1>13. ASSUME route.page = "chat"
       PROVE tabs' = tabs /\ tools'.active = Pages!InScope(tools.active, route.scope)
  <2>1. Shown(route) /\ r.page = "chat"
    BY <1>2, <1>10, <1>13
  <2>2. tabs' = tabs
    <3>1. list = tabs
      BY <2>1 DEF Shown, list
    <3>2. Pages!Strip(tabs, r) = tabs
      BY <1>2, <1>3, <1>10, <1>11, <2>1, StripOK DEF Shown
    <3>. QED BY <1>9, <2>1, <3>1, <3>2
  <2>3. tools' = after /\ Fits(route, tools)
    BY <1>9, <2>1 DEF Shown
  <2>4. tools.active \in Pages!AnyTool \cup {Absent}
    BY <1>2 DEF ToolsOK
  <2>5. CASE Pages!Incoming(r) # Absent
    <3>1. Pages!Incoming(r) = Pages!Incoming(route)
      BY <1>10 DEF Pages!Incoming
    <3>2. tools.active \in {Pages!RouteTool(route), Pages!Incoming(route)}
      BY <2>3, <2>5, <3>1 DEF Fits
    <3>3. /\ Pages!InScope(Pages!RouteTool(route), route.scope) = Pages!Incoming(route)
          /\ Pages!RouteTool(route) \in Pages!AnyTool \cup {Absent}
      BY <1>2, RouteTools DEF RouteOK, Routes, Pages!Views
    <3>4. Pages!InScope(Pages!Incoming(route), route.scope) = Pages!Incoming(route)
      BY <1>5, <3>3, InScopeFacts
    <3>. QED BY <1>7, <2>2, <2>3, <2>5, <3>1, <3>2, <3>3, <3>4
  <2>6. CASE Pages!Incoming(r) = Absent /\ r.view = "workspace"
    <3>1. after.active = Absent /\ tools.active = Absent
      BY <1>7, <1>10, <2>3, <2>6 DEF Fits
    <3>. QED BY <1>5, <2>2, <2>3, <2>4, <3>1, InScopeFacts
  <2>7. CASE Pages!Incoming(r) = Absent /\ r.view # "workspace"
    <3>1. Pages!RouteTool(r) = Absent
      BY <1>3, <2>7, RouteTools
    <3>2. r.view \in {"home", "topic"} /\ route.view \in {"home", "topic"}
      BY <1>3, <1>10, <2>7, <3>1, RouteTools
    <3>3. stored.list # <<>> \/ r.scope = Pages!Project
      BY <1>6, <1>10, <2>3, <3>2 DEF Fits
    <3>. QED BY <1>6, <1>7, <1>10, <2>2, <2>3, <2>7, <3>3
  <2>. QED BY <2>2, <2>5, <2>6, <2>7
<1>. QED BY <1>9, <1>10, <1>11, <1>12, <1>13
----------------------------------------------------------------------------
(* Every move.                                                              *)

\* The window as it is opened.
LEMMA PagesInit == Opening => PagesInv
<1>. SUFFICES ASSUME Opening PROVE PagesInv
  OBVIOUS
<1>1. /\ route = [page |-> "hub", view |-> "plans", id |-> Absent, conversation |-> Absent,
                  scope |-> Pages!Project, taskContext |-> Absent, section |-> Absent]
      /\ entries = [list |-> <<Pages!Address(route)>>, at |-> 1]
      /\ tabs = <<>> /\ saved = <<>> /\ tools = [list |-> <<>>, active |-> Absent]
      /\ contexts = [c \in Topics |-> Absent]
  BY DEF Opening, Pages!Entered, Pages!Route
<1>2. RouteOK(route) /\ route.page = "hub"
  <2>1. route \in Routes
    BY <1>1, ScopeMade DEF Routes, Pages!Views
  <2>. QED BY <1>1, <2>1 DEF RouteOK, OnHub, Silent
<1>. DEFINE u == Pages!Address(route)
<1>3. u \in Addresses /\ Alike(Pages!Read(u), route)
  BY <1>2, AddressRead
<1>. HIDE DEF u
<1>4. entries = [list |-> <<u>>, at |-> 1]
  BY <1>1 DEF u
<1>5. HistoryOK(entries) /\ Alike(Pages!Read(entries.list[entries.at]), route)
  BY <1>3, <1>4 DEF HistoryOK
<1>6. TabsOK(tabs) /\ TabsOK(saved) /\ ToolsOK(tools) /\ ContextsOK(contexts)
  BY <1>1 DEF TabsOK, ToolsOK, ContextsOK
<1>. QED BY <1>2, <1>5, <1>6 DEF PagesInv

\* A move keeps the pages together.
LEMMA MovesOK ==
  ASSUME PagesInv, Pages!Moves
  PROVE PagesInv'
<1>1. ASSUME NEW p \in Plans,
             Pages!OpenPlan(p) \/ Pages!DiscussPlan(p) \/ Pages!OpenObject("plan", p)
      PROVE PagesInv'
  BY <1>1, OpenPlanOK, DiscussPlanOK, OpenObjectOK
<1>2. ASSUME NEW t \in Tasks,
             Pages!OpenOnRoute(t) \/ Pages!DiscussTask(t) \/ Pages!OpenObject("task", t)
      PROVE PagesInv'
  BY <1>2, OpenOnRouteOK, DiscussTaskOK, OpenObjectOK
<1>3. ASSUME NEW c \in Topics, Pages!PickTopic(c) PROVE PagesInv'
  BY <1>3, PickTopicOK
<1>4. ASSUME NEW i \in DOMAIN tabs, Pages!PickTab(i) \/ Pages!CloseTab(i) PROVE PagesInv'
  BY <1>4, PickTabOK, CloseTabOK
<1>5. ASSUME NEW tool \in Pages!Offered \cup Pages!ToSet(tools.list), Pages!OpenTool(tool)
      PROVE PagesInv'
  BY <1>5, OpenToolOK
<1>6. ASSUME NEW i \in DOMAIN tools.list, Pages!CloseTool(i) PROVE PagesInv'
  BY <1>6, CloseToolOK
<1>7. ASSUME NEW context \in Pages!Contexts, Pages!ChooseContext(context) PROVE PagesInv'
  BY <1>7, ChooseContextOK
<1>8. CASE Pages!Discussions
  BY <1>8, DiscussionsOK
<1>9. CASE Pages!Leave
  BY <1>9, LeaveOK
<1>10. CASE Pages!Back \/ Pages!Forward
  BY <1>10, TraverseOK DEF Pages!Back, Pages!Forward
<1>11. CASE Pages!Reload
  BY <1>11, ReloadOK
<1>. QED BY <1>1, <1>2, <1>3, <1>4, <1>5, <1>6, <1>7, <1>8, <1>9, <1>10, <1>11 DEF Pages!Moves

\* Every step of the window keeps the pages together.
LEMMA PagesStep == PagesInv /\ [Acting]_Window => PagesInv'
<1>. SUFFICES ASSUME PagesInv, [Acting]_Window PROVE PagesInv'
  OBVIOUS
<1>1. CASE UNCHANGED walk
  BY <1>1 DEF walk, PagesInv, Shown
<1>2. CASE Pages!Moves
  BY <1>2, MovesOK
<1>. QED BY <1>1, <1>2 DEF Acting, Window

\* Wherever the person goes, the route, its address, the history, the tabs, the tools and the
\* work of the discussions belong together.
THEOREM PagesInvariant == WindowSpec => []PagesInv
BY PagesInit, PagesStep, PTL DEF WindowSpec

\* Moving about leaves what the window knows of the project alone, and what it does with the
\* project leaves the pages alone: the window is a client.
THEOREM WindowIsClient == WindowSpec => Spec
<1>1. Opening => Init
  BY DEF Opening
<1>2. [Acting]_Window => [Next]_vars
  BY DEF Acting, Window
<1>. QED BY <1>1, <1>2, PTL DEF WindowSpec, Spec

\* So what holds of every client holds in the window the member moves about in: no change the
\* stream went past is missed, a command that holds to the version shown decides that version
\* only, and one round of a dialog creates once.
THEOREM ClientInWindow == WindowSpec => [](NothingMissed /\ DecidedAsShown /\ CreatedOnce)
BY WindowIsClient, NothingIsMissed, DecisionsAreAsShown, CreationsHappenOnce, PTL

\* Discussions and tools are independent surfaces: another discussion keeps the selected tool,
\* read for its scope, and no tool that is opened or closed changes the discussion.
THEOREM SurfacesAreIndependent == WindowSpec => SurfacesIndependent
<1>. DEFINE Independent ==
       /\ (tools.active # Absent /\ \E i \in DOMAIN tabs : Pages!PickTab(i))
            => tools'.active \in {Pages!Chosen, Pages!InScope(Pages!Chosen, route'.scope)}
       /\ (\/ \E tool \in Pages!Offered \cup Pages!ToSet(tools.list) : Pages!OpenTool(tool)
           \/ \E i \in DOMAIN tools.list : Pages!CloseTool(i)
           \/ route.page = "chat" /\ \E t \in Tasks : Pages!OpenObject("task", t))
            => Pages!Current(route') = Pages!Current(route)
<1>1. ASSUME PagesInv PROVE Independent
  <2>1. ASSUME NEW i \in DOMAIN tabs, Pages!PickTab(i), tools.active # Absent
        PROVE tools'.active \in {Pages!Chosen, Pages!InScope(Pages!Chosen, route'.scope)}
    BY <1>1, <2>1, PickTabOK
  <2>2. ASSUME NEW tool \in Pages!Offered \cup Pages!ToSet(tools.list), Pages!OpenTool(tool)
        PROVE Pages!Current(route') = Pages!Current(route)
    BY <1>1, <2>2, OpenToolOK
  <2>3. ASSUME NEW i \in DOMAIN tools.list, Pages!CloseTool(i)
        PROVE Pages!Current(route') = Pages!Current(route)
    BY <1>1, <2>3, CloseToolOK
  <2>4. ASSUME route.page = "chat", NEW t \in Tasks, Pages!OpenObject("task", t)
        PROVE Pages!Current(route') = Pages!Current(route)
    BY <1>1, <2>4, OpenObjectOK
  <2>. QED BY <2>1, <2>2, <2>3, <2>4
<1>2. PagesInv => [Independent]_(Pages!window)
  BY <1>1
<1>. QED BY <1>2, PagesInvariant, PTL DEF SurfacesIndependent, Pages!SurfacesIndependent

\* No move but the person's choice changes what a discussion is about.
LEMMA MovesKeep ==
  ASSUME ContextsOK(contexts), Pages!Moves, NEW c \in Topics, contexts[c] # Absent,
         contexts'[c] # contexts[c]
  PROVE \E context \in Pages!Contexts : Pages!ChooseContext(context)
<1>. SUFFICES ASSUME ~ \E context \in Pages!Contexts : Pages!ChooseContext(context)
              PROVE FALSE
  OBVIOUS
<1>1. ASSUME NEW next, NEW list, NEW ses, Pages!Push(next, list, ses, contexts) PROVE FALSE
  BY <1>1, RestKeeps DEF Pages!Push
<1>2. ASSUME NEW next, Pages!Visit(next) PROVE FALSE
  BY <1>1, <1>2 DEF Pages!Visit
<1>3. ASSUME NEW n, Pages!Traverse(n) PROVE FALSE
  BY <1>3, RestKeeps DEF Pages!Traverse
<1>4. ASSUME Pages!Reload PROVE FALSE
  BY <1>4, RestKeeps DEF Pages!Reload
<1>5. ASSUME NEW p, Pages!OpenPlan(p) \/ Pages!DiscussPlan(p) PROVE FALSE
  BY <1>2, <1>5 DEF Pages!OpenPlan, Pages!DiscussPlan
<1>6. ASSUME NEW kind, NEW id, Pages!OpenObject(kind, id) PROVE FALSE
  BY <1>2, <1>6 DEF Pages!OpenObject
<1>7. ASSUME NEW t, Pages!OpenOnRoute(t) \/ Pages!DiscussTask(t) PROVE FALSE
  BY <1>2, <1>7 DEF Pages!OpenOnRoute, Pages!DiscussTask
<1>8. ASSUME NEW topic, Pages!PickTopic(topic) PROVE FALSE
  BY <1>2, <1>8 DEF Pages!PickTopic
<1>9. ASSUME NEW i, Pages!PickTab(i) PROVE FALSE
  BY <1>2, <1>9 DEF Pages!PickTab
<1>10. ASSUME NEW i, Pages!CloseTab(i) PROVE FALSE
  BY <1>1, <1>10, RestKeeps DEF Pages!CloseTab
<1>11. ASSUME NEW tool, Pages!OpenTool(tool) PROVE FALSE
  BY <1>1, <1>11 DEF Pages!OpenTool
<1>12. ASSUME NEW i, Pages!CloseTool(i) PROVE FALSE
  BY <1>1, <1>12 DEF Pages!CloseTool
<1>13. ASSUME Pages!Discussions \/ Pages!Leave PROVE FALSE
  BY <1>2, <1>13 DEF Pages!Discussions, Pages!Leave
<1>14. ASSUME Pages!Back \/ Pages!Forward PROVE FALSE
  BY <1>3, <1>14 DEF Pages!Back, Pages!Forward
<1>. QED BY <1>4, <1>5, <1>6, <1>7, <1>8, <1>9, <1>10, <1>11, <1>12, <1>13, <1>14 DEF Pages!Moves

\* The work a discussion is about changes only by the person's choice, whatever tab, entrance
\* or address leads back to it.
THEOREM ContextIsKept == WindowSpec => ContextKept
<1>. DEFINE Stays == \A c \in Topics : contexts[c] # Absent /\ contexts'[c] # contexts[c]
                      => \E context \in Pages!Contexts : Pages!ChooseContext(context)
<1>1. PagesInv /\ [Acting]_Window => [Stays]_(Pages!window)
  <2>. SUFFICES ASSUME PagesInv, [Acting]_Window PROVE Stays
    BY Zenon
  <2>1. CASE UNCHANGED walk
    BY <2>1 DEF walk
  <2>2. CASE Pages!Moves
    BY <2>2, MovesKeep DEF PagesInv
  <2>. QED BY <2>1, <2>2 DEF Acting, Window
<1>. QED BY <1>1, PagesInvariant, PTL DEF WindowSpec, ContextKept, Pages!ContextKept

\* A reload shows the same page again, with its tool, its tabs and its work.
THEOREM ReloadIsSafe == WindowSpec => ReloadKeepsPlace
<1>. DEFINE Again ==
       Pages!Reload =>
         /\ Pages!Current(route') = Pages!Current(route)
         /\ Pages!RouteTool(route') = Pages!RouteTool(route)
         /\ route'.page = route.page /\ route'.taskContext = route.taskContext
         /\ route.page = "chat" =>
              tabs' = tabs /\ tools'.active = Pages!InScope(tools.active, route.scope)
<1>1. PagesInv => [Again]_(Pages!window)
  BY ReloadOK
<1>. QED BY <1>1, PagesInvariant, PTL DEF ReloadKeepsPlace, Pages!ReloadKeepsPlace
=============================================================================
