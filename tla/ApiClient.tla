----------------------------- MODULE ApiClient ------------------------------
(***************************************************************************)
(* The web client of a project in one browser tab, with the server it      *)
(* talks to: the query cache that feeds the pages (features/work/          *)
(* apiStore.ts), the event stream that marks it stale (lib/api/sse.ts),    *)
(* and the commands of ApiCalls sent with idempotency keys (lib/api/       *)
(* client.ts), while others change the project, connections drop and the   *)
(* session ends.                                                           *)
(*                                                                         *)
(* The server is the log of what was changed; an answer to a read is the   *)
(* length of the log when it was served, and the version of an object is   *)
(* how often it was changed.  A command may be clicked twice while its     *)
(* dialog is open.  A scene fixes the command, the queries the page has    *)
(* mounted and the bounds on what may happen.                              *)
(***************************************************************************)
EXTENDS ApiCalls, FiniteSets, Integers

CONSTANTS
  None,          \* no answer, no cursor
  Scenes,        \* [command, page, changes, edits, opens, clicks, losses, drops, leaves]
  FailureLimit   \* sse.ts: failures in a row before the stream is set up again

ASSUME NoneAssumption == None \notin Int
ASSUME LimitAssumption == FailureLimit \in Nat \ {0}

VARIABLES
  scene,
  left,      \* what remains of the bounds
  log,       \* server: the objects changed, in order
  answered,  \* server: idempotency_records, the version answered per key
  effects,   \* history: the requests that took effect
  session,   \* the tab is signed in
  cache,     \* query cache
  stream,    \* the event stream: its state, cursorRef, lastSeq, failures
  skipped,   \* history: the events the first cursor passed over
  passed,    \* history: the events handled before the first answer of a query
  dialog,    \* the dialog of the command: open, its rounds (a round is an opening, or goes on
             \* from an answer shown in a dialog that stays), its frozen review; history: the
             \* rounds up to the last closing, and those an answer to an older one came into
  run,       \* the executions of the command
  pending,   \* pendingWrites
  keys       \* the keys drawn so far

server == <<log, answered, effects>>
feed == <<cache, stream, skipped, passed>>
person == <<dialog, run, pending, keys>>
vars == <<scene, left, server, session, feed, person>>

Slots == 1..2
Now == Len(log)

\* Changes without a project event.
Quiet == {"draft", "preference", "run"}

\* What each query of the project shows.
Shows == [bootstrap |-> {}, tasks |-> {"task"}, handoffs |-> {"source", "handoff"},
          plans |-> {"plan"}, proposals |-> {"proposal"}, topics |-> {"topic"},
          workflows |-> {"workflow"}, materials |-> {"material", "preview"},
          preferences |-> {"preference"}, suggestions |-> {"suggestion"}]

Bounds == {"edits", "opens", "clicks", "losses", "drops", "leaves"}

\* A draft is saved under the version of its workflow.
Family(o) == IF o \in {"workflow", "draft"} THEN {"workflow", "draft"} ELSE {o}

Version(o, at) == 1 + Cardinality({n \in 1..at : log[n] \in Family(o)})

ASSUME SceneAssumption ==
  \A s \in Scenes : /\ s.command \in Commands
                    /\ s.page \subseteq DOMAIN Shows
                    /\ s.page # {} => "bootstrap" \in s.page
                    /\ \A b \in Bounds : s[b] \in Nat

Use(b) == left[b] > 0 /\ left' = [left EXCEPT ![b] = @ - 1]

----------------------------------------------------------------------------
(* The query cache.                                                        *)

NoQuery == [data |-> None, flight |-> "none", reply |-> 0, failed |-> FALSE]
Asked(c) == [c EXCEPT !.flight = "asked"]

\* An invalidation that lets a refetch in flight finish.
InvalidatedJoined(qs) ==
  [q \in DOMAIN cache |->
     IF q \in qs /\ cache[q].flight = "none" THEN Asked(cache[q]) ELSE cache[q]]

\* invalidateQueries: a refetch in flight is started over; a first load is left to finish.
Invalidated(qs) ==
  [q \in DOMAIN cache |->
     IF q \in qs /\ (cache[q].data # None \/ cache[q].flight = "none")
       THEN Asked(cache[q]) ELSE cache[q]]

\* The queries of the workbench, all of them under one prefix.
Workbench == DOMAIN cache \ {"materials"}

\* The types of EVENT_INVALIDATION_ROOTS that reach the library of materials.
Library == {"task", "topic", "material", "member", "position", "identity", "invitation"}

\* What an event of the stream invalidates: its roots, and through onEvent the workbench.
Reach(o) == IF o = "preview" THEN {"materials"}
            ELSE IF o \in Library THEN DOMAIN cache ELSE Workbench

----------------------------------------------------------------------------
(* The event stream.                                                       *)

NoStream == [state |-> "none", cursor |-> None, last |-> 0, failures |-> 0]

\* The effect: a new EventSource after the cursor, or from the beginning without one.
Subscribed(s, cursor) ==
  [s EXCEPT !.state = "connecting", !.cursor = cursor,
            !.last = IF cursor = None THEN 0 ELSE cursor]

\* The cursor the stream starts from is the one the page was loaded with, once it has none.
CursorFrom(at) == IF stream.cursor = None THEN at ELSE stream.cursor

\* An error of the EventSource; the limit of failures sets the stream up again.
Failed(s) == IF s.failures + 1 >= FailureLimit
               THEN [s EXCEPT !.state = "recovering", !.failures = 0]
               ELSE [s EXCEPT !.failures = @ + 1]

\* A page is opened: its queries are fetched and the stream is connected, all at once.
Mounted == /\ cache = [q \in scene.page |-> Asked(NoQuery)]
           /\ stream = Subscribed(NoStream, None)

Serve(q) ==
  /\ cache[q].flight = "asked"
  /\ cache' = [cache EXCEPT ![q].flight = "answered", ![q].reply = Now]
  /\ UNCHANGED <<scene, left, server, session, stream, skipped, passed, person>>

\* The answer of a query; a new event cursor of bootstrap runs the effect of the stream again.
Arrive(q) ==
  /\ cache[q].flight = "answered"
  /\ LET at == cache[q].reply
         first == cache[q].data = None
         moved == q = "bootstrap" /\ cache[q].data # at IN
     /\ cache' = [cache EXCEPT ![q] = [NoQuery EXCEPT !.data = at]]
     /\ stream' = IF moved THEN Subscribed(stream, CursorFrom(at)) ELSE stream
     /\ skipped' = IF moved /\ stream.cursor = None THEN at ELSE skipped
     /\ passed' = IF first THEN [passed EXCEPT ![q] = CursorFrom(0)] ELSE passed
  /\ UNCHANGED <<scene, left, server, session, person>>

\* A read fails: what was shown stays, marked as failed.
FetchFails(q) ==
  /\ cache[q].flight # "none"
  /\ Use("losses")
  /\ cache' = [cache EXCEPT ![q].flight = "none", ![q].failed = TRUE]
  /\ UNCHANGED <<scene, server, session, stream, skipped, passed, person>>

\* dataRetry.
Retry ==
  /\ \E q \in DOMAIN cache : cache[q].failed /\ cache[q].flight = "none"
  /\ cache' = Invalidated(Workbench)
  /\ UNCHANGED <<scene, left, server, session, stream, skipped, passed, person>>

Connect ==
  /\ stream.state = "connecting"
  /\ stream' = [stream EXCEPT !.state = "open", !.failures = 0]
  /\ UNCHANGED <<scene, left, server, session, cache, skipped, passed, person>>

\* The row handled next: the server sends the events after the last one in order.
IsNext(n) == /\ n \in (stream.last + 1)..Now /\ log[n] \notin Quiet
             /\ \A k \in (stream.last + 1)..(n - 1) : log[k] \in Quiet

\* A stream that remembers what it handled only for as long as it is connected.
HandledHere(n) == [stream EXCEPT !.last = n, !.failures = 0]

Handled(n) == [stream EXCEPT !.last = n, !.cursor = n, !.failures = 0]

Deliver(n) ==
  /\ stream.state = "open" /\ IsNext(n)
  /\ stream' = Handled(n)
  /\ cache' = Invalidated(Reach(log[n]))
  /\ UNCHANGED <<scene, left, server, session, skipped, passed, person>>

\* The connection is lost or cannot be made; the browser tries again after the last row.
Drop ==
  /\ stream.state \in {"connecting", "open"}
  /\ Use("drops")
  /\ stream' = Failed([stream EXCEPT !.state = "connecting"])
  /\ UNCHANGED <<scene, server, session, cache, skipped, passed, person>>

\* The server answers with an error status: the browser gives the stream up.
Refuse ==
  /\ stream.state = "connecting"
  /\ Use("drops")
  /\ stream' = Failed([stream EXCEPT !.state = "closed"])
  /\ UNCHANGED <<scene, server, session, cache, skipped, passed, person>>

\* bootstrap, served at some moment since the stream was closed, moves the cursor.
Recover(at) ==
  /\ stream.state = "recovering"
  /\ at \in stream.last..Now
  /\ stream' = Subscribed(stream, at)
  /\ cache' = Invalidated(DOMAIN cache)
  /\ UNCHANGED <<scene, left, server, session, skipped, passed, person>>

RecoverFails ==
  /\ stream.state = "recovering"
  /\ Use("losses")
  /\ stream' = Subscribed(stream, stream.cursor)
  /\ UNCHANGED <<scene, server, session, cache, skipped, passed, person>>

----------------------------------------------------------------------------
(* Commands.                                                               *)

Idle == [at |-> 0, intent |-> 0, got |-> <<>>, seen |-> 0, sig |-> None, key |-> 0,
         wait |-> "no", reply |-> 0]

Script == Calls[scene.command]
Step(k) == Script[run[k].at]
Writes == {"update", "decide", "create", "anew"}
Writing(k) == run[k] # Idle /\ Step(k).do \in Writes

\* The positions at which the judged object was shown: by the frozen review or by the page.
ShownAt ==
  IF scene.command \in Frozen THEN {dialog.review}
  ELSE IF scene.command \notin DOMAIN Judged THEN {0}
  ELSE {cache[q].data : q \in {p \in DOMAIN cache : Judged[scene.command] \in Shows[p]}}

\* The version a request names.
Basis(r) == LET s == Script[r.at] IN
            CASE s.do = "update" -> r.got[s.on]
              [] s.do = "decide" -> Version(s.on, r.seen)
              [] OTHER -> 0

\* Method, path and body: the same input gives the same request, unless it carries a fresh id.
Signature(r) == [at |-> r.at, basis |-> Basis(r),
                 salt |-> IF Script[r.at].do = "anew" THEN keys + 1 ELSE 0]

\* A client that draws a key for every request.
KeyDrawn(sig, held) == keys + 1

\* The key of the same request while it is unanswered, or a new one.
KeyFor(sig, held) == IF \E p \in held : p.sig = sig
                       THEN (CHOOSE p \in held : p.sig = sig).key ELSE keys + 1

\* A run goes on to a step; a write is sent at once, under its key.
GoesOn(k, r, held) ==
  IF Script[r.at].do \in Writes
    THEN LET sig == Signature(r)
             key == KeyFor(sig, held) IN
         /\ run' = [run EXCEPT ![k] = [r EXCEPT !.sig = sig, !.key = key]]
         /\ pending' = held \cup {[sig |-> sig, key |-> key]}
         /\ keys' = IF key > keys THEN key ELSE keys
    ELSE /\ run' = [run EXCEPT ![k] = r]
         /\ pending' = held
         /\ UNCHANGED keys

Stop(k) == run' = [run EXCEPT ![k] = Idle]

Open ==
  /\ Use("opens")
  /\ session /\ ~dialog.open /\ cache["bootstrap"].data # None
  /\ dialog' = [dialog EXCEPT !.open = TRUE, !.count = @ + 1, !.review = Now]
  /\ UNCHANGED <<scene, server, session, feed, run, pending, keys>>

Click(k) ==
  /\ dialog.open /\ run[k] = Idle
  /\ Use("clicks")
  /\ \E at \in ShownAt \ {None} :
       GoesOn(k, [Idle EXCEPT !.at = 1, !.intent = dialog.count, !.seen = at], pending)
  /\ UNCHANGED <<scene, server, session, feed, dialog>>

\* What a run knows of an object after reading it or after an answer about it.
Known(r, o, v) == [p \in DOMAIN r.got \cup Family(o) |-> IF p \in Family(o) THEN v ELSE r.got[p]]

\* A read of the executor; Same ends it at a version other than the one shown.
Look(k) ==
  /\ session /\ run[k] # Idle /\ ~Writing(k)
  /\ LET o == Step(k).on IN
     /\ Step(k).do = "same" => Version(o, Now) = Version(o, run[k].seen)
     /\ GoesOn(k, [run[k] EXCEPT !.at = @ + 1, !.got = Known(run[k], o, Version(o, Now))], pending)
  /\ UNCHANGED <<scene, left, server, session, feed, dialog>>

Differs(k) ==
  /\ session /\ run[k] # Idle /\ Step(k).do = "same"
  /\ Version(Step(k).on, Now) # Version(Step(k).on, run[k].seen)
  /\ Stop(k)
  /\ UNCHANGED <<scene, left, server, session, feed, dialog, pending, keys>>

Ready(k) == session /\ Writing(k) /\ run[k].wait = "no"
Current(k) == Step(k).do \in {"update", "decide"} => Basis(run[k]) = Version(Step(k).on, Now)
Reply(k, wait, v) == run' = [run EXCEPT ![k].wait = wait, ![k].reply = v]

\* The server carries the request out.
Post(k) ==
  /\ Ready(k) /\ run[k].key \notin DOMAIN answered /\ Current(k)
  /\ LET o == Step(k).on
         key == run[k].key
         v == Version(o, Now) IN
     /\ log' = Append(log, o)
     /\ answered' = [x \in DOMAIN answered \cup {key} |-> IF x = key THEN v + 1 ELSE answered[x]]
     /\ effects' = Append(effects, [at |-> run[k].at, intent |-> run[k].intent,
                                    basis |-> v, seen |-> run[k].seen])
     /\ Reply(k, "done", v + 1)
  /\ UNCHANGED <<scene, left, session, feed, dialog, pending, keys>>

\* A request whose key was answered before gets that answer.
Replay(k) ==
  /\ Ready(k) /\ run[k].key \in DOMAIN answered
  /\ Reply(k, "done", answered[run[k].key])
  /\ UNCHANGED <<scene, left, server, session, feed, dialog, pending, keys>>

Conflict(k) ==
  /\ Ready(k) /\ run[k].key \notin DOMAIN answered /\ ~Current(k)
  /\ Reply(k, "conflict", 0)
  /\ UNCHANGED <<scene, left, server, session, feed, dialog, pending, keys>>

\* An answer below 500 ends the use of the key for this request.
Answered(k) == {p \in pending : p.sig # run[k].sig}

\* onClose at the end of a command closes whichever opening of its dialog there is.
Closed == [dialog EXCEPT !.open = FALSE]

\* A dialog that stays shows the answer: what is clicked in it now is clicked anew.
Renewed == [dialog EXCEPT !.count = @ + 1]

\* An answer to what was clicked in an earlier opening need not reach the present one.
NotReached == [dialog EXCEPT !.late = IF dialog.open THEN @ \cup {dialog.count} ELSE @]

\* The answer of the server; after the last one the dialog closes, or shows it, and the workbench
\* is stale.
Receive(k) ==
  /\ run[k].wait = "done"
  /\ IF run[k].at < Len(Script)
       THEN /\ GoesOn(k, [run[k] EXCEPT !.at = @ + 1, !.wait = "no", !.reply = 0, !.sig = None,
                                        !.key = 0,
                                        !.got = Known(run[k], Step(k).on, run[k].reply)],
                      Answered(k))
            /\ UNCHANGED <<dialog, cache>>
       ELSE /\ Stop(k)
            /\ pending' = Answered(k)
            /\ \/ scene.command \notin StaysOpen /\ dialog' = Closed
               \/ /\ scene.command \in StaysOpen /\ run[k].intent > dialog.ended
                  /\ dialog' = Renewed
               \/ run[k].intent <= dialog.ended /\ dialog' = NotReached
            /\ cache' = Invalidated(Workbench)
            /\ UNCHANGED keys
  /\ UNCHANGED <<scene, left, server, session, stream, skipped, passed>>

ReceiveConflict(k) ==
  /\ run[k].wait = "conflict"
  /\ pending' = Answered(k)
  /\ Stop(k)
  /\ UNCHANGED <<scene, left, server, session, feed, dialog, keys>>

\* A request or its answer is lost, the server fails, or a read shows that the command cannot
\* be carried out: the run ends, and the key of a write is kept.
Lose(k) ==
  /\ run[k] # Idle
  /\ Use("losses")
  /\ Stop(k)
  /\ UNCHANGED <<scene, server, session, feed, dialog, pending, keys>>

\* The person closes the dialog or leaves the page, also while what was clicked is under way.
Close ==
  /\ dialog.open
  /\ dialog' = [dialog EXCEPT !.open = FALSE, !.ended = dialog.count]
  /\ UNCHANGED <<scene, left, server, session, feed, run, pending, keys>>

----------------------------------------------------------------------------
(* Sessions, and the others.                                               *)

\* signOut: the person leaves, or any request is answered 401.
SignOut ==
  /\ session
  /\ Use("leaves")
  /\ session' = FALSE
  /\ cache' = [q \in {} |-> NoQuery]
  /\ stream' = NoStream
  /\ pending' = {}
  /\ dialog' = [dialog EXCEPT !.open = FALSE, !.ended = dialog.count]
  /\ skipped' = 0
  /\ passed' = [q \in scene.page |-> 0]
  /\ UNCHANGED <<scene, server, run, keys>>

SignIn ==
  /\ ~session
  /\ session' = TRUE
  /\ cache' = [q \in scene.page |-> Asked(NoQuery)]
  /\ stream' = Subscribed(NoStream, None)
  /\ UNCHANGED <<scene, left, server, skipped, passed, person>>

\* A request of a run reaches the server without a session.
Unauthorized(k) ==
  /\ ~session /\ run[k] # Idle /\ run[k].wait = "no"
  /\ pending' = Answered(k)
  /\ Stop(k)
  /\ UNCHANGED <<scene, left, server, session, feed, dialog, keys>>

Change(o) ==
  /\ Use("edits")
  /\ log' = Append(log, o)
  /\ UNCHANGED <<scene, answered, effects, session, feed, person>>

Init ==
  /\ scene \in Scenes
  /\ left = [b \in Bounds |-> scene[b]]
  /\ log = <<>> /\ answered = <<>> /\ effects = <<>>
  /\ session = TRUE
  /\ Mounted
  /\ skipped = 0 /\ passed = [q \in scene.page |-> 0]
  /\ dialog = [open |-> FALSE, count |-> 0, review |-> 0, ended |-> 0, late |-> {}]
  /\ run = [k \in Slots |-> Idle]
  /\ pending = {} /\ keys = 0

Feed == \/ \E q \in DOMAIN cache : Serve(q) \/ Arrive(q) \/ FetchFails(q)
        \/ Retry \/ Connect \/ Drop \/ Refuse \/ RecoverFails
        \/ \E n \in 1..Now : Deliver(n)
        \/ \E at \in 0..Now : Recover(at)

Command == \/ Open \/ Close
           \/ \E k \in Slots : \/ Click(k) \/ Look(k) \/ Differs(k) \/ Post(k) \/ Replay(k)
                               \/ Conflict(k) \/ Receive(k) \/ ReceiveConflict(k) \/ Lose(k)
                               \/ Unauthorized(k)

Next == \/ Feed \/ Command \/ SignOut \/ SignIn
        \/ \E o \in scene.changes : Change(o)

Spec == Init /\ [][Next]_vars

\* The network answers what is asked of it, as long as losses and drops are bounded.
Fairness == /\ WF_vars(\E q \in DOMAIN cache : Serve(q))
            /\ WF_vars(\E q \in DOMAIN cache : Arrive(q))
            /\ WF_vars(Connect)
            /\ WF_vars(\E n \in 1..Now : Deliver(n))
            /\ WF_vars(\E at \in 0..Now : Recover(at))

FairSpec == Spec /\ Fairness

----------------------------------------------------------------------------

Objects == (UNION {s.changes : s \in Scenes}) \cup
           UNION {{Calls[c][i].on : i \in DOMAIN Calls[c]} : c \in Commands}

QueryRows == [data : Nat \cup {None}, flight : {"none", "asked", "answered"}, reply : Nat,
              failed : BOOLEAN]
Streams == [state : {"none", "connecting", "open", "closed", "recovering"},
            cursor : Nat \cup {None}, last : Nat, failures : Nat]
Dialogs == [open : BOOLEAN, count : Nat, review : Nat, ended : Nat, late : SUBSET Nat]
Effects == [at : Nat, intent : Nat, basis : Nat, seen : Nat]

\* What a run knows and what its request carries depend on the step it is at.
Execution(r) ==
  /\ r = [at |-> r.at, intent |-> r.intent, got |-> r.got, seen |-> r.seen, sig |-> r.sig,
          key |-> r.key, wait |-> r.wait, reply |-> r.reply]
  /\ r.at \in Nat /\ r.intent \in Nat /\ r.seen \in Nat /\ r.key \in Nat /\ r.reply \in Nat
  /\ r.wait \in {"no", "done", "conflict"}

TypeOK ==
  /\ scene \in Scenes
  /\ left \in [Bounds -> Nat]
  /\ log \in Seq(Objects)
  /\ answered \in [DOMAIN answered -> Nat]
  /\ effects \in Seq(Effects)
  /\ session \in BOOLEAN
  /\ DOMAIN cache = (IF session THEN scene.page ELSE {}) /\ cache \in [DOMAIN cache -> QueryRows]
  /\ stream \in Streams
  /\ skipped \in Nat /\ passed \in [scene.page -> Nat]
  /\ dialog \in Dialogs
  /\ run = [k \in Slots |-> run[k]]
  /\ \A k \in Slots : Execution(run[k]) /\ (run[k] # Idle => run[k].at \in DOMAIN Script)
  /\ \A p \in pending : p = [sig |-> p.sig, key |-> p.key] /\ p.key \in Nat
  /\ keys \in Nat

\* The position up to which the stream answers for a query: the greater of the two gaps.
Gap(q) == IF passed[q] > skipped THEN passed[q] ELSE skipped

Changed(q, n) == log[n] \in Shows[q] \ Quiet

\* What the query shows, or will show when the answer under way arrives, lacks change n.
Lacks(q, n) == /\ cache[q].data # None /\ cache[q].data < n
               /\ cache[q].flight # "asked" /\ ~cache[q].failed
               /\ cache[q].flight = "answered" => cache[q].reply < n

Handlings == IF stream.cursor = None THEN 0 ELSE stream.cursor

(* Every change of what a page shows, up to the cursor of the stream, is shown or on its way, *)
(* over reconnections, a new set-up of the stream and refetches that were overtaken; except   *)
(* what happened while the page was opening: before the cursor it was loaded with, or handled *)
(* before the query's first answer (sse.ts with useApiWorkbench).                             *)
NothingMissed ==
  \A q \in DOMAIN cache : \A n \in (Gap(q) + 1)..Handlings : Changed(q, n) => ~Lacks(q, n)

(* A page catches up: a change after its opening is shown in the end, unless a read failed   *)
(* and the page says so, or the browser gave the stream up (sse.ts, apiStore.ts).            *)
Outdated ==
  \E q \in DOMAIN cache :
    /\ cache[q].data # None
    /\ \E n \in (cache[q].data + 1)..Now : n > Gap(q) /\ Changed(q, n)

CatchesUp == Outdated ~> \/ ~Outdated
                        \/ \E q \in DOMAIN cache : cache[q].failed
                        \/ stream.state = "closed"

(* A command that holds to the version the person was shown - the frozen review, the version *)
(* sent from the page, the comparison of the revision before a source is decided - takes     *)
(* effect on that version only, whatever was changed while its requests were under way       *)
(* (apiActions.ts).  The commands of ReadAnew make no such promise: they decide what they    *)
(* read at the click, which may be newer than what was shown.                                *)
DecidedAsShown ==
  \A i \in DOMAIN effects :
    LET c == scene.command
        e == effects[i] IN
    (/\ c \in DOMAIN Judged \ ReadAnew
     /\ Script[e.at].do \in {"update", "decide"} /\ Script[e.at].on = Judged[c])
       => e.basis = Version(Judged[c], e.seen)

(* A command that is one creation takes effect once for the opening its button is clicked in *)
(* - in a dialog that stays, until the answer is shown there - whether the button is clicked *)
(* again at once or after the answer was lost; unless an answer to a request of an earlier   *)
(* opening comes in meanwhile: it takes the key of the same request away, whoever sent it    *)
(* (client.ts, pendingWrites).  A click after the answer was shown creates once more.        *)
Disturbed(i) == effects[i].intent \in dialog.late

CreatedOnce ==
  (Len(Script) = 1 /\ Script[1].do = "create") =>
    \A i, j \in DOMAIN effects :
      effects[i].intent = effects[j].intent /\ ~Disturbed(i) => i = j
=============================================================================
