------------------------------ MODULE WorkSeed -------------------------------
(***************************************************************************)
(* The work state the preview starts from (features/work/seed.ts), its     *)
(* project "leaf", after normalizeWork has given every plan a main topic.  *)
(***************************************************************************)
EXTENDS WorkState

SeedTask(seat, status, files) ==
  [plan |-> "leafFirst", parent |-> None, seats |-> {seat}, reviewer |-> "lead",
   status |-> status, revision |-> 1, reqs |-> {}, files |-> files, skip |-> None,
   discarded |-> FALSE, by |-> None, main |-> None]

SeedRequirement(id, kind, ref, at) ==
  [id |-> id, kind |-> kind, ref |-> ref, at |-> at, hard |-> TRUE, waived |-> FALSE, from |-> None]

SeedTasks ==
  [scope |-> SeedTask("lead", "accepted", 1),
   build |-> SeedTask("maker", "delivered", 1),
   guide |-> SeedTask("writer", "delivered", 1),
   package |-> [SeedTask("receiver", "ready", 0) EXCEPT
     !.reqs = {SeedRequirement("r-receipt", "receipt", "firstReview", "both"),
               SeedRequirement("r-evidence", "evidence", None, "accept")}],
   emptyState |-> [SeedTask("maker2", "working", 0) EXCEPT !.parent = "build"],
   research |-> [SeedTask("receiver", "working", 0) EXCEPT !.plan = None]]

SeedMembers == [lin |-> "owner", shen |-> "manager", gu |-> "member",
                zhou |-> "member", xia |-> "member", jiang |-> "member"]

SeedPositions ==
  [leadRole |-> {<<"delivery", "accept">>}, buildRole |-> {<<"delivery", "make">>},
   experienceRole |-> {<<"delivery", "receive">>}, contentRole |-> {<<"delivery", "make">>}]

Seat(position, person) == [position |-> position, person |-> person]
SeedSeats ==
  [lead |-> Seat("leadRole", "lin"), maker |-> Seat("buildRole", "gu"),
   maker2 |-> Seat("buildRole", "jiang"), receiver |-> Seat("experienceRole", "zhou"),
   writer |-> Seat("contentRole", "xia")]

SeedPlan(status, refs, main) ==
  [owner |-> "lead", status |-> status, revision |-> 1, refs |-> refs, discarded |-> FALSE,
   by |-> None, main |-> main]
SeedPlans == [leafFirst |-> SeedPlan("active", {}, <<"main", "leafFirst">>),
              leafNext |-> SeedPlan("draft", {"build"}, <<"main", "leafNext">>)]

SeedSource(task, seat, person) ==
  [task |-> task, sender |-> seat, revision |-> 1, status |-> "pending", sentBy |-> person,
   decidedBy |-> None, files |-> 1]
SeedHandoffs ==
  [firstReview |->
    [task |-> "package", receiver |-> "receiver", flow |-> "delivery", flowVersion |-> 1,
     stale |-> FALSE, kind |-> "dependency", history |-> {},
     sources |-> [api |-> SeedSource("build", "maker", "gu"),
                  guide |-> SeedSource("guide", "writer", "xia")]]]

SeedFlows == [delivery |-> [status |-> "published", version |-> 1, definition |-> None,
                            nodes |-> <<"make", "receive", "accept">>, draft |-> None]]

SeedInvites == [zhao |-> [person |-> "zhao", positions |-> {"buildRole", "contentRole"},
                          status |-> "pending"]]
SeedTopic(plans, tasks, mainPlan, messages) ==
  [plans |-> plans, tasks |-> tasks, mainPlan |-> mainPlan, parent |-> None, fork |-> 0,
   links |-> 1, messages |-> messages, runs |-> <<>>]
SeedMessages == <<[kind |-> "person", seq |-> 0], [kind |-> "ai", seq |-> 0]>>
SeedTopics ==
  [t \in {<<"topic", "labels">>, <<"main", "leafFirst">>, <<"main", "leafNext">>} |->
     IF t[1] = "main" THEN SeedTopic({t[2]}, {}, t[2], <<>>)
     ELSE SeedTopic({"leafFirst", "leafNext"}, {"build"}, None, SeedMessages)]

LeafSeed ==
  [members |-> SeedMembers, positions |-> SeedPositions, seats |-> SeedSeats,
   plans |-> SeedPlans, tasks |-> SeedTasks, handoffs |-> SeedHandoffs, flows |-> SeedFlows,
   topics |-> SeedTopics, invites |-> SeedInvites, prompts |-> <<>>, proposals |-> <<>>,
   activities |-> <<>>, suggestions |-> <<>>, limit |-> 3]
=============================================================================
