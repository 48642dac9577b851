----------------------------- MODULE MCTeamBoard -----------------------------
(* Two members with a proposed arrangement, for TLC.                      *)
EXTENDS TeamBoard, WorkSeed

Part(f, ids) == [i \in ids |-> f[i]]
Team ==
  [LeafSeed EXCEPT
    !.members = Part(@, {"lin", "gu"}), !.seats = Part(@, {"lead", "maker"}),
    !.positions = Part(@, {"leadRole", "buildRole"}),
    !.plans = <<>>, !.tasks = <<>>, !.handoffs = <<>>,
    !.invites = <<>>,
    !.topics = [t \in {<<"topic", "labels">>} |-> SeedTopic({}, {}, None, <<>>)]]

OneTopic == {<<"topic", "labels">>}
TwoSteps == <<"step0", "step1">>
OnePreset == [research |-> <<"ask">>]

\* An arrangement of two tasks that lin has proposed and both members have to approve.
TeamTask(node, seat, after) == [node |-> node, seat |-> seat, reviewer |-> "lead", after |-> after]
Asked ==
  [Team EXCEPT !.proposals =
    [p0 |-> [Proposed(None, <<"topic", "labels">>, "lin", FlowVersion(Team),
                      Holders(Team, {"lead", "maker"}))
             EXCEPT !.owner = "lead",
                    !.tasks = <<TeamTask("make", "maker", {}), TeamTask("accept", "lead", {1})>>]]]
=============================================================================
