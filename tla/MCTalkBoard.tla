----------------------------- MODULE MCTalkBoard -----------------------------
(* One plan with one task, the plan's main topic, for TLC.  What is written *)
(* in a topic does not depend on who writes it, so one person will do.     *)
EXTENDS TalkBoard, WorkSeed

Part(f, ids) == [i \in ids |-> f[i]]
Table ==
  [LeafSeed EXCEPT
    !.members = Part(@, {"lin"}), !.seats = Part(@, {"lead"}),
    !.positions = Part(@, {"leadRole"}),
    !.plans = [leafNext |-> [@.leafNext EXCEPT !.refs = {}]],
    !.tasks = [build |-> [@.build EXCEPT !.plan = "leafNext", !.seats = {"lead"}]],
    !.flows.delivery.nodes = <<"accept">>, !.handoffs = <<>>, !.invites = <<>>, !.limit = 2,
    !.topics = [t \in {<<"main", "leafNext">>} |->
                  SeedTopic({"leafNext"}, {}, "leafNext", <<>>)]]

TwoTopics == {<<"topic", "t1">>, <<"topic", "t2">>}
OneActivity == {<<"activity", "a1", 0>>}
=============================================================================
