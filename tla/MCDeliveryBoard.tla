--------------------------- MODULE MCDeliveryBoard ---------------------------
(* The seed's first hand-off and its tasks, for TLC.                       *)
EXTENDS DeliveryBoard, WorkSeed

Part(f, ids) == [i \in ids |-> f[i]]

\* The first hand-off with both of its sources made by one person, one of them of an accepted task,
\* and the people of the tasks and the manager.
FirstReview ==
  [LeafSeed EXCEPT !.tasks = [Part(@, {"build", "guide", "package"}) EXCEPT
                                !.guide.seats = {"maker"}, !.guide.status = "accepted"],
                   !.plans = [leafFirst |-> @.leafFirst],
                   !.members = Part(@, {"lin", "gu", "zhou"}),
                   !.seats = Part(@, {"lead", "maker", "receiver"}),
                   !.handoffs["firstReview"].sources["guide"] =
                      SeedSource("guide", "maker", "gu")]
OneHandoff == {"h2"}
OneActivity == {<<"activity", "a1", 0>>}
=============================================================================
