---------------------------- MODULE MCArrangeBoard ----------------------------
(* A plan as an approved proposal leaves it, for TLC: two tasks in a row,   *)
(* a draft added behind them, and their two people.                         *)
EXTENDS ArrangeBoard, WorkSeed

Part(f, ids) == [i \in ids |-> f[i]]
RowTask(seat, after) ==
  ArrangedTask("plan", <<"first", "second">>,
               [seat |-> seat, reviewer |-> "lead", after |-> after])

\* A requirement added in the form; every save gives it a new id.
After(t, a, revision) ==
  [id |-> <<"edit", a, t, revision>>, kind |-> "task", ref |-> a, at |-> "start",
   hard |-> TRUE, waived |-> FALSE, from |-> None]

Row ==
  [LeafSeed EXCEPT
    !.members = Part(@, {"lin", "gu"}), !.seats = Part(@, {"lead", "maker"}),
    !.plans = [plan |-> SeedPlan("active", {}, <<"main", "plan">>)],
    !.tasks = [first |-> [RowTask("maker", {}) EXCEPT !.status = "delivered", !.files = 1],
               second |-> RowTask("maker", {1}),
               third |-> [RowTask("lead", {}) EXCEPT
                            !.status = "draft", !.by = "gu",
                            !.reqs = {After("third", "second", 1)}]],
    !.handoffs = <<>>, !.invites = <<>>,
    !.topics = [t \in {<<"main", "plan">>} |-> SeedTopic({"plan"}, {}, "plan", <<>>)]]

\* Another owner of the plan, or a task that takes another one's place in the row.
EditsOf(w, o) ==
  CASE o[1] = "plan" -> {[owner |-> "maker"]}
    [] o[2] = "second" -> {[reqs |-> {After("second", "third", w.tasks["second"].revision)}]}
    [] o[2] = "third" -> {[reqs |-> {}]}
    [] OTHER -> {}
OneActivity == {<<"activity", "a1", 0>>}
=============================================================================
