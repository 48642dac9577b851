\* A topic and the main topic of a plan, written in, forked and linked, and an arrangement.
SPECIFICATION Spec
CONSTANTS
  None = None
  Start <- Table
  TopicIds <- TwoTopics
  ActivityIds <- OneActivity
  ProposalIds = {"p1"}
  PlanIds = {"plan1"}
  TaskIds = {"task1"}
  Limits = {1}
  MaxEvents = 5
INVARIANTS
  HistoryNumbered
  MainTopicsLinked
PROPERTIES
  HistoryFrozen
CHECK_DEADLOCK FALSE
