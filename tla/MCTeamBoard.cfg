\* A small team that changes while it agrees on an arrangement.
SPECIFICATION Spec
CONSTANTS
  None = None
  Start <- Asked
  Others = {"zhao"}
  Topics <- OneTopic
  Steps <- TwoSteps
  Presets <- OnePreset
  Roles = {"analyst"}
  ProposalIds = {"p1", "p2"}
  PlanIds = {"plan1"}
  TaskIds = {"task1", "task2", "task3"}
  SeatIds = {"seat1"}
  InviteIds = {"i1"}
  PositionIds = {"pos1"}
  FlowIds = {"flow1"}
  Versions = 2
  Changed = 2
INVARIANTS
  SeatsHeldByMembers
  DraftInOrder
CHECK_DEADLOCK FALSE
